------------------------ MODULE StreamRuntimeProofs ------------------------
(* Proofs about StreamRuntime: in programs of filters, maps and unions every *)
(* event comes out at most once and in order, and a panic loses one event at *)
(* most; and a window, a pattern or a join that runs alone emits what its    *)
(* property says, whatever panics.                                           *)
(*                                                                           *)
(* The first invariant says that there is a map w from the number of an event*)
(* to the place where it is (a channel, a task, out, or gone) that agrees    *)
(* with the channels, the tasks and the output. Nothing of it is in the      *)
(* state: it is what the steps move. In series, who went in first by a       *)
(* channel is never further back on the way to the end than who went in      *)
(* later.                                                                    *)
(*                                                                           *)
(* Alone, an operator has received a known part of what was sent, and the    *)
(* other invariants (StreamAlone) say what it holds, is about to send and    *)
(* has sent in terms of that part: Going, Tight and Slid of a window,        *)
(* Matching of a pattern, Joining of a join. Each is of plain values: a      *)
(* lemma says what the body of the loop makes of them, and the steps of the  *)
(* program are shown to be one of those, or to leave the values alone.       *)
EXTENDS StreamAlone, FiniteSetTheorems, WellFoundedInduction, TLAPS

(* A message has been sent into a channel and waits there, is held by a      *)
(* task, is on its way in a task of its own, has come out, or is gone.       *)
InChan(c) == <<"chan", c>>
InTask(o) == <<"task", o>>
InFly(o)  == <<"fly", o>>
AtEnd     == <<"out", Sink>>
Gone      == <<"gone", Sink>>

(* The places on the way of a program, and the next one after each. *)
Places(p) == {InChan(c) : c \in Channels(p)} \cup {InTask(o) : o \in DOMAIN p} \cup {AtEnd}
Hop(p, x) ==
    CASE x[1] = "chan" -> InTask(x[2][1])
      [] x[1] = "task" -> IF p[x[2]].to = Sink THEN AtEnd ELSE InChan(p[x[2]].to)
      [] OTHER -> AtEnd
Closed(p, X) == \A x \in X : Hop(p, x) \in X
Onward(p, x) ==
    {y \in Places(p) : \A X \in SUBSET Places(p) : x \in X /\ Closed(p, X) => y \in X}

(* The place after a place is a place. *)
LEMMA HopType ==
    ASSUME NEW p \in Programs, NEW x \in Places(p)
    PROVE  Hop(p, x) \in Places(p)
<1>1. CASE \E c \in Channels(p) : x = InChan(c)
  <2>1. PICK c \in Channels(p) : x = InChan(c)
    BY <1>1
  <2>2. c[1] \in DOMAIN p
    BY DEF Channels
  <2>3. Hop(p, x) = InTask(c[1])
    BY <2>1 DEF Hop, InChan
  <2> QED
    BY <2>2, <2>3 DEF Places
<1>2. CASE \E o \in DOMAIN p : x = InTask(o)
  <2>1. PICK o \in DOMAIN p : x = InTask(o)
    BY <1>2
  <2>2. Hop(p, x) = IF p[o].to = Sink THEN AtEnd ELSE InChan(p[o].to)
    BY <2>1 DEF Hop, InTask
  <2>3. p[o].to \in Channels(p) \cup {Sink}
    BY StreamAssumption
  <2> QED
    BY <2>2, <2>3 DEF Places
<1>3. CASE x = AtEnd
  BY <1>3 DEF Hop, AtEnd, Places
<1> QED
  BY <1>1, <1>2, <1>3 DEF Places

(* What is onward of a place has the place in it, and with each place the    *)
(* next.                                                                     *)
LEMMA OnwardClosed ==
    ASSUME NEW p \in Programs, NEW x \in Places(p)
    PROVE  x \in Onward(p, x) /\ Onward(p, x) \subseteq Places(p) /\ Closed(p, Onward(p, x))
BY HopType DEF Onward, Closed

(* It is the least such set. *)
LEMMA OnwardLeast ==
    ASSUME NEW p \in Programs, NEW x \in Places(p), NEW X \in SUBSET Places(p),
           x \in X, Closed(p, X)
    PROVE  Onward(p, x) \subseteq X
BY DEF Onward

(* Onward of a place are the place and what is onward of the next. *)
LEMMA OnwardHop ==
    ASSUME NEW p \in Programs, NEW x \in Places(p)
    PROVE  /\ Onward(p, x) = {x} \cup Onward(p, Hop(p, x))
<1> DEFINE h == Hop(p, x)
           X == {x} \cup Onward(p, h)
<1>1. h \in Places(p)
  BY HopType
<1>2. h \in Onward(p, h) /\ Onward(p, h) \subseteq Places(p) /\ Closed(p, Onward(p, h))
  BY <1>1, OnwardClosed
<1>3. x \in Onward(p, x) /\ Onward(p, x) \subseteq Places(p) /\ Closed(p, Onward(p, x))
  BY OnwardClosed
<1>4. Closed(p, X)
  BY <1>2 DEF Closed
<1>5. Onward(p, x) \subseteq X
  <2> HIDE DEF h
  <2> QED
    BY <1>2, <1>4, OnwardLeast
<1>6. h \in Onward(p, x)
  BY <1>3 DEF Closed
<1>7. Onward(p, h) \subseteq Onward(p, x)
  <2> HIDE DEF h
  <2> QED
    BY <1>1, <1>3, <1>6, OnwardLeast
<1> QED
  BY <1>3, <1>5, <1>7

(* Nothing is onward of the end but the end. *)
LEMMA OnwardEnd ==
    ASSUME NEW p \in Programs
    PROVE  AtEnd \in Places(p) /\ Onward(p, AtEnd) = {AtEnd}
<1>1. AtEnd \in Places(p) /\ Hop(p, AtEnd) = AtEnd
  BY DEF Places, Hop, AtEnd
<1>2. Closed(p, {AtEnd})
  BY <1>1 DEF Closed
<1> QED
  BY <1>1, <1>2, OnwardLeast, OnwardClosed

(* What leads to the end goes by no place twice. *)
LEMMA NoWayBack ==
    ASSUME NEW p \in Programs, NEW x \in Places(p), x # AtEnd, AtEnd \in Onward(p, x)
    PROVE  x \notin Onward(p, Hop(p, x))
<1> SUFFICES ASSUME x \in Onward(p, Hop(p, x)) PROVE FALSE
  OBVIOUS
<1> DEFINE Y == {y \in Places(p) : x \in Onward(p, y)}
<1>1. \A y \in Y : Hop(p, y) \in Y
  <2> SUFFICES ASSUME NEW y \in Y PROVE Hop(p, y) \in Y
    OBVIOUS
  <2>1. Hop(p, y) \in Places(p)
    BY HopType
  <2>2. Onward(p, y) = {y} \cup Onward(p, Hop(p, y))
    BY OnwardHop
  <2>3. x \in Onward(p, Hop(p, y))
    BY <2>2
  <2> QED
    BY <2>1, <2>3
<1>2. Closed(p, Y) /\ Y \in SUBSET Places(p) /\ x \in Y
  BY <1>1, OnwardClosed DEF Closed
<1>3. AtEnd \in Y
  <2> HIDE DEF Y
  <2> QED
    BY <1>2, OnwardLeast
<1> QED
  BY <1>3, OnwardEnd

(* What there is in a program of filters, maps and unions: every message is  *)
(* one event, as in StreamAlone.                                             *)
Passings == {"filter", "map", "union"}
States   == {"wait", "send", "down"}
Tasks ==
    [at : States, pend : Seq(Single), buf : {<<>>}, mark : {0}, due : {0},
     until : Nat, backoff : Nat]

TypeInv ==
    /\ program \in Programs /\ \A o \in Ops : Kind(o) \in Passings
    /\ chan \in [Channels(program) -> Seq(Single)]
    /\ task \in [Ops -> Tasks]
    /\ \A o \in Ops : IF task[o].at = "send" THEN Len(task[o].pend) = 1 ELSE task[o].pend = <<>>
    /\ fly \in [Ops -> SUBSET Single]
    /\ now \in Nat
    /\ sent \in Seq([e : Event, c : Channels(program)])
    /\ \A i \in DOMAIN sent : sent[i].e.n = i
    /\ out \in Seq([from : Ops, msg : Single])

(* A filter, a map and a union read no clock: their loop starts by waiting. *)
LEMMA Loop ==
    ASSUME NEW o \in Ops, Kind(o) \in Passings
    PROVE  /\ ~ReadsClock(Kind(o)) /\ ~TimeWindow(Kind(o)) /\ ~Timed(Kind(o))
           /\ Top(Kind(o)) = "wait" /\ Kind(o) # "runner" /\ Kind(o) \notin {"join", "pattern"}
BY DEF Passings, ReadsClock, TimeWindow, Timed, Top

(* They send the message or nothing and keep no buffer. *)
LEMMA Forwards ==
    ASSUME NEW o \in Ops, Kind(o) \in Passings, NEW buf, NEW port, NEW m
    PROVE  /\ Process(o, buf, port, m).buf = buf
           /\ Process(o, buf, port, m).send \in {<<>>, <<m>>}
BY Loop DEF Process, Forward, Passings

(* Their task when it starts. *)
LEMMA FreshTask ==
    ASSUME NEW o \in Ops, Kind(o) \in Passings, NEW t \in Nat, NEW b \in Nat
    PROVE  Fresh(Kind(o), t, b) =
             [at |-> "wait", pend |-> <<>>, buf |-> <<>>, mark |-> 0, due |-> 0,
              until |-> 0, backoff |-> b]
BY Loop DEF Fresh

(* The types hold at the start of such a program. *)
LEMMA InitPassing == Init /\ Passing => TypeInv
<1> SUFFICES ASSUME Init, Passing PROVE TypeInv
  OBVIOUS
<1>1. program \in Programs /\ \A o \in Ops : Kind(o) \in Passings
  BY DEF Init, Passing, Kinds, Passings
<1>2. \A o \in Ops : task[o] = [at |-> "wait", pend |-> <<>>, buf |-> <<>>, mark |-> 0,
                               due |-> 0, until |-> 0, backoff |-> 1]
  BY <1>1, FreshTask DEF Init
<1>3. task \in [Ops -> Tasks] /\ \A o \in Ops : task[o].at = "wait" /\ task[o].pend = <<>>
  <2>1. \A o \in Ops : task[o] \in Tasks
    <3>1. [at |-> "wait", pend |-> <<>>, buf |-> <<>>, mark |-> 0, due |-> 0, until |-> 0,
           backoff |-> 1] \in Tasks
      BY DEF Tasks, States
    <3> QED
      BY <1>2, <3>1
  <2>2. task = [o \in Ops |-> task[o]]
    BY DEF Init
  <2> QED
    BY <1>2, <2>1, <2>2
<1>4. /\ chan \in [Channels(program) -> Seq(Single)] /\ fly \in [Ops -> SUBSET Single]
      /\ now = 0 /\ sent = <<>> /\ out = <<>>
  BY DEF Init
<1> QED
  BY <1>1, <1>3, <1>4 DEF TypeInv

(* Who holds messages, and where a message can be: w tells it of every event *)
(* of se, what was sent; ch are the channels, h what is held, ou what came   *)
(* out.                                                                      *)
Held(p)  == {InTask(o) : o \in DOMAIN p} \cup {InFly(o) : o \in DOMAIN p}
Spots(p) == Places(p) \cup Held(p) \cup {Gone}
At(se, w, m, x) == m[1].n \in DOMAIN se /\ se[m[1].n].e = m[1] /\ w[m[1].n] = x

Outputs(p) == [from : DOMAIN p, msg : Single]
Contents(p, ch, h, ou) ==
    /\ ch \in [Channels(p) -> Seq(Single)]
    /\ h \in [Held(p) -> SUBSET Single]
    /\ ou \in Seq(Outputs(p))

(* w agrees with what is in the channels, held and out, and nothing is there *)
(* twice.                                                                    *)
PlacedChan(p, se, w, ch) ==
    \A c \in Channels(p) :
      /\ \A i \in DOMAIN ch[c] : At(se, w, ch[c][i], InChan(c))
      /\ \A i, j \in DOMAIN ch[c] : ch[c][i] = ch[c][j] => i = j
      /\ \A n \in DOMAIN se : w[n] = InChan(c) => \E i \in DOMAIN ch[c] : ch[c][i][1].n = n
PlacedHeld(p, se, w, h) ==
    \A x \in Held(p) :
      /\ \A m \in h[x] : At(se, w, m, x)
      /\ \A n \in DOMAIN se : w[n] = x => \E m \in h[x] : m[1].n = n
PlacedOut(se, w, ou) ==
    /\ \A i \in DOMAIN ou : At(se, w, ou[i].msg, AtEnd)
    /\ \A i, j \in DOMAIN ou : ou[i].msg = ou[j].msg => i = j
Placed(p, se, w, ch, h, ou) ==
    /\ w \in [DOMAIN se -> Spots(p)]
    /\ PlacedChan(p, se, w, ch) /\ PlacedHeld(p, se, w, h) /\ PlacedOut(se, w, ou)

(* The places differ from each other. *)
LEMMA Apart ==
    /\ \A c, d : InChan(c) = InChan(d) => c = d
    /\ \A o, d : InTask(o) = InTask(d) => o = d
    /\ \A c, o : InChan(c) # InTask(o) /\ InChan(c) # InFly(o) /\ InTask(c) # InFly(o)
    /\ \A c : InChan(c) # AtEnd /\ InChan(c) # Gone /\ InTask(c) # AtEnd /\ InTask(c) # Gone
    /\ \A c : InFly(c) # AtEnd /\ InFly(c) # Gone
    /\ AtEnd # Gone
BY DEF InChan, InTask, InFly, AtEnd, Gone

(* A task is no channel, and neither the end nor gone. *)
LEMMA HeldApart ==
    ASSUME NEW p, NEW x \in Held(p)
    PROVE  x # AtEnd /\ x # Gone /\ \A c : x # InChan(c)
BY Apart DEF Held

(* A message is one event, and the event tells the message. *)
LEMMA Singles ==
    ASSUME NEW m \in Single
    PROVE  /\ m[1] \in Event /\ m[1].n \in Nat /\ m = <<m[1]>>
           /\ \A k \in Single : k[1] = m[1] => k = m
<1>1. PICK e \in Event : m = <<e>>
  BY DEF Single
<1>2. m[1] = e /\ e.n \in Nat
  BY <1>1 DEF Event
<1>3. ASSUME NEW k \in Single, k[1] = m[1] PROVE k = m
  <2>1. PICK d \in Event : k = <<d>>
    BY DEF Single
  <2> QED
    BY <1>1, <1>2, <1>3, <2>1
<1> QED
  BY <1>1, <1>2, <1>3

(* Where an event can be. *)
LEMMA SpotsAre ==
    ASSUME NEW p
    PROVE  /\ Gone \in Spots(p) /\ AtEnd \in Spots(p) /\ Held(p) \subseteq Spots(p)
           /\ \A c \in Channels(p) : InChan(c) \in Spots(p)
           /\ \A o \in DOMAIN p : InTask(o) \in Held(p) /\ InFly(o) \in Held(p)
BY DEF Spots, Places, Held

(* A move in w of one event disturbs only the two places concerned. *)
LEMMA MoveChan ==
    ASSUME NEW p, NEW se, NEW w, NEW ch, PlacedChan(p, se, w, ch), w \in [DOMAIN se -> Spots(p)],
           NEW n \in DOMAIN se, \A c : w[n] # InChan(c), NEW y, \A c : y # InChan(c)
    PROVE  PlacedChan(p, se, [w EXCEPT ![n] = y], ch)
BY DEF PlacedChan, At

(* The same of what tasks hold. *)
LEMMA MoveHeld ==
    ASSUME NEW p, NEW se, NEW w, NEW h, PlacedHeld(p, se, w, h), w \in [DOMAIN se -> Spots(p)],
           NEW n \in DOMAIN se, w[n] \notin Held(p), NEW y, y \notin Held(p)
    PROVE  PlacedHeld(p, se, [w EXCEPT ![n] = y], h)
BY DEF PlacedHeld, At

(* The same of what came out. *)
LEMMA MoveOut ==
    ASSUME NEW p, NEW se, NEW w, NEW ou, PlacedOut(se, w, ou), w \in [DOMAIN se -> Spots(p)],
           NEW n \in DOMAIN se, w[n] # AtEnd, NEW y
    PROVE  PlacedOut(se, [w EXCEPT ![n] = y], ou)
BY DEF PlacedOut, At

(* The head of a channel is taken: its event is gone, and everything else is *)
(* where it was.                                                             *)
LEMMA TakeChan ==
    ASSUME NEW p, NEW se, NEW w, NEW ch, NEW h, NEW ou,
           Contents(p, ch, h, ou), Placed(p, se, w, ch, h, ou),
           NEW c \in Channels(p), ch[c] # <<>>
    PROVE  LET n == Head(ch[c])[1].n IN
           /\ Head(ch[c]) = ch[c][1] /\ Head(ch[c]) \in Single
           /\ At(se, w, Head(ch[c]), InChan(c))
           /\ Contents(p, [ch EXCEPT ![c] = Tail(ch[c])], h, ou)
           /\ Placed(p, se, [w EXCEPT ![n] = Gone], [ch EXCEPT ![c] = Tail(ch[c])], h, ou)
<1> DEFINE q == ch[c]
           m == Head(q)
           n == m[1].n
           ch2 == [ch EXCEPT ![c] = Tail(q)]
           w2 == [w EXCEPT ![n] = Gone]
<1>1. ch \in [Channels(p) -> Seq(Single)] /\ q \in Seq(Single) /\ q # <<>>
  BY DEF Contents
<1>2. /\ Len(q) \in Nat \ {0} /\ DOMAIN q = 1..Len(q) /\ m = q[1] /\ 1 \in DOMAIN q
      /\ Tail(q) \in Seq(Single) /\ DOMAIN Tail(q) = 1..(Len(q) - 1)
      /\ \A i \in DOMAIN Tail(q) : Tail(q)[i] = q[i + 1] /\ i + 1 \in DOMAIN q /\ i \in Nat
      /\ \A j \in DOMAIN q : j # 1 => j - 1 \in DOMAIN Tail(q) /\ Tail(q)[j - 1] = q[j]
      /\ m \in Single
  <2> HIDE DEF q
  <2> QED
    BY <1>1
<1>3. /\ PlacedChan(p, se, w, ch) /\ w \in [DOMAIN se -> Spots(p)]
      /\ PlacedHeld(p, se, w, h) /\ PlacedOut(se, w, ou)
  BY DEF Placed
<1>4. At(se, w, m, InChan(c)) /\ n \in DOMAIN se /\ w[n] = InChan(c)
  BY <1>2, <1>3 DEF PlacedChan, At
<1>5. \A i \in DOMAIN q : i # 1 => q[i][1].n # n
  <2> SUFFICES ASSUME NEW i \in DOMAIN q, i # 1, q[i][1].n = n PROVE FALSE
    OBVIOUS
  <2>1. se[n].e = q[i][1] /\ se[n].e = m[1]
    BY <1>3, <1>4 DEF PlacedChan, At
  <2>2. q[i] = m
    <3>1. q[i] \in Single /\ m \in Single
      <4> HIDE DEF q
      <4> QED
        BY <1>1, <1>2
    <3> HIDE DEF m
    <3> QED
      BY <2>1, <3>1, Singles
  <2> QED
    BY <1>2, <1>3, <2>2 DEF PlacedChan
<1>6. Contents(p, ch2, h, ou)
  BY <1>1, <1>2 DEF Contents
<1>7. w2 \in [DOMAIN se -> Spots(p)]
  BY <1>3, SpotsAre
<1>8. PlacedHeld(p, se, w2, h) /\ PlacedOut(se, w2, ou)
  <2>1. w[n] \notin Held(p) /\ w[n] # AtEnd /\ Gone \notin Held(p)
    BY <1>4, HeldApart, Apart
  <2> HIDE DEF n
  <2> QED
    BY <1>3, <1>4, <2>1, MoveHeld, MoveOut
<1>9. PlacedChan(p, se, w2, ch2)
  <2> SUFFICES ASSUME NEW d \in Channels(p)
               PROVE  /\ \A i \in DOMAIN ch2[d] : At(se, w2, ch2[d][i], InChan(d))
                      /\ \A i, j \in DOMAIN ch2[d] : ch2[d][i] = ch2[d][j] => i = j
                      /\ \A k \in DOMAIN se : w2[k] = InChan(d) =>
                           \E i \in DOMAIN ch2[d] : ch2[d][i][1].n = k
    BY Zenon DEF PlacedChan
  <2>1. CASE d # c
    <3>1. ch2[d] = ch[d]
      BY <1>1, <2>1
    <3>2. /\ \A i \in DOMAIN ch[d] : At(se, w, ch[d][i], InChan(d))
          /\ \A i, j \in DOMAIN ch[d] : ch[d][i] = ch[d][j] => i = j
          /\ \A k \in DOMAIN se : w[k] = InChan(d) => \E i \in DOMAIN ch[d] : ch[d][i][1].n = k
      BY <1>3, Zenon DEF PlacedChan
    <3>3. InChan(d) # w[n] /\ InChan(d) # Gone
      BY <1>4, <2>1, Apart
    <3>4. \A i \in DOMAIN ch[d] : At(se, w2, ch[d][i], InChan(d))
      <4> HIDE DEF n
      <4> QED
        BY <1>3, <1>4, <3>2, <3>3 DEF At
    <3>5. \A k \in DOMAIN se : w2[k] = InChan(d) => w[k] = InChan(d)
      <4> HIDE DEF n
      <4> QED
        BY <1>3, <1>4, <3>3
    <3> HIDE DEF ch2, w2
    <3> QED
      BY <3>1, <3>2, <3>4, <3>5
  <2>2. CASE d = c
    <3>1. ch2[c] = Tail(q)
      BY <1>1
    <3>2. /\ \A i \in DOMAIN q : At(se, w, q[i], InChan(c))
          /\ \A i, j \in DOMAIN q : q[i] = q[j] => i = j
          /\ \A k \in DOMAIN se : w[k] = InChan(c) => \E i \in DOMAIN q : q[i][1].n = k
      BY <1>3, Zenon DEF PlacedChan
    <3>3. \A i \in DOMAIN Tail(q) : At(se, w2, Tail(q)[i], InChan(c))
      <4> SUFFICES ASSUME NEW i \in DOMAIN Tail(q) PROVE At(se, w2, Tail(q)[i], InChan(c))
        OBVIOUS
      <4>1. Tail(q)[i] = q[i + 1] /\ i + 1 \in DOMAIN q /\ i \in Nat /\ i + 1 # 1
        BY <1>2
      <4>2. q[i + 1][1].n # n /\ At(se, w, q[i + 1], InChan(c))
        <5> HIDE DEF q, n
        <5> QED
          BY <1>5, <3>2, <4>1
      <4> HIDE DEF q, n
      <4> QED
        BY <1>3, <4>1, <4>2 DEF At
    <3>4. \A i, j \in DOMAIN Tail(q) : Tail(q)[i] = Tail(q)[j] => i = j
      <4> HIDE DEF q
      <4> QED
        BY <1>2, <3>2
    <3>5. \A k \in DOMAIN se : w2[k] = InChan(c) => \E i \in DOMAIN Tail(q) : Tail(q)[i][1].n = k
      <4> SUFFICES ASSUME NEW k \in DOMAIN se, w2[k] = InChan(c)
                   PROVE  \E i \in DOMAIN Tail(q) : Tail(q)[i][1].n = k
        OBVIOUS
      <4>1. k # n /\ w[k] = InChan(c)
        <5> HIDE DEF n
        <5> QED
          BY <1>3, <1>4, Apart
      <4>2. PICK j \in DOMAIN q : q[j][1].n = k
        BY <3>2, <4>1
      <4>3. j # 1
        BY <1>2, <4>1, <4>2
      <4>4. j - 1 \in DOMAIN Tail(q) /\ Tail(q)[j - 1] = q[j]
        BY <1>2, <4>3
      <4> QED
        BY <4>2, <4>4
    <3> HIDE DEF ch2, w2, q
    <3> QED
      BY <2>2, <3>1, <3>3, <3>4, <3>5
  <2> QED
    BY <2>1, <2>2
<1>10. Placed(p, se, w2, ch2, h, ou)
  BY <1>7, <1>8, <1>9 DEF Placed
<1> QED
  BY <1>2, <1>4, <1>6, <1>10

(* The same of a message that a task holds. *)
LEMMA TakeHeld ==
    ASSUME NEW p, NEW se, NEW w, NEW ch, NEW h, NEW ou,
           Contents(p, ch, h, ou), Placed(p, se, w, ch, h, ou),
           NEW x \in Held(p), NEW m \in h[x]
    PROVE  /\ m \in Single /\ At(se, w, m, x)
           /\ Contents(p, ch, [h EXCEPT ![x] = h[x] \ {m}], ou)
           /\ Placed(p, se, [w EXCEPT ![m[1].n] = Gone], ch, [h EXCEPT ![x] = h[x] \ {m}], ou)
<1> DEFINE n == m[1].n
           h2 == [h EXCEPT ![x] = h[x] \ {m}]
           w2 == [w EXCEPT ![n] = Gone]
<1>1. h \in [Held(p) -> SUBSET Single] /\ m \in Single
  BY DEF Contents
<1>2. /\ PlacedChan(p, se, w, ch) /\ w \in [DOMAIN se -> Spots(p)]
      /\ PlacedHeld(p, se, w, h) /\ PlacedOut(se, w, ou)
  BY DEF Placed
<1>3. At(se, w, m, x) /\ n \in DOMAIN se /\ w[n] = x
  BY <1>2 DEF PlacedHeld, At
<1>4. Contents(p, ch, h2, ou)
  BY <1>1 DEF Contents
<1>5. w2 \in [DOMAIN se -> Spots(p)]
  BY <1>2, SpotsAre
<1>6. PlacedChan(p, se, w2, ch) /\ PlacedOut(se, w2, ou)
  <2>1. (\A c : w[n] # InChan(c)) /\ w[n] # AtEnd /\ \A c : Gone # InChan(c)
    BY <1>3, HeldApart, Apart
  <2> HIDE DEF n
  <2> QED
    BY <1>2, <1>3, <2>1, MoveChan, MoveOut
<1>7. PlacedHeld(p, se, w2, h2)
  <2> SUFFICES ASSUME NEW y \in Held(p)
               PROVE  /\ \A k \in h2[y] : At(se, w2, k, y)
                      /\ \A i \in DOMAIN se : w2[i] = y => \E k \in h2[y] : k[1].n = i
    BY Zenon DEF PlacedHeld
  <2>1. /\ \A k \in h[y] : At(se, w, k, y)
        /\ \A i \in DOMAIN se : w[i] = y => \E k \in h[y] : k[1].n = i
    BY <1>2, Zenon DEF PlacedHeld
  <2>2. h2[y] = IF y = x THEN h[x] \ {m} ELSE h[y]
    BY <1>1
  <2>3. y # Gone
    BY HeldApart
  <2>4. \A k \in h2[y] : k \in h[y] /\ k[1].n # n
    <3> SUFFICES ASSUME NEW k \in h2[y], k[1].n = n PROVE FALSE
      BY <2>2
    <3>1. k \in h[y] /\ (y = x => k # m)
      BY <2>2
    <3>2. At(se, w, k, y)
      BY <2>1, <3>1
    <3>3. k[1] = m[1] /\ y = x
      BY <1>3, <3>2 DEF At
    <3>4. k \in Single
      BY <1>1, <3>1
    <3> QED
      BY <1>1, <3>1, <3>3, <3>4, Singles
  <2>5. \A k \in h2[y] : At(se, w2, k, y)
    <3> SUFFICES ASSUME NEW k \in h2[y] PROVE At(se, w2, k, y)
      OBVIOUS
    <3>1. At(se, w, k, y) /\ k[1].n # n
      BY <2>1, <2>4
    <3> HIDE DEF n
    <3> QED
      BY <1>2, <3>1 DEF At
  <2>6. ASSUME NEW i \in DOMAIN se, w2[i] = y PROVE \E k \in h2[y] : k[1].n = i
    <3>1. i # n /\ w[i] = y
      <4> HIDE DEF n
      <4> QED
        BY <1>2, <1>3, <2>3, <2>6
    <3>2. PICK k \in h[y] : k[1].n = i
      BY <2>1, <3>1
    <3>3. k \in h2[y]
      BY <2>2, <3>1, <3>2
    <3> QED
      BY <3>2, <3>3
  <2> HIDE DEF h2, w2
  <2> QED
    BY <2>5, <2>6
<1> QED
  BY <1>1, <1>3, <1>4, <1>5, <1>6, <1>7 DEF Placed

(* What is gone can be put anywhere once. *)
LEMMA PutHeld ==
    ASSUME NEW p, NEW se, NEW w, NEW ch, NEW h, NEW ou,
           Contents(p, ch, h, ou), Placed(p, se, w, ch, h, ou),
           NEW x \in Held(p), NEW m \in Single, At(se, w, m, Gone)
    PROVE  /\ Contents(p, ch, [h EXCEPT ![x] = h[x] \cup {m}], ou)
           /\ Placed(p, se, [w EXCEPT ![m[1].n] = x], ch, [h EXCEPT ![x] = h[x] \cup {m}], ou)
<1> DEFINE n == m[1].n
           h2 == [h EXCEPT ![x] = h[x] \cup {m}]
           w2 == [w EXCEPT ![n] = x]
<1>1. h \in [Held(p) -> SUBSET Single]
  BY DEF Contents
<1>2. /\ PlacedChan(p, se, w, ch) /\ w \in [DOMAIN se -> Spots(p)]
      /\ PlacedHeld(p, se, w, h) /\ PlacedOut(se, w, ou)
  BY DEF Placed
<1>3. n \in DOMAIN se /\ w[n] = Gone /\ se[n].e = m[1]
  BY DEF At
<1>4. Contents(p, ch, h2, ou)
  BY <1>1 DEF Contents
<1>5. w2 \in [DOMAIN se -> Spots(p)]
  BY <1>2, SpotsAre
<1>6. PlacedChan(p, se, w2, ch) /\ PlacedOut(se, w2, ou)
  <2>1. (\A c : w[n] # InChan(c)) /\ w[n] # AtEnd /\ \A c : x # InChan(c)
    BY <1>3, HeldApart, Apart
  <2> HIDE DEF n
  <2> QED
    BY <1>2, <1>3, <2>1, MoveChan, MoveOut
<1>7. PlacedHeld(p, se, w2, h2)
  <2> SUFFICES ASSUME NEW y \in Held(p)
               PROVE  /\ \A k \in h2[y] : At(se, w2, k, y)
                      /\ \A i \in DOMAIN se : w2[i] = y => \E k \in h2[y] : k[1].n = i
    BY Zenon DEF PlacedHeld
  <2>1. /\ \A k \in h[y] : At(se, w, k, y)
        /\ \A i \in DOMAIN se : w[i] = y => \E k \in h[y] : k[1].n = i
    BY <1>2, Zenon DEF PlacedHeld
  <2>2. h2[y] = IF y = x THEN h[x] \cup {m} ELSE h[y]
    BY <1>1
  <2>3. y # Gone
    BY HeldApart
  <2>4. \A k \in h[y] : At(se, w2, k, y)
    <3> SUFFICES ASSUME NEW k \in h[y] PROVE At(se, w2, k, y)
      OBVIOUS
    <3>1. At(se, w, k, y)
      BY <2>1
    <3> HIDE DEF n
    <3> QED
      BY <1>2, <1>3, <2>3, <3>1 DEF At
  <2>5. At(se, w2, m, x)
    <3>1. w2[n] = x
      <4> HIDE DEF n
      <4> QED
        BY <1>2, <1>3
    <3> HIDE DEF w2
    <3> QED
      BY <1>3, <3>1 DEF At
  <2>6. ASSUME NEW i \in DOMAIN se, w2[i] = y PROVE \E k \in h2[y] : k[1].n = i
    <3>1. CASE i = n
      <4>1. y = x
        <5> HIDE DEF n
        <5> QED
          BY <1>2, <1>3, <2>6, <3>1
      <4>2. m \in h2[y]
        BY <2>2, <4>1
      <4> QED
        BY <3>1, <4>2
    <3>2. CASE i # n
      <4>1. w[i] = y
        <5> HIDE DEF n
        <5> QED
          BY <1>2, <2>6, <3>2
      <4>2. PICK k \in h[y] : k[1].n = i
        BY <2>1, <4>1
      <4>3. k \in h2[y]
        BY <2>2, <4>2
      <4> QED
        BY <4>2, <4>3
    <3> QED
      BY <3>1, <3>2
  <2> HIDE DEF h2, w2
  <2> QED
    BY <2>2, <2>4, <2>5, <2>6
<1> QED
  BY <1>4, <1>5, <1>6, <1>7 DEF Placed

(* What is gone can be put at the end of a channel. *)
LEMMA PutChan ==
    ASSUME NEW p, NEW se, NEW w, NEW ch, NEW h, NEW ou,
           Contents(p, ch, h, ou), Placed(p, se, w, ch, h, ou),
           NEW c \in Channels(p), NEW m \in Single, At(se, w, m, Gone)
    PROVE  /\ Contents(p, [ch EXCEPT ![c] = Append(ch[c], m)], h, ou)
           /\ Placed(p, se, [w EXCEPT ![m[1].n] = InChan(c)],
                     [ch EXCEPT ![c] = Append(ch[c], m)], h, ou)
<1> DEFINE n == m[1].n
           q == ch[c]
           r == Append(q, m)
           ch2 == [ch EXCEPT ![c] = r]
           w2 == [w EXCEPT ![n] = InChan(c)]
<1>1. ch \in [Channels(p) -> Seq(Single)] /\ q \in Seq(Single)
  BY DEF Contents
<1>2. /\ r \in Seq(Single) /\ DOMAIN q = 1..Len(q) /\ Len(q) \in Nat
      /\ DOMAIN r = 1..(Len(q) + 1) /\ r[Len(q) + 1] = m
      /\ \A i \in DOMAIN q : i \in DOMAIN r /\ r[i] = q[i]
      /\ \A i \in DOMAIN r : i \in DOMAIN q \/ i = Len(q) + 1
  <2> HIDE DEF q
  <2> QED
    BY <1>1
<1>3. /\ PlacedChan(p, se, w, ch) /\ w \in [DOMAIN se -> Spots(p)]
      /\ PlacedHeld(p, se, w, h) /\ PlacedOut(se, w, ou)
  BY DEF Placed
<1>4. n \in DOMAIN se /\ w[n] = Gone /\ se[n].e = m[1]
  BY DEF At
<1>5. Contents(p, ch2, h, ou)
  <2> HIDE DEF r
  <2> QED
    BY <1>1, <1>2 DEF Contents
<1>6. w2 \in [DOMAIN se -> Spots(p)]
  BY <1>3, SpotsAre
<1>7. PlacedHeld(p, se, w2, h) /\ PlacedOut(se, w2, ou)
  <2>1. w[n] \notin Held(p) /\ w[n] # AtEnd /\ InChan(c) \notin Held(p)
    BY <1>4, HeldApart, Apart
  <2> HIDE DEF n
  <2> QED
    BY <1>3, <1>4, <2>1, MoveHeld, MoveOut
<1>8. PlacedChan(p, se, w2, ch2)
  <2> SUFFICES ASSUME NEW d \in Channels(p)
               PROVE  /\ \A i \in DOMAIN ch2[d] : At(se, w2, ch2[d][i], InChan(d))
                      /\ \A i, j \in DOMAIN ch2[d] : ch2[d][i] = ch2[d][j] => i = j
                      /\ \A k \in DOMAIN se : w2[k] = InChan(d) =>
                           \E i \in DOMAIN ch2[d] : ch2[d][i][1].n = k
    BY Zenon DEF PlacedChan
  <2>1. /\ \A i \in DOMAIN ch[d] : At(se, w, ch[d][i], InChan(d))
        /\ \A i, j \in DOMAIN ch[d] : ch[d][i] = ch[d][j] => i = j
        /\ \A k \in DOMAIN se : w[k] = InChan(d) => \E i \in DOMAIN ch[d] : ch[d][i][1].n = k
    BY <1>3, Zenon DEF PlacedChan
  <2>2. InChan(d) # Gone
    BY Apart
  <2>3. \A i \in DOMAIN ch[d] : At(se, w2, ch[d][i], InChan(d)) /\ ch[d][i] # m
    <3> SUFFICES ASSUME NEW i \in DOMAIN ch[d]
                 PROVE  At(se, w2, ch[d][i], InChan(d)) /\ ch[d][i] # m
      OBVIOUS
    <3>1. At(se, w, ch[d][i], InChan(d))
      BY <2>1
    <3> HIDE DEF n
    <3> QED
      BY <1>3, <1>4, <2>2, <3>1 DEF At, n
  <2>4. CASE d # c
    <3>1. ch2[d] = ch[d]
      BY <1>1, <2>4
    <3>2. \A k \in DOMAIN se : w2[k] = InChan(d) => w[k] = InChan(d)
      <4> HIDE DEF n
      <4> QED
        BY <1>3, <1>4, <2>4, Apart
    <3> HIDE DEF ch2, w2
    <3> QED
      BY <2>1, <2>3, <3>1, <3>2
  <2>5. CASE d = c
    <3>1. ch2[c] = r
      BY <1>1
    <3>2. \A i \in DOMAIN r : At(se, w2, r[i], InChan(c))
      <4>1. At(se, w2, m, InChan(c))
        <5>1. w2[n] = InChan(c)
          <6> HIDE DEF n
          <6> QED
            BY <1>3, <1>4
        <5> HIDE DEF w2
        <5> QED
          BY <1>4, <5>1 DEF At
      <4> HIDE DEF r, w2
      <4> QED
        BY <1>2, <2>3, <2>5, <4>1
    <3>3. \A i, j \in DOMAIN r : r[i] = r[j] => i = j
      <4> HIDE DEF r
      <4> QED
        BY <1>2, <2>1, <2>3, <2>5
    <3>4. ASSUME NEW k \in DOMAIN se, w2[k] = InChan(c)
          PROVE  \E i \in DOMAIN r : r[i][1].n = k
      <4>1. CASE k = n
        <5>1. Len(q) + 1 \in DOMAIN r
          <6> HIDE DEF r, q
          <6> QED
            BY <1>2
        <5> HIDE DEF r
        <5> QED
          BY <1>2, <4>1, <5>1
      <4>2. CASE k # n
        <5>1. w[k] = InChan(c)
          <6> HIDE DEF n
          <6> QED
            BY <1>3, <3>4, <4>2
        <5>2. PICK i \in DOMAIN q : q[i][1].n = k
          BY <2>1, <2>5, <5>1
        <5> HIDE DEF r, q
        <5> QED
          BY <1>2, <5>2
      <4> QED
        BY <4>1, <4>2
    <3> HIDE DEF ch2, w2, r
    <3> QED
      BY <2>5, <3>1, <3>2, <3>3, <3>4
  <2> QED
    BY <2>4, <2>5
<1> QED
  BY <1>5, <1>6, <1>7, <1>8 DEF Placed

(* Or it comes out at the end of the program. *)
LEMMA PutOut ==
    ASSUME NEW p, NEW se, NEW w, NEW ch, NEW h, NEW ou,
           Contents(p, ch, h, ou), Placed(p, se, w, ch, h, ou),
           NEW o \in DOMAIN p, NEW m \in Single, At(se, w, m, Gone)
    PROVE  /\ Contents(p, ch, h, Append(ou, [from |-> o, msg |-> m]))
           /\ Placed(p, se, [w EXCEPT ![m[1].n] = AtEnd], ch, h,
                     Append(ou, [from |-> o, msg |-> m]))
<1> DEFINE n == m[1].n
           r == Append(ou, [from |-> o, msg |-> m])
           w2 == [w EXCEPT ![n] = AtEnd]
<1>1. ou \in Seq(Outputs(p)) /\ [from |-> o, msg |-> m] \in Outputs(p)
  BY DEF Contents, Outputs
<1>2. /\ r \in Seq(Outputs(p)) /\ DOMAIN ou = 1..Len(ou) /\ Len(ou) \in Nat
      /\ DOMAIN r = 1..(Len(ou) + 1) /\ r[Len(ou) + 1].msg = m
      /\ \A i \in DOMAIN ou : i \in DOMAIN r /\ r[i] = ou[i]
      /\ \A i \in DOMAIN r : i \in DOMAIN ou \/ i = Len(ou) + 1
  BY <1>1
<1>3. /\ PlacedChan(p, se, w, ch) /\ w \in [DOMAIN se -> Spots(p)]
      /\ PlacedHeld(p, se, w, h) /\ PlacedOut(se, w, ou)
  BY DEF Placed
<1>4. n \in DOMAIN se /\ w[n] = Gone /\ se[n].e = m[1]
  BY DEF At
<1>5. Contents(p, ch, h, r)
  <2> HIDE DEF r
  <2> QED
    BY <1>2 DEF Contents
<1>6. w2 \in [DOMAIN se -> Spots(p)]
  BY <1>3, SpotsAre
<1>7. PlacedHeld(p, se, w2, h) /\ PlacedChan(p, se, w2, ch)
  <2>1. /\ w[n] \notin Held(p) /\ AtEnd \notin Held(p)
        /\ \A c : w[n] # InChan(c) /\ AtEnd # InChan(c)
    BY <1>4, HeldApart, Apart
  <2> HIDE DEF n
  <2> QED
    BY <1>3, <1>4, <2>1, MoveHeld, MoveChan
<1>8. PlacedOut(se, w2, r)
  <2>1. /\ \A i \in DOMAIN ou : At(se, w, ou[i].msg, AtEnd)
        /\ \A i, j \in DOMAIN ou : ou[i].msg = ou[j].msg => i = j
    BY <1>3 DEF PlacedOut
  <2>2. \A i \in DOMAIN ou : At(se, w2, ou[i].msg, AtEnd) /\ ou[i].msg # m
    <3> SUFFICES ASSUME NEW i \in DOMAIN ou
                 PROVE  At(se, w2, ou[i].msg, AtEnd) /\ ou[i].msg # m
      OBVIOUS
    <3>1. At(se, w, ou[i].msg, AtEnd)
      BY <2>1
    <3> HIDE DEF n
    <3> QED
      BY <1>3, <1>4, <3>1, Apart DEF At, n
  <2>3. At(se, w2, m, AtEnd)
    <3>1. w2[n] = AtEnd
      <4> HIDE DEF n
      <4> QED
        BY <1>3, <1>4
    <3> HIDE DEF w2
    <3> QED
      BY <1>4, <3>1 DEF At
  <2> HIDE DEF r, w2
  <2> QED
    BY <1>2, <2>1, <2>2, <2>3 DEF PlacedOut
<1> QED
  BY <1>5, <1>6, <1>7, <1>8 DEF Placed

(* The order. An event is on its way from where it went in, and whoever went *)
(* in before it by the same channel is no further back, where that way leads *)
(* to the end.                                                               *)
Sents(p) == Seq([e : Event, c : Channels(p)])
Before(se, k, n) == k < n /\ se[k].c = se[n].c
Along(p, se, w) ==
    /\ \A n \in DOMAIN se : w[n] # Gone => w[n] \in Onward(p, InChan(se[n].c))
    /\ \A k, n \in DOMAIN se :
         Before(se, k, n) /\ w[k] # Gone /\ w[n] # Gone /\ AtEnd \in Onward(p, w[n])
           => w[k] \in Onward(p, w[n])
Foremost(p, se, w, n) ==
    AtEnd \in Onward(p, w[n]) => \A k \in DOMAIN se : Before(se, k, n) => w[k] # w[n]

Ascending(se, q) ==
    \A i, j \in DOMAIN q :
      i < j /\ se[q[i][1].n].c = se[q[j][1].n].c => q[i][1].n < q[j][1].n
Queued(p, se, ch) ==
    \A c \in Channels(p) : AtEnd \in Onward(p, InChan(c)) => Ascending(se, ch[c])
QueuedOut(se, ou) ==
    \A i, j \in DOMAIN ou :
      i < j /\ se[ou[i].msg[1].n].c = se[ou[j].msg[1].n].c => ou[i].msg[1].n < ou[j].msg[1].n

(* What is known of an event that was sent. *)
LEMMA SentIs ==
    ASSUME NEW p, NEW se \in Sents(p), NEW n \in DOMAIN se
    PROVE  /\ n \in Nat /\ se[n].e \in Event
           /\ se[n].c \in Channels(p) /\ InChan(se[n].c) \in Places(p)
<1>1. \A R : \A s \in Seq(R) : \A i \in DOMAIN s : i \in Nat /\ s[i] \in R
  OBVIOUS
<1>2. n \in Nat /\ se[n] \in [e : Event, c : Channels(p)]
  BY <1>1, Zenon DEF Sents
<1> QED
  BY <1>2 DEF Places

(* An event that is not gone is at a place of the way. *)
LEMMA OnTheWay ==
    ASSUME NEW p \in Programs, NEW se \in Sents(p), NEW w, Along(p, se, w),
           NEW n \in DOMAIN se, w[n] # Gone
    PROVE  w[n] \in Places(p) /\ n \in Nat
<1>2. n \in Nat /\ InChan(se[n].c) \in Places(p)
  BY SentIs
<1>3. Onward(p, InChan(se[n].c)) \subseteq Places(p)
  BY <1>2, OnwardClosed
<1> QED
  BY <1>2, <1>3 DEF Along

(* Whoever is foremost where it is can go on, or be lost. *)
LEMMA MoveAlong ==
    ASSUME NEW p \in Programs, NEW se \in Sents(p), NEW w, w \in [DOMAIN se -> Spots(p)],
           Along(p, se, w), NEW n \in DOMAIN se, w[n] # Gone,
           NEW y \in {Gone, Hop(p, w[n])}, Foremost(p, se, w, n)
    PROVE  Along(p, se, [w EXCEPT ![n] = y])
<1> DEFINE w2 == [w EXCEPT ![n] = y]
           x == w[n]
<1>1. w2[n] = y /\ \A k \in DOMAIN se : k # n => w2[k] = w[k]
  OBVIOUS
<1>2. /\ x \in Places(p) /\ Hop(p, x) \in Places(p)
      /\ Onward(p, x) = {x} \cup Onward(p, Hop(p, x))
      /\ x \in Onward(p, InChan(se[n].c))
  BY OnTheWay, HopType, OnwardHop DEF Along
<1>3. ASSUME NEW k \in DOMAIN se, w[k] # Gone
      PROVE  Closed(p, Onward(p, w[k])) /\ Closed(p, Onward(p, InChan(se[k].c)))
  <2>1. w[k] \in Places(p)
    BY <1>3, OnTheWay
  <2>2. InChan(se[k].c) \in Places(p)
    BY SentIs
  <2> QED
    BY <2>1, <2>2, OnwardClosed
<1>4. ASSUME NEW k \in DOMAIN se, w2[k] # Gone PROVE w2[k] \in Onward(p, InChan(se[k].c))
  <2>1. CASE k # n
    BY <1>1, <1>4, <2>1 DEF Along
  <2>2. CASE k = n
    BY <1>1, <1>2, <1>3, <1>4, <2>2 DEF Closed
  <2> QED
    BY <2>1, <2>2
<1>5. ASSUME NEW j \in DOMAIN se, NEW k \in DOMAIN se, Before(se, j, k), w2[j] # Gone,
             w2[k] # Gone, AtEnd \in Onward(p, w2[k])
      PROVE  w2[j] \in Onward(p, w2[k])
  <2>1. j # k
    BY <1>5 DEF Before, Sents
  <2>2. CASE j # n /\ k # n
    <3> HIDE DEF w2
    <3> QED
      BY <1>1, <1>5, <2>2 DEF Along
  <2>3. CASE j = n
    <3>1. w2[k] = w[k] /\ w2[j] = Hop(p, x)
      BY <1>1, <1>5, <2>1, <2>3
    <3>2. x \in Onward(p, w[k])
      BY <1>5, <2>3, <3>1 DEF Along
    <3> HIDE DEF w2, x
    <3> QED
      BY <1>3, <1>5, <3>1, <3>2 DEF Closed
  <2>4. CASE k = n
    <3>1. w2[j] = w[j] /\ w2[k] = Hop(p, x)
      BY <1>1, <1>5, <2>1, <2>4
    <3>2. AtEnd \in Onward(p, x)
      BY <1>2, <1>5, <3>1
    <3>3. w[j] \in Onward(p, x) /\ w[j] # x
      BY <1>5, <2>4, <3>1, <3>2 DEF Along, Foremost
    <3> QED
      BY <1>2, <3>1, <3>3
  <2> QED
    BY <2>2, <2>3, <2>4
<1>6. Along(p, se, w2)
  <2> HIDE DEF w2
  <2> QED
    BY <1>4, <1>5 DEF Along
<1> QED
  BY <1>6

(* The head of a channel is foremost there. *)
LEMMA HeadForemost ==
    ASSUME NEW p \in Programs, NEW se \in Sents(p), NEW w, NEW ch,
           PlacedChan(p, se, w, ch), Queued(p, se, ch), NEW c \in Channels(p),
           ch[c] \in Seq(Single), ch[c] # <<>>
    PROVE  Foremost(p, se, w, ch[c][1][1].n)
<1> DEFINE q == ch[c]
           n == q[1][1].n
<1>1. /\ 1 \in DOMAIN q /\ \A i \in DOMAIN q : i \in Nat /\ i >= 1
      /\ \A i \in DOMAIN q : q[i][1].n \in Nat
  <2>1. q \in Seq(Single) /\ q # <<>> /\ \A i \in DOMAIN q : q[i] \in Single
    OBVIOUS
  <2>2. \A i \in DOMAIN q : q[i][1].n \in Nat
    BY <2>1, Singles
  <2> HIDE DEF q
  <2> QED
    BY <2>1, <2>2
<1>2. w[n] = InChan(c)
  <2>1. At(se, w, q[1], InChan(c))
    <3>1. \A i \in DOMAIN q : At(se, w, q[i], InChan(c))
      BY Zenon DEF PlacedChan
    <3> HIDE DEF q
    <3> QED
      BY <1>1, <3>1
  <2> QED
    BY <2>1 DEF At
<1> SUFFICES ASSUME AtEnd \in Onward(p, InChan(c)), NEW k \in DOMAIN se, Before(se, k, n),
                    w[k] = InChan(c)
             PROVE  FALSE
  BY <1>2 DEF Foremost
<1>3. PICK i \in DOMAIN q : q[i][1].n = k
  BY DEF PlacedChan
<1>4. i # 1 /\ k \in Nat /\ n \in Nat
  BY <1>1, <1>3 DEF Before
<1>5. n < k
  <2>1. 1 < i /\ se[n].c = se[k].c
    BY <1>1, <1>4 DEF Before
  <2> QED
    BY <1>1, <1>3, <2>1 DEF Queued, Ascending
<1> QED
  BY <1>4, <1>5 DEF Before

(* So is the only message of a task. *)
LEMMA OnlyForemost ==
    ASSUME NEW p \in Programs, NEW se \in Sents(p), NEW w, NEW h,
           PlacedHeld(p, se, w, h), NEW x \in Held(p), NEW m \in Single, h[x] = {m}
    PROVE  Foremost(p, se, w, m[1].n)
<1>1. w[m[1].n] = x /\ m[1].n \in Nat
  BY Singles DEF PlacedHeld, At
<1>2. \A k \in DOMAIN se : w[k] = x => k = m[1].n
  BY DEF PlacedHeld
<1> QED
  BY <1>1, <1>2 DEF Foremost, Before

(* What comes to a place, or to the end, from the place before it is behind  *)
(* all that is there.                                                        *)
LEMMA Behind ==
    ASSUME NEW p \in Programs, NEW se \in Sents(p), NEW w, Along(p, se, w),
           NEW n \in DOMAIN se, w[n] # Gone, w[n] # AtEnd,
           AtEnd \in Onward(p, Hop(p, w[n])),
           NEW k \in DOMAIN se, w[k] = Hop(p, w[n]), se[k].c = se[n].c
    PROVE  k < n
<1>1. w[n] \in Places(p) /\ k \in Nat /\ n \in Nat
  BY OnTheWay DEF Sents
<1>2. AtEnd \in Onward(p, w[n])
  BY <1>1, OnwardHop
<1>3. w[n] \notin Onward(p, w[k])
  BY <1>1, <1>2, NoWayBack
<1>4. w[k] \in Places(p)
  BY <1>1, HopType
<1>5. w[k] # Gone
  BY <1>4, Apart DEF Places
<1>6. k # n
  BY <1>3, <1>4, OnwardClosed
<1>7. ~Before(se, n, k)
  BY <1>3, <1>5 DEF Along
<1> QED
  BY <1>1, <1>6, <1>7 DEF Before

(* A sequence still ascends when one greater than all of it is appended. *)
LEMMA AppendAscends ==
    ASSUME NEW se, NEW q \in Seq(Single), NEW m \in Single, Ascending(se, q),
           \A i \in DOMAIN q : se[q[i][1].n].c = se[m[1].n].c => q[i][1].n < m[1].n
    PROVE  Ascending(se, Append(q, m))
<1> DEFINE r == Append(q, m)
<1>1. /\ DOMAIN q = 1..Len(q) /\ Len(q) \in Nat /\ DOMAIN r = 1..(Len(q) + 1)
      /\ r[Len(q) + 1] = m /\ \A i \in DOMAIN q : r[i] = q[i]
  OBVIOUS
<1> SUFFICES ASSUME NEW i \in DOMAIN r, NEW j \in DOMAIN r, i < j,
                    se[r[i][1].n].c = se[r[j][1].n].c
             PROVE  r[i][1].n < r[j][1].n
  BY DEF Ascending
<1>2. i \in DOMAIN q /\ r[i] = q[i]
  <2> HIDE DEF r
  <2> QED
    BY <1>1
<1>3. CASE j \in DOMAIN q
  <2>1. r[j] = q[j]
    BY <1>1, <1>3
  <2> HIDE DEF r
  <2> QED
    BY <1>2, <1>3, <2>1 DEF Ascending
<1>4. CASE j = Len(q) + 1
  <2>1. r[j] = m
    BY <1>1, <1>4
  <2> HIDE DEF r
  <2> QED
    BY <1>2, <1>4, <2>1
<1> HIDE DEF r
<1> QED
  BY <1>1, <1>3, <1>4

(* It still ascends when its head is dropped. *)
LEMMA TailAscends ==
    ASSUME NEW se, NEW q \in Seq(Single), q # <<>>, Ascending(se, q)
    PROVE  Ascending(se, Tail(q))
<1>1. \A i \in DOMAIN Tail(q) : i \in Nat /\ i + 1 \in DOMAIN q /\ Tail(q)[i] = q[i + 1]
  OBVIOUS
<1> SUFFICES ASSUME NEW i \in DOMAIN Tail(q), NEW j \in DOMAIN Tail(q), i < j,
                    se[Tail(q)[i][1].n].c = se[Tail(q)[j][1].n].c
             PROVE  Tail(q)[i][1].n < Tail(q)[j][1].n
  BY DEF Ascending
<1>2. /\ Tail(q)[i] = q[i + 1] /\ Tail(q)[j] = q[j + 1] /\ i + 1 < j + 1
      /\ i + 1 \in DOMAIN q /\ j + 1 \in DOMAIN q
  BY <1>1
<1> QED
  BY <1>2 DEF Ascending

(* The channels stay in order when a head is taken. *)
LEMMA TakeQueued ==
    ASSUME NEW p \in Programs, NEW se \in Sents(p), NEW ch, ch \in [Channels(p) -> Seq(Single)],
           Queued(p, se, ch), NEW c \in Channels(p), ch[c] # <<>>
    PROVE  Queued(p, se, [ch EXCEPT ![c] = Tail(ch[c])])
<1> DEFINE ch2 == [ch EXCEPT ![c] = Tail(ch[c])]
<1> SUFFICES ASSUME NEW d \in Channels(p), AtEnd \in Onward(p, InChan(d))
             PROVE  Ascending(se, ch2[d])
  BY Zenon DEF Queued
<1>1. Ascending(se, ch[d]) /\ ch[d] \in Seq(Single)
  BY DEF Queued
<1>2. ch2[d] = IF d = c THEN Tail(ch[d]) ELSE ch[d]
  OBVIOUS
<1> HIDE DEF ch2
<1> QED
  BY <1>1, <1>2, TailAscends

(* They stay in order when an event is appended that is behind all there. *)
LEMMA PutQueued ==
    ASSUME NEW p \in Programs, NEW se \in Sents(p), NEW w, NEW ch,
           ch \in [Channels(p) -> Seq(Single)], PlacedChan(p, se, w, ch), Queued(p, se, ch),
           NEW c \in Channels(p), NEW m \in Single,
           AtEnd \in Onward(p, InChan(c)) =>
             \A k \in DOMAIN se : w[k] = InChan(c) /\ se[k].c = se[m[1].n].c => k < m[1].n
    PROVE  Queued(p, se, [ch EXCEPT ![c] = Append(ch[c], m)])
<1> DEFINE ch2 == [ch EXCEPT ![c] = Append(ch[c], m)]
<1> SUFFICES ASSUME NEW d \in Channels(p), AtEnd \in Onward(p, InChan(d))
             PROVE  Ascending(se, ch2[d])
  BY Zenon DEF Queued
<1>1. Ascending(se, ch[d]) /\ ch[d] \in Seq(Single)
  BY DEF Queued
<1>2. ch2[d] = IF d = c THEN Append(ch[d], m) ELSE ch[d]
  OBVIOUS
<1>3. CASE d = c
  <2>1. \A i \in DOMAIN ch[c] : w[ch[c][i][1].n] = InChan(c) /\ ch[c][i][1].n \in DOMAIN se
    BY DEF PlacedChan, At
  <2>2. Ascending(se, Append(ch[d], m))
    BY <1>1, <1>3, <2>1, AppendAscends
  <2> HIDE DEF ch2
  <2> QED
    BY <1>2, <1>3, <2>2
<1> HIDE DEF ch2
<1> QED
  BY <1>1, <1>2, <1>3

(* What came out stays in order when such an event is appended. *)
LEMMA PutQueuedOut ==
    ASSUME NEW p \in Programs, NEW se \in Sents(p), NEW w, NEW ou,
           ou \in Seq(Outputs(p)), PlacedOut(se, w, ou), QueuedOut(se, ou),
           NEW o \in DOMAIN p, NEW m \in Single,
           \A k \in DOMAIN se : w[k] = AtEnd /\ se[k].c = se[m[1].n].c => k < m[1].n
    PROVE  QueuedOut(se, Append(ou, [from |-> o, msg |-> m]))
<1> DEFINE r == Append(ou, [from |-> o, msg |-> m])
<1>1. /\ DOMAIN ou = 1..Len(ou) /\ Len(ou) \in Nat /\ DOMAIN r = 1..(Len(ou) + 1)
      /\ r[Len(ou) + 1].msg = m /\ \A i \in DOMAIN ou : r[i] = ou[i]
  <2>1. [from |-> o, msg |-> m] \in Outputs(p)
    BY DEF Outputs
  <2> QED
    BY <2>1
<1>2. \A i \in DOMAIN ou : se[ou[i].msg[1].n].c = se[m[1].n].c => ou[i].msg[1].n < m[1].n
  BY DEF PlacedOut, At
<1> SUFFICES ASSUME NEW i \in DOMAIN r, NEW j \in DOMAIN r, i < j,
                    se[r[i].msg[1].n].c = se[r[j].msg[1].n].c
             PROVE  r[i].msg[1].n < r[j].msg[1].n
  BY Zenon DEF QueuedOut
<1>3. i \in DOMAIN ou /\ r[i] = ou[i]
  <2> HIDE DEF r
  <2> QED
    BY <1>1
<1>4. CASE j \in DOMAIN ou
  <2>1. r[j] = ou[j]
    BY <1>1, <1>4
  <2> HIDE DEF r
  <2> QED
    BY <1>3, <1>4, <2>1 DEF QueuedOut
<1>5. CASE j = Len(ou) + 1
  <2>1. r[j].msg = m
    BY <1>1, <1>5
  <2> HIDE DEF r
  <2> QED
    BY <1>2, <1>3, <1>5, <2>1
<1> HIDE DEF r
<1> QED
  BY <1>1, <1>4, <1>5

(* What tasks and tasks of their own hold. *)
Holds ==
    [x \in Held(program) |-> IF x[1] = "task" THEN ToSet(task[x[2]].pend) ELSE fly[x[2]]]

(* The sets of no and of one message. *)
LEMMA SetOfOne ==
    /\ ToSet(<<>>) = {}
    /\ \A m : ToSet(<<m>>) = {m}
BY DEF ToSet

(* When a task changes, so does what it holds, and nothing else. *)
LEMMA HoldsTask ==
    ASSUME TypeInv, NEW o \in Ops, NEW t \in Tasks, program' = program, fly' = fly,
           task' = [task EXCEPT ![o] = t]
    PROVE  Holds' = [Holds EXCEPT ![InTask(o)] = ToSet(t.pend)]
<1>1. Holds' = [x \in Held(program) |->
                  IF x[1] = "task" THEN ToSet(task'[x[2]].pend) ELSE fly[x[2]]]
  BY DEF Holds
<1>2. ASSUME NEW x \in Held(program)
      PROVE  (IF x[1] = "task" THEN ToSet(task'[x[2]].pend) ELSE fly[x[2]])
               = IF x = InTask(o) THEN ToSet(t.pend) ELSE Holds[x]
  <2>1. CASE \E d \in Ops : x = InTask(d)
    <3>1. PICK d \in Ops : x = InTask(d)
      BY <2>1
    <3>2. x[1] = "task" /\ x[2] = d
      BY <3>1 DEF InTask
    <3>3. task'[d] = IF d = o THEN t ELSE task[d]
      BY DEF TypeInv
    <3>4. Holds[x] = ToSet(task[d].pend)
      BY <3>2 DEF Holds
    <3> QED
      BY <3>1, <3>2, <3>3, <3>4, Apart
  <2>2. CASE \E d \in Ops : x = InFly(d)
    <3>1. PICK d \in Ops : x = InFly(d)
      BY <2>2
    <3>2. x[1] # "task" /\ x[2] = d
      BY <3>1 DEF InFly
    <3>4. Holds[x] = fly[d]
      BY <3>2 DEF Holds
    <3> QED
      BY <3>1, <3>2, <3>4, Apart
  <2> QED
    BY <2>1, <2>2 DEF Held, Ops
<1>3. Holds = [x \in Held(program) |-> Holds[x]]
  BY DEF Holds
<1> HIDE DEF Holds
<1> QED
  BY <1>1, <1>2, <1>3

(* The same of the tasks of its own. *)
LEMMA HoldsFly ==
    ASSUME TypeInv, NEW o \in Ops, NEW S, program' = program, task' = task,
           fly' = [fly EXCEPT ![o] = S]
    PROVE  Holds' = [Holds EXCEPT ![InFly(o)] = S]
<1>1. Holds' = [x \in Held(program) |->
                  IF x[1] = "task" THEN ToSet(task[x[2]].pend) ELSE fly'[x[2]]]
  BY DEF Holds
<1>2. ASSUME NEW x \in Held(program)
      PROVE  (IF x[1] = "task" THEN ToSet(task[x[2]].pend) ELSE fly'[x[2]])
               = IF x = InFly(o) THEN S ELSE Holds[x]
  <2>1. CASE \E d \in Ops : x = InTask(d)
    <3>1. PICK d \in Ops : x = InTask(d)
      BY <2>1
    <3>2. x[1] = "task" /\ x[2] = d
      BY <3>1 DEF InTask
    <3>4. Holds[x] = ToSet(task[d].pend)
      BY <3>2 DEF Holds
    <3> QED
      BY <3>1, <3>2, <3>4, Apart
  <2>2. CASE \E d \in Ops : x = InFly(d)
    <3>1. PICK d \in Ops : x = InFly(d)
      BY <2>2
    <3>2. x[1] # "task" /\ x[2] = d
      BY <3>1 DEF InFly
    <3>3. fly'[d] = IF d = o THEN S ELSE fly[d]
      BY DEF TypeInv
    <3>4. Holds[x] = fly[d]
      BY <3>2 DEF Holds
    <3>5. x = InFly(o) <=> d = o
      BY <3>1 DEF InFly
    <3> QED
      BY <3>2, <3>3, <3>4, <3>5
  <2> QED
    BY <2>1, <2>2 DEF Held, Ops
<1>3. Holds = [x \in Held(program) |-> Holds[x]]
  BY DEF Holds
<1> HIDE DEF Holds
<1> QED
  BY <1>1, <1>2, <1>3

(* The types give the shape of the contents. *)
LEMMA HoldsAre ==
    ASSUME TypeInv
    PROVE  /\ Contents(program, chan, Holds, out)
           /\ \A o \in Ops : /\ Holds[InTask(o)] = ToSet(task[o].pend) /\ Holds[InFly(o)] = fly[o]
                             /\ InTask(o) \in Held(program) /\ InFly(o) \in Held(program)
<1>1. \A o \in Ops : /\ Holds[InTask(o)] = ToSet(task[o].pend) /\ Holds[InFly(o)] = fly[o]
                     /\ InTask(o) \in Held(program) /\ InFly(o) \in Held(program)
  BY DEF Holds, Held, Ops, InTask, InFly
<1>2. \A o \in Ops : ToSet(task[o].pend) \in SUBSET Single /\ fly[o] \in SUBSET Single
  <2> SUFFICES ASSUME NEW o \in Ops
               PROVE  ToSet(task[o].pend) \in SUBSET Single /\ fly[o] \in SUBSET Single
    OBVIOUS
  <2>1. task[o].pend \in Seq(Single)
    BY DEF TypeInv, Tasks
  <2>2. \A s \in Seq(Single) : ToSet(s) \in SUBSET Single
    BY DEF ToSet
  <2> QED
    BY <2>1, <2>2 DEF TypeInv
<1>3. \A x \in Held(program) : Holds[x] \in SUBSET Single
  <2> HIDE DEF Holds
  <2> QED
    BY <1>1, <1>2 DEF Held, Ops
<1>4. Holds = [x \in Held(program) |-> Holds[x]]
  BY DEF Holds
<1>5. Holds \in [Held(program) -> SUBSET Single]
  <2> HIDE DEF Holds
  <2> QED
    BY <1>3, <1>4
<1>6. chan \in [Channels(program) -> Seq(Single)] /\ out \in Seq(Outputs(program))
  BY DEF TypeInv, Outputs, Ops
<1> QED
  BY <1>1, <1>5, <1>6 DEF Contents

(* Of two updates at one argument the second stays. *)
LEMMA ExceptTwice ==
    ASSUME NEW f, NEW n, NEW x, NEW y
    PROVE  [[f EXCEPT ![n] = x] EXCEPT ![n] = y] = [f EXCEPT ![n] = y]
OBVIOUS

(* The steps of a task, in a program of that kind. *)
LEMMA PassingTask ==
    ASSUME TypeInv, NEW o \in Ops
    PROVE  /\ Kind(o) \in Passings /\ task[o] \in Tasks /\ DOMAIN task = Ops
           /\ task[o].pend \in Seq(Single) /\ task[o].backoff \in Nat
           /\ task[o].at = "send" =>
                /\ task[o].pend = <<Head(task[o].pend)>> /\ Head(task[o].pend) \in Single
                /\ Tail(task[o].pend) = <<>>
           /\ task[o].at # "send" => task[o].pend = <<>>
<1>1. Kind(o) \in Passings /\ task[o] \in Tasks /\ DOMAIN task = Ops
  BY DEF TypeInv
<1>2. task[o].pend \in Seq(Single) /\ task[o].backoff \in Nat
  BY <1>1 DEF Tasks, States
<1>3. IF task[o].at = "send" THEN Len(task[o].pend) = 1 ELSE task[o].pend = <<>>
  BY DEF TypeInv
<1>4. ASSUME NEW q \in Seq(Single), Len(q) = 1
      PROVE  q = <<Head(q)>> /\ Head(q) \in Single /\ Tail(q) = <<>>
  <2>1. q # <<>> /\ Head(q) = q[1] /\ q[1] \in Single /\ DOMAIN q = 1..1
    BY <1>4
  <2>2. Tail(q) \in Seq(Single) /\ Len(Tail(q)) = 0
    BY <1>4, <2>1
  <2>3. q = [i \in 1..1 |-> q[i]] /\ <<Head(q)>> = [i \in 1..1 |-> Head(q)]
    BY <2>1
  <2>4. [i \in 1..1 |-> q[i]] = [i \in 1..1 |-> Head(q)]
    BY <2>1
  <2>5. Tail(q) = <<>>
    <3>1. \A r \in Seq(Single) : Len(r) = 0 => r = <<>>
      OBVIOUS
    <3> QED
      BY <2>2, <3>1
  <2>6. q = <<Head(q)>>
    BY <2>3, <2>4, Zenon
  <2> QED
    BY <2>1, <2>5, <2>6
<1> QED
  BY <1>1, <1>2, <1>3, <1>4

(* A task that goes down is a task. *)
LEMMA DownRecord ==
    ASSUME NEW s \in Tasks, NEW u \in Nat
    PROVE  /\ [s EXCEPT !.at = "down", !.until = u] \in Tasks
           /\ [s EXCEPT !.at = "down", !.until = u].at = "down"
           /\ [s EXCEPT !.at = "down", !.until = u].pend = s.pend
BY DEF Tasks, States

(* The task after a panic holds nothing. *)
LEMMA DownTask ==
    ASSUME TypeInv, NEW o \in Ops, Down(o)
    PROVE  \E t \in Tasks : t.at = "down" /\ t.pend = <<>> /\ task' = [task EXCEPT ![o] = t]
<1>1. /\ task[o].backoff \in Nat /\ Kind(o) \in Passings /\ now \in Nat
      /\ MaxBackoff \in Nat
  BY PassingTask, StreamAssumption DEF TypeInv
<1>2. Twice(task[o].backoff) \in Nat /\ now + task[o].backoff \in Nat
  BY <1>1 DEF Twice
<1> DEFINE f == Fresh(Kind(o), now, Twice(task[o].backoff))
           t == [f EXCEPT !.at = "down", !.until = now + task[o].backoff]
<1>3. f = [at |-> "wait", pend |-> <<>>, buf |-> <<>>, mark |-> 0, due |-> 0, until |-> 0,
           backoff |-> Twice(task[o].backoff)]
  BY <1>1, <1>2, FreshTask
<1>4. f \in Tasks /\ f.pend = <<>>
  <2> HIDE DEF f
  <2> QED
    BY <1>2, <1>3 DEF Tasks, States
<1>5. t \in Tasks /\ t.at = "down" /\ t.pend = <<>>
  <2> HIDE DEF f
  <2> QED
    BY <1>2, <1>4, DownRecord, Zenon
<1>6. task' = [task EXCEPT ![o] = t]
  BY DEF Down
<1> QED
  BY <1>5, <1>6

(* Nor does the one after a restart. *)
LEMMA RestartTask ==
    ASSUME TypeInv, NEW o \in Ops, Restart(o)
    PROVE  \E t \in Tasks : t.at = "wait" /\ t.pend = <<>> /\ task' = [task EXCEPT ![o] = t]
<1>1. task[o].backoff \in Nat /\ Kind(o) \in Passings /\ now \in Nat
  BY PassingTask DEF TypeInv
<1> DEFINE t == Fresh(Kind(o), now, task[o].backoff)
<1>2. t = [at |-> "wait", pend |-> <<>>, buf |-> <<>>, mark |-> 0, due |-> 0, until |-> 0,
           backoff |-> task[o].backoff]
  BY <1>1, FreshTask
<1>3. t \in Tasks /\ t.at = "wait" /\ t.pend = <<>>
  <2> HIDE DEF t
  <2> QED
    BY <1>1, <1>2 DEF Tasks, States
<1>4. task' = [task EXCEPT ![o] = t]
  BY DEF Restart
<1> QED
  BY <1>3, <1>4

(* Where everything is, and in what order where operators do one message     *)
(* after the other.                                                          *)
InSeries(p) == \A o \in DOMAIN p : ~p[o].par
Flows(p, se, w, ch, ou) == Along(p, se, w) /\ Queued(p, se, ch) /\ QueuedOut(se, ou)
Good(p, se, w, ch, h, ou) ==
    /\ Placed(p, se, w, ch, h, ou)
    /\ InSeries(p) => Flows(p, se, w, ch, ou) /\ \A o \in DOMAIN p : h[InFly(o)] = {}

(* A message that is received may be lost, or be dropped by a filter. *)
LEMMA LoseChan ==
    ASSUME NEW p \in Programs, NEW se \in Sents(p), NEW w, NEW ch, NEW h, NEW ou,
           Contents(p, ch, h, ou), Good(p, se, w, ch, h, ou),
           NEW c \in Channels(p), ch[c] # <<>>
    PROVE  \E v : Good(p, se, v, [ch EXCEPT ![c] = Tail(ch[c])], h, ou)
<1> DEFINE m == Head(ch[c])
           n == m[1].n
           ch2 == [ch EXCEPT ![c] = Tail(ch[c])]
           v == [w EXCEPT ![n] = Gone]
<1>1. Placed(p, se, w, ch, h, ou)
  BY DEF Good
<1>2. m = ch[c][1] /\ At(se, w, m, InChan(c)) /\ Placed(p, se, v, ch2, h, ou)
  BY <1>1, TakeChan
<1>3. CASE InSeries(p)
  <2>1. /\ Along(p, se, w) /\ Queued(p, se, ch) /\ QueuedOut(se, ou)
        /\ \A o \in DOMAIN p : h[InFly(o)] = {}
    BY <1>3 DEF Good, Flows
  <2>2. /\ ch \in [Channels(p) -> Seq(Single)] /\ ch[c] \in Seq(Single)
        /\ PlacedChan(p, se, w, ch) /\ w \in [DOMAIN se -> Spots(p)]
    BY <1>1 DEF Contents, Placed
  <2>3. Foremost(p, se, w, n)
    BY <1>2, <2>1, <2>2, HeadForemost
  <2>4. n \in DOMAIN se /\ w[n] # Gone
    BY <1>2, Apart DEF At
  <2>5. Along(p, se, v)
    <3> HIDE DEF n
    <3> QED
      BY <2>1, <2>2, <2>3, <2>4, MoveAlong
  <2>6. Queued(p, se, ch2)
    BY <2>1, <2>2, TakeQueued
  <2> HIDE DEF v, ch2
  <2>7. Good(p, se, v, ch2, h, ou)
    BY <1>2, <2>1, <2>5, <2>6 DEF Good, Flows
  <2> QED
    BY <2>7 DEF ch2
<1>4. CASE ~InSeries(p)
  <2> HIDE DEF v, ch2
  <2>1. Good(p, se, v, ch2, h, ou)
    BY <1>2, <1>4 DEF Good
  <2> QED
    BY <2>1 DEF ch2
<1> QED
  BY <1>3, <1>4

(* Or a task holds it, or a task of its own. *)
LEMMA HoldChan ==
    ASSUME NEW p \in Programs, NEW se \in Sents(p), NEW w, NEW ch, NEW h, NEW ou,
           Contents(p, ch, h, ou), Good(p, se, w, ch, h, ou),
           NEW o \in DOMAIN p, NEW c \in Channels(p), c[1] = o, ch[c] # <<>>,
           NEW x, x = IF p[o].par THEN InFly(o) ELSE InTask(o)
    PROVE  \E v : Good(p, se, v, [ch EXCEPT ![c] = Tail(ch[c])],
                       [h EXCEPT ![x] = h[x] \cup {Head(ch[c])}], ou)
<1> DEFINE m == Head(ch[c])
           n == m[1].n
           ch2 == [ch EXCEPT ![c] = Tail(ch[c])]
           h2 == [h EXCEPT ![x] = h[x] \cup {m}]
           w1 == [w EXCEPT ![n] = Gone]
           v == [w EXCEPT ![n] = x]
<1>1. Placed(p, se, w, ch, h, ou)
  BY DEF Good
<1>2. /\ m = ch[c][1] /\ m \in Single /\ At(se, w, m, InChan(c))
      /\ Placed(p, se, w1, ch2, h, ou) /\ Contents(p, ch2, h, ou)
  BY <1>1, TakeChan
<1>3. /\ w \in [DOMAIN se -> Spots(p)] /\ n \in DOMAIN se /\ w[n] = InChan(c)
  BY <1>1, <1>2 DEF At, Placed
<1>4. x \in Held(p)
  BY DEF Held
<1>5. At(se, w1, m, Gone)
  <2>1. w1[n] = Gone
    <3> HIDE DEF n
    <3> QED
      BY <1>3
  <2> HIDE DEF w1
  <2> QED
    BY <1>2, <2>1 DEF At
<1>6. Placed(p, se, [w1 EXCEPT ![n] = x], ch2, h2, ou)
  <2> HIDE DEF w1, ch2, m
  <2> QED
    BY <1>2, <1>4, <1>5, PutHeld
<1>7. Placed(p, se, v, ch2, h2, ou)
  <2>1. [w1 EXCEPT ![n] = x] = v
    BY ExceptTwice
  <2> HIDE DEF v, ch2, h2, w1
  <2> QED
    BY <1>6, <2>1
<1>8. CASE InSeries(p)
  <2>1. /\ Along(p, se, w) /\ Queued(p, se, ch) /\ QueuedOut(se, ou)
        /\ \A d \in DOMAIN p : h[InFly(d)] = {}
    BY <1>8 DEF Good, Flows
  <2>2. /\ ch \in [Channels(p) -> Seq(Single)] /\ ch[c] \in Seq(Single)
        /\ PlacedChan(p, se, w, ch) /\ h \in [Held(p) -> SUBSET Single]
    BY <1>1 DEF Contents, Placed
  <2>3. Foremost(p, se, w, n)
    BY <1>2, <2>1, <2>2, HeadForemost
  <2>4. x = InTask(o) /\ x = Hop(p, InChan(c))
    BY <1>8 DEF InSeries, Hop, InChan
  <2>5. w[n] # Gone /\ x = Hop(p, w[n])
    BY <1>3, <2>4, Apart
  <2>6. Along(p, se, v)
    <3> HIDE DEF n
    <3> QED
      BY <1>3, <2>1, <2>3, <2>5, MoveAlong
  <2>7. Queued(p, se, ch2)
    BY <2>1, <2>2, TakeQueued
  <2>8. \A d \in DOMAIN p : h2[InFly(d)] = {}
    <3> HIDE DEF m
    <3> QED
      BY <2>1, <2>2, <2>4, Apart, SpotsAre
  <2> HIDE DEF v, ch2, h2
  <2>9. Good(p, se, v, ch2, h2, ou)
    BY <1>7, <2>1, <2>6, <2>7, <2>8 DEF Good, Flows
  <2> QED
    BY <2>9 DEF ch2, h2
<1>9. CASE ~InSeries(p)
  <2> HIDE DEF v, ch2, h2
  <2>1. Good(p, se, v, ch2, h2, ou)
    BY <1>7, <1>9 DEF Good
  <2> QED
    BY <2>1 DEF ch2, h2
<1> QED
  BY <1>8, <1>9

(* A task, or a task of its own, has one message, which goes first. *)
Holder(p, h, o, x, m) ==
    \/ x = InTask(o) /\ h[x] = {m}
    \/ x = InFly(o) /\ m \in h[x]

(* In series it is foremost and goes to the next place. *)
LEMMA HeldForemost ==
    ASSUME NEW p \in Programs, NEW se \in Sents(p), NEW w, NEW ch, NEW h, NEW ou,
           Contents(p, ch, h, ou), Good(p, se, w, ch, h, ou), InSeries(p),
           NEW o \in DOMAIN p, NEW x, NEW m \in Single, Holder(p, h, o, x, m)
    PROVE  /\ Foremost(p, se, w, m[1].n) /\ x = InTask(o)
           /\ Hop(p, x) = IF p[o].to = Sink THEN AtEnd ELSE InChan(p[o].to)
<1>1. x = InTask(o) /\ h[x] = {m}
  BY DEF Holder, Good
<1>2. PlacedHeld(p, se, w, h) /\ x \in Held(p)
  BY <1>1 DEF Good, Placed, Held
<1>3. Foremost(p, se, w, m[1].n)
  BY <1>1, <1>2, OnlyForemost
<1> QED
  BY <1>1, <1>3 DEF Hop, InTask

(* What is held may be lost. *)
LEMMA LoseHeld ==
    ASSUME NEW p \in Programs, NEW se \in Sents(p), NEW w, NEW ch, NEW h, NEW ou,
           Contents(p, ch, h, ou), Good(p, se, w, ch, h, ou),
           NEW o \in DOMAIN p, NEW x, NEW m, Holder(p, h, o, x, m)
    PROVE  \E v : Good(p, se, v, ch, [h EXCEPT ![x] = h[x] \ {m}], ou)
<1> DEFINE n == m[1].n
           h2 == [h EXCEPT ![x] = h[x] \ {m}]
           v == [w EXCEPT ![n] = Gone]
<1>1. Placed(p, se, w, ch, h, ou) /\ x \in Held(p) /\ m \in h[x]
  BY DEF Good, Holder, Held
<1>2. m \in Single /\ At(se, w, m, x) /\ Placed(p, se, v, ch, h2, ou)
  BY <1>1, TakeHeld
<1>3. CASE InSeries(p)
  <2>1. /\ Along(p, se, w) /\ Queued(p, se, ch) /\ QueuedOut(se, ou)
        /\ \A d \in DOMAIN p : h[InFly(d)] = {}
    BY <1>3 DEF Good, Flows
  <2>2. Foremost(p, se, w, n) /\ x = InTask(o)
    BY <1>2, <1>3, HeldForemost
  <2>3. n \in DOMAIN se /\ w[n] # Gone /\ w \in [DOMAIN se -> Spots(p)]
    BY <1>1, <1>2, HeldApart DEF At, Placed
  <2>4. Along(p, se, v)
    <3> HIDE DEF n
    <3> QED
      BY <2>1, <2>2, <2>3, MoveAlong
  <2>5. \A d \in DOMAIN p : h2[InFly(d)] = {}
    BY <2>1, <2>2, Apart, SpotsAre DEF Contents
  <2> HIDE DEF v, h2
  <2>6. Good(p, se, v, ch, h2, ou)
    BY <1>2, <2>1, <2>4, <2>5 DEF Good, Flows
  <2> QED
    BY <2>6 DEF h2
<1>4. CASE ~InSeries(p)
  <2> HIDE DEF v, h2
  <2>1. Good(p, se, v, ch, h2, ou)
    BY <1>2, <1>4 DEF Good
  <2> QED
    BY <2>1 DEF h2
<1> QED
  BY <1>3, <1>4

(* What goes on from a task to the end, or to the next channel. *)
LEMMA SendOut ==
    ASSUME NEW p \in Programs, NEW se \in Sents(p), NEW w, NEW ch, NEW h, NEW ou,
           Contents(p, ch, h, ou), Good(p, se, w, ch, h, ou),
           NEW o \in DOMAIN p, NEW x, NEW m, Holder(p, h, o, x, m), p[o].to = Sink
    PROVE  \E v : Good(p, se, v, ch, [h EXCEPT ![x] = h[x] \ {m}],
                       Append(ou, [from |-> o, msg |-> m]))
<1> DEFINE n == m[1].n
           h2 == [h EXCEPT ![x] = h[x] \ {m}]
           r == Append(ou, [from |-> o, msg |-> m])
           w1 == [w EXCEPT ![n] = Gone]
           v == [w EXCEPT ![n] = AtEnd]
<1>1. Placed(p, se, w, ch, h, ou) /\ x \in Held(p) /\ m \in h[x]
  BY DEF Good, Holder, Held
<1>2. /\ m \in Single /\ At(se, w, m, x)
      /\ Placed(p, se, w1, ch, h2, ou) /\ Contents(p, ch, h2, ou)
  BY <1>1, TakeHeld
<1>3. w \in [DOMAIN se -> Spots(p)] /\ n \in DOMAIN se /\ w[n] = x /\ x # Gone /\ x # AtEnd
  BY <1>1, <1>2, HeldApart DEF At, Placed
<1>4. At(se, w1, m, Gone)
  <2>1. w1[n] = Gone
    <3> HIDE DEF n
    <3> QED
      BY <1>3
  <2> HIDE DEF w1
  <2> QED
    BY <1>2, <2>1 DEF At
<1>5. Placed(p, se, v, ch, h2, r)
  <2>1. Placed(p, se, [w1 EXCEPT ![n] = AtEnd], ch, h2, r)
    <3> HIDE DEF w1, h2
    <3> QED
      BY <1>2, <1>4, PutOut
  <2>2. [w1 EXCEPT ![n] = AtEnd] = v
    BY ExceptTwice
  <2> HIDE DEF v, h2, r, w1
  <2> QED
    BY <2>1, <2>2
<1>6. CASE InSeries(p)
  <2>1. /\ Along(p, se, w) /\ Queued(p, se, ch) /\ QueuedOut(se, ou)
        /\ \A d \in DOMAIN p : h[InFly(d)] = {}
    BY <1>6 DEF Good, Flows
  <2>2. Foremost(p, se, w, n) /\ x = InTask(o) /\ Hop(p, x) = AtEnd
    BY <1>2, <1>6, HeldForemost
  <2>3. Along(p, se, v)
    <3> HIDE DEF n
    <3> QED
      BY <1>3, <2>1, <2>2, MoveAlong
  <2>4. \A k \in DOMAIN se : w[k] = AtEnd /\ se[k].c = se[n].c => k < n
    <3>1. AtEnd \in Onward(p, AtEnd)
      BY OnwardEnd
    <3> HIDE DEF n
    <3> QED
      BY <1>3, <2>1, <2>2, <3>1, Behind
  <2>5. QueuedOut(se, r)
    <3>1. ou \in Seq(Outputs(p)) /\ PlacedOut(se, w, ou)
      BY <1>1 DEF Contents, Placed
    <3> QED
      BY <1>2, <2>1, <2>4, <3>1, PutQueuedOut
  <2>6. \A d \in DOMAIN p : h2[InFly(d)] = {}
    BY <2>1, <2>2, Apart, SpotsAre DEF Contents
  <2> HIDE DEF v, h2, r
  <2>7. Good(p, se, v, ch, h2, r)
    BY <1>5, <2>1, <2>3, <2>5, <2>6 DEF Good, Flows
  <2> QED
    BY <2>7 DEF h2, r
<1>7. CASE ~InSeries(p)
  <2> HIDE DEF v, h2, r
  <2>1. Good(p, se, v, ch, h2, r)
    BY <1>5, <1>7 DEF Good
  <2> QED
    BY <2>1 DEF h2, r
<1> QED
  BY <1>6, <1>7

(* What a task sends to the next channel is there. *)
LEMMA SendOn ==
    ASSUME NEW p \in Programs, NEW se \in Sents(p), NEW w, NEW ch, NEW h, NEW ou,
           Contents(p, ch, h, ou), Good(p, se, w, ch, h, ou),
           NEW o \in DOMAIN p, NEW x, NEW m, Holder(p, h, o, x, m), p[o].to # Sink
    PROVE  \E v : Good(p, se, v, [ch EXCEPT ![p[o].to] = Append(ch[p[o].to], m)],
                       [h EXCEPT ![x] = h[x] \ {m}], ou)
<1> DEFINE n == m[1].n
           c == p[o].to
           h2 == [h EXCEPT ![x] = h[x] \ {m}]
           r == [ch EXCEPT ![c] = Append(ch[c], m)]
           w1 == [w EXCEPT ![n] = Gone]
           v == [w EXCEPT ![n] = InChan(c)]
<1>1. Placed(p, se, w, ch, h, ou) /\ x \in Held(p) /\ m \in h[x] /\ c \in Channels(p)
  BY StreamAssumption DEF Good, Holder, Held
<1>2. /\ m \in Single /\ At(se, w, m, x)
      /\ Placed(p, se, w1, ch, h2, ou) /\ Contents(p, ch, h2, ou)
  BY <1>1, TakeHeld
<1>3. w \in [DOMAIN se -> Spots(p)] /\ n \in DOMAIN se /\ w[n] = x /\ x # Gone /\ x # AtEnd
  BY <1>1, <1>2, HeldApart DEF At, Placed
<1>4. At(se, w1, m, Gone)
  <2>1. w1[n] = Gone
    <3> HIDE DEF n
    <3> QED
      BY <1>3
  <2> HIDE DEF w1
  <2> QED
    BY <1>2, <2>1 DEF At
<1>5. Placed(p, se, v, r, h2, ou)
  <2>1. Placed(p, se, [w1 EXCEPT ![n] = InChan(c)], r, h2, ou)
    <3> HIDE DEF w1, h2, c
    <3> QED
      BY <1>1, <1>2, <1>4, PutChan
  <2>2. [w1 EXCEPT ![n] = InChan(c)] = v
    BY ExceptTwice
  <2> HIDE DEF v, h2, r, w1
  <2> QED
    BY <2>1, <2>2
<1>6. CASE InSeries(p)
  <2>1. /\ Along(p, se, w) /\ Queued(p, se, ch) /\ QueuedOut(se, ou)
        /\ \A d \in DOMAIN p : h[InFly(d)] = {}
    BY <1>6 DEF Good, Flows
  <2>2. Foremost(p, se, w, n) /\ x = InTask(o) /\ Hop(p, x) = InChan(c)
    BY <1>2, <1>6, HeldForemost
  <2>3. Along(p, se, v)
    <3> HIDE DEF n
    <3> QED
      BY <1>3, <2>1, <2>2, MoveAlong
  <2>4. AtEnd \in Onward(p, InChan(c)) =>
          \A k \in DOMAIN se : w[k] = InChan(c) /\ se[k].c = se[n].c => k < n
    <3> HIDE DEF n, c
    <3> QED
      BY <1>3, <2>1, <2>2, Behind
  <2>5. Queued(p, se, r)
    <3>1. ch \in [Channels(p) -> Seq(Single)] /\ PlacedChan(p, se, w, ch)
      BY <1>1 DEF Contents, Placed
    <3> HIDE DEF c
    <3> QED
      BY <1>1, <1>2, <2>1, <2>4, <3>1, PutQueued
  <2>6. \A d \in DOMAIN p : h2[InFly(d)] = {}
    BY <2>1, <2>2, Apart, SpotsAre DEF Contents
  <2> HIDE DEF v, h2, r
  <2>7. Good(p, se, v, r, h2, ou)
    BY <1>5, <2>1, <2>3, <2>5, <2>6 DEF Good, Flows
  <2> QED
    BY <2>7 DEF h2, r
<1>7. CASE ~InSeries(p)
  <2> HIDE DEF v, h2, r
  <2>1. Good(p, se, v, r, h2, ou)
    BY <1>5, <1>7 DEF Good
  <2> QED
    BY <2>1 DEF h2, r
<1> QED
  BY <1>6, <1>7

(* A new event: nobody knows of it yet. *)
LEMMA GrowPlaced ==
    ASSUME NEW p \in Programs, NEW se \in Sents(p), NEW w, NEW ch, NEW h, NEW ou,
           Placed(p, se, w, ch, h, ou), NEW s, NEW se2, NEW v,
           se2 = Append(se, s), v = [k \in DOMAIN se2 |-> IF k \in DOMAIN se THEN w[k] ELSE Gone]
    PROVE  Placed(p, se2, v, ch, h, ou)
<1>1. /\ DOMAIN se \subseteq DOMAIN se2 /\ \A k \in DOMAIN se : se2[k] = se[k]
      /\ \A k \in DOMAIN se2 \ DOMAIN se : v[k] = Gone
      /\ \A k \in DOMAIN se : v[k] = w[k]
  BY DEF Sents
<1>2. /\ PlacedChan(p, se, w, ch) /\ w \in [DOMAIN se -> Spots(p)]
      /\ PlacedHeld(p, se, w, h) /\ PlacedOut(se, w, ou)
  BY DEF Placed
<1>3. v \in [DOMAIN se2 -> Spots(p)]
  BY <1>2, SpotsAre
<1>4. \A m, x : At(se, w, m, x) => At(se2, v, m, x)
  BY <1>1 DEF At
<1>5. \A k \in DOMAIN se2 : v[k] # Gone => k \in DOMAIN se /\ w[k] = v[k]
  BY <1>1
<1>6. PlacedChan(p, se2, v, ch)
  <2> SUFFICES ASSUME NEW d \in Channels(p)
               PROVE  /\ \A i \in DOMAIN ch[d] : At(se2, v, ch[d][i], InChan(d))
                      /\ \A i, j \in DOMAIN ch[d] : ch[d][i] = ch[d][j] => i = j
                      /\ \A k \in DOMAIN se2 : v[k] = InChan(d) =>
                           \E i \in DOMAIN ch[d] : ch[d][i][1].n = k
    BY Zenon DEF PlacedChan
  <2>1. /\ \A i \in DOMAIN ch[d] : At(se, w, ch[d][i], InChan(d))
        /\ \A i, j \in DOMAIN ch[d] : ch[d][i] = ch[d][j] => i = j
        /\ \A k \in DOMAIN se : w[k] = InChan(d) => \E i \in DOMAIN ch[d] : ch[d][i][1].n = k
    BY <1>2, Zenon DEF PlacedChan
  <2> QED
    BY <1>4, <1>5, <2>1, Apart
<1>7. PlacedHeld(p, se2, v, h)
  <2> SUFFICES ASSUME NEW x \in Held(p)
               PROVE  /\ \A m \in h[x] : At(se2, v, m, x)
                      /\ \A k \in DOMAIN se2 : v[k] = x => \E m \in h[x] : m[1].n = k
    BY Zenon DEF PlacedHeld
  <2>1. /\ \A m \in h[x] : At(se, w, m, x)
        /\ \A k \in DOMAIN se : w[k] = x => \E m \in h[x] : m[1].n = k
    BY <1>2, Zenon DEF PlacedHeld
  <2> QED
    BY <1>4, <1>5, <2>1, HeldApart
<1>8. PlacedOut(se2, v, ou)
  BY <1>2, <1>4 DEF PlacedOut
<1> QED
  BY <1>3, <1>6, <1>7, <1>8 DEF Placed

(* The event goes into a channel of its own number, behind all before it. *)
LEMMA Enter ==
    ASSUME NEW p \in Programs, NEW se \in Sents(p), NEW w, NEW ch, NEW h, NEW ou,
           Contents(p, ch, h, ou), Good(p, se, w, ch, h, ou),
           NEW c \in Channels(p), NEW e \in Event, e.n = Len(se) + 1
    PROVE  \E v : Good(p, Append(se, [e |-> e, c |-> c]), v,
                       [ch EXCEPT ![c] = Append(ch[c], <<e>>)], h, ou)
<1> DEFINE s == [e |-> e, c |-> c]
           se2 == Append(se, s)
           n == e.n
           m == <<e>>
           ch2 == [ch EXCEPT ![c] = Append(ch[c], m)]
           w1 == [k \in DOMAIN se2 |-> IF k \in DOMAIN se THEN w[k] ELSE Gone]
           v == [w1 EXCEPT ![n] = InChan(c)]
<1>1. s \in [e : Event, c : Channels(p)] /\ m \in Single /\ m[1] = e
  BY DEF Single
<1>2. /\ se2 \in Sents(p) /\ n \in DOMAIN se2 /\ se2[n] = s /\ n \in Nat
      /\ \A k \in DOMAIN se2 : k \in Nat /\ (k \in DOMAIN se \/ k = n)
      /\ \A k \in DOMAIN se : k < n /\ k \in DOMAIN se2 /\ se2[k] = se[k]
      /\ n \notin DOMAIN se
  <2> HIDE DEF s
  <2> QED
    BY <1>1 DEF Sents
<1>3. Placed(p, se, w, ch, h, ou)
  BY DEF Good
<1>4. Placed(p, se2, w1, ch, h, ou)
  <2> HIDE DEF s
  <2> QED
    BY <1>3, GrowPlaced
<1>5. At(se2, w1, m, Gone)
  <2>1. w1[n] = Gone
    <3> HIDE DEF se2, n
    <3> QED
      BY <1>2
  <2>2. se2[n].e = e
    <3> HIDE DEF se2
    <3> QED
      BY <1>2
  <2> HIDE DEF w1, se2, m
  <2> QED
    BY <1>1, <1>2, <2>1, <2>2 DEF At
<1>6. Placed(p, se2, v, ch2, h, ou)
  <2>1. n = m[1].n
    BY <1>1
  <2> HIDE DEF w1, se2, m, n
  <2> QED
    BY <1>1, <1>4, <1>5, <2>1, PutChan
<1>7. CASE InSeries(p)
  <2>1. /\ Along(p, se, w) /\ Queued(p, se, ch) /\ QueuedOut(se, ou)
        /\ \A d \in DOMAIN p : h[InFly(d)] = {}
    BY <1>7 DEF Good, Flows
  <2>2. /\ v[n] = InChan(c) /\ \A k \in DOMAIN se : v[k] = w[k] /\ w1[k] = w[k]
        /\ w1[n] = Gone
    <3> HIDE DEF se2, n
    <3> QED
      BY <1>2
  <2>3. InChan(c) \in Onward(p, InChan(c))
    BY OnwardClosed DEF Places
  <2>4. se2[n].c = c
    <3> HIDE DEF se2, n
    <3> QED
      BY <1>2
  <2>5. Along(p, se2, v)
    <3>1. ASSUME NEW k \in DOMAIN se2, v[k] # Gone PROVE v[k] \in Onward(p, InChan(se2[k].c))
      <4> HIDE DEF se2, v, n
      <4> QED
        BY <1>2, <2>1, <2>2, <2>3, <2>4, <3>1 DEF Along
    <3>2. ASSUME NEW j \in DOMAIN se2, NEW k \in DOMAIN se2, Before(se2, j, k), v[j] # Gone,
                 v[k] # Gone, AtEnd \in Onward(p, v[k])
          PROVE  v[j] \in Onward(p, v[k])
      <4> HIDE DEF se2, v, n, w1
      <4>1. j \in DOMAIN se /\ v[j] = w[j]
        BY <1>2, <2>2, <3>2 DEF Before
      <4>2. CASE k = n
        <5>1. v[k] = InChan(c) /\ se[j].c = c
          BY <1>2, <2>2, <2>4, <3>2, <4>1, <4>2 DEF Before
        <5> QED
          BY <2>1, <3>2, <4>1, <5>1 DEF Along
      <4>3. CASE k \in DOMAIN se
        <5>1. v[k] = w[k] /\ Before(se, j, k)
          BY <1>2, <2>2, <3>2, <4>1, <4>3 DEF Before
        <5> QED
          BY <2>1, <3>2, <4>1, <4>3, <5>1 DEF Along
      <4> QED
        BY <1>2, <4>2, <4>3
    <3> HIDE DEF se2, v
    <3> QED
      BY <3>1, <3>2 DEF Along
  <2>6. Queued(p, se2, ch2)
    <3>1. /\ ch \in [Channels(p) -> Seq(Single)] /\ PlacedChan(p, se, w, ch)
          /\ PlacedChan(p, se2, w1, ch)
      BY <1>3, <1>4 DEF Contents, Placed
    <3>2. Queued(p, se2, ch)
      <4>1. \A d \in Channels(p) : \A i \in DOMAIN ch[d] : ch[d][i][1].n \in DOMAIN se
        BY <3>1 DEF PlacedChan, At
      <4> HIDE DEF se2, n
      <4> QED
        BY <1>2, <2>1, <4>1 DEF Queued, Ascending
    <3>3. \A k \in DOMAIN se2 : w1[k] = InChan(c) => k < n
      <4> HIDE DEF se2, n, w1
      <4> QED
        BY <1>2, <2>2, Apart
    <3>4. n = m[1].n
      BY <1>1
    <3> HIDE DEF se2, w1, m, n
    <3> QED
      BY <1>1, <1>2, <3>1, <3>2, <3>3, <3>4, PutQueued
  <2>7. QueuedOut(se2, ou)
    <3>1. \A i \in DOMAIN ou : ou[i].msg[1].n \in DOMAIN se
      BY <1>3 DEF Placed, PlacedOut, At
    <3> HIDE DEF se2, n
    <3> QED
      BY <1>2, <2>1, <3>1 DEF QueuedOut
  <2> HIDE DEF v, se2, ch2
  <2>8. Good(p, se2, v, ch2, h, ou)
    BY <1>6, <2>1, <2>5, <2>6, <2>7 DEF Good, Flows
  <2> QED
    BY <2>8 DEF se2, ch2
<1>8. CASE ~InSeries(p)
  <2> HIDE DEF v, se2, ch2
  <2>1. Good(p, se2, v, ch2, h, ou)
    BY <1>6, <1>8 DEF Good
  <2> QED
    BY <2>1 DEF se2, ch2
<1> QED
  BY <1>7, <1>8

GoodInv == \E w : Good(program, sent, w, chan, Holds, out)
Inv == TypeInv /\ GoodInv

(* Which task t may be of o. *)
Fits(t) == t \in Tasks /\ IF t.at = "send" THEN Len(t.pend) = 1 ELSE t.pend = <<>>

(* A step of a task keeps the types of the tasks. *)
LEMMA TypeTask ==
    ASSUME TypeInv, NEW o \in Ops, NEW t, Fits(t), task' = [task EXCEPT ![o] = t],
           UNCHANGED program
    PROVE  /\ task' \in [Ops -> Tasks]
           /\ \A d \in Ops : IF task'[d].at = "send" THEN Len(task'[d].pend) = 1
                                                     ELSE task'[d].pend = <<>>
BY DEF TypeInv, Fits

(* With the types of the rest it keeps them all. *)
LEMMA TypeKept ==
    ASSUME TypeInv, UNCHANGED <<program, sent>>,
           chan' \in [Channels(program) -> Seq(Single)],
           \/ UNCHANGED task
           \/ \E o \in Ops, t \in Tasks : Fits(t) /\ task' = [task EXCEPT ![o] = t],
           fly' \in [Ops -> SUBSET Single], now' \in Nat,
           out' \in Seq([from : Ops, msg : Single])
    PROVE  TypeInv'
<1>1. /\ task' \in [Ops -> Tasks]
      /\ \A d \in Ops : IF task'[d].at = "send" THEN Len(task'[d].pend) = 1
                                                ELSE task'[d].pend = <<>>
  <2>1. CASE UNCHANGED task
    BY <2>1 DEF TypeInv
  <2>2. CASE \E o \in Ops, t \in Tasks : Fits(t) /\ task' = [task EXCEPT ![o] = t]
    BY <2>2, TypeTask
  <2> QED
    BY <2>1, <2>2
<1>2. Ops' = Ops /\ \A o \in Ops : Kind(o)' = Kind(o)
  BY DEF Ops, Kind
<1> QED
  BY <1>1, <1>2 DEF TypeInv

(* A port of an operator has a channel. *)
LEMMA PortChannel ==
    ASSUME NEW o \in Ops, NEW port \in Ports(Kind(o))
    PROVE  <<o, port>> \in Channels(program) /\ <<o, port>>[1] = o
<1>1. o \in DOMAIN program /\ <<o, port>> \in {o} \X Ports(program[o].kind)
  BY DEF Ops, Kind
<1> QED
  BY <1>1 DEF Channels

(* What the constant-level lemmas ask of program and sent. *)
LEMMA OpsAre ==
    /\ Ops = DOMAIN program
    /\ TypeInv => program \in Programs /\ sent \in Sents(program)
BY DEF Ops, TypeInv, Sents

(* Emit keeps the invariant. *)
LEMMA EmitStep ==
    ASSUME Inv, Emit
    PROVE  Inv'
<1>1. PICK c \in Sources, class \in Classes :
        /\ chan' = [chan EXCEPT ![c] =
                       Append(chan[c], <<[n |-> Len(sent) + 1, class |-> class]>>)]
        /\ sent' = Append(sent, [e |-> [n |-> Len(sent) + 1, class |-> class], c |-> c])
  BY DEF Emit
<1> DEFINE e == [n |-> Len(sent) + 1, class |-> class]
<1>2. TypeInv /\ c \in Channels(program) /\ UNCHANGED <<program, task, fly, now, out>>
  BY DEF Inv, Sources, Emit
<1>3. sent \in Seq([e : Event, c : Channels(program)]) /\ Len(sent) + 1 \in Nat
  BY <1>2 DEF TypeInv
<1>4. e \in Event /\ e.n = Len(sent) + 1 /\ <<e>> \in Single
  BY <1>3 DEF Event, Single
<1>5. /\ sent' = Append(sent, [e |-> e, c |-> c])
      /\ chan' = [chan EXCEPT ![c] = Append(chan[c], <<e>>)]
  BY <1>1
<1>6. GoodInv'
  <2>1. PICK w : Good(program, sent, w, chan, Holds, out)
    BY DEF Inv, GoodInv
  <2>2. Contents(program, chan, Holds, out) /\ program \in Programs /\ sent \in Sents(program)
    BY <1>2, HoldsAre, OpsAre
  <2>3. \E v : Good(program, sent', v, chan', Holds, out)
    <3> HIDE DEF e
    <3> QED
      BY <1>2, <1>4, <1>5, <2>1, <2>2, Enter
  <2>4. Holds' = Holds
    BY <1>2 DEF Holds
  <2> QED
    BY <1>2, <2>3, <2>4 DEF GoodInv
<1>7. TypeInv'
  <2>1. /\ sent' \in Seq([e : Event, c : Channels(program)])
        /\ \A i \in DOMAIN sent' : sent'[i].e.n = i
    <3>1. [e |-> e, c |-> c] \in [e : Event, c : Channels(program)]
      BY <1>2, <1>4
    <3>2. \A i \in DOMAIN sent : sent[i].e.n = i
      BY <1>2 DEF TypeInv
    <3>3. DOMAIN sent' = 1..(Len(sent) + 1) /\ sent'[Len(sent) + 1] = [e |-> e, c |-> c]
          /\ \A i \in 1..Len(sent) : sent'[i] = sent[i]
      <4> HIDE DEF e
      <4> QED
        BY <1>3, <1>5, <3>1
    <3>4. sent' \in Seq([e : Event, c : Channels(program)])
      <4> HIDE DEF e
      <4> QED
        BY <1>3, <1>5, <3>1
    <3>5. \A i \in DOMAIN sent' : sent'[i].e.n = i
      <4>1. sent'[Len(sent) + 1].e.n = Len(sent) + 1
        BY <1>4, <3>3
      <4>2. DOMAIN sent = 1..Len(sent) /\ Len(sent) \in Nat
        BY <1>3
      <4>3. \A i \in DOMAIN sent' : i \in 1..Len(sent) \/ i = Len(sent) + 1
        BY <3>3, <4>2
      <4> QED
        BY <3>2, <3>3, <4>1, <4>2, <4>3
    <3> QED
      BY <3>4, <3>5
  <2>2. chan' \in [Channels(program) -> Seq(Single)]
    <3> HIDE DEF e
    <3> QED
      BY <1>2, <1>4, <1>5 DEF TypeInv
  <2>3. Ops' = Ops /\ \A o \in Ops : Kind(o)' = Kind(o)
    BY <1>2 DEF Ops, Kind
  <2> QED
    BY <1>2, <2>1, <2>2, <2>3 DEF TypeInv
<1> QED
  BY <1>6, <1>7 DEF Inv

(* A panic on a received message keeps it: the event is gone. *)
LEMMA ReceivePanicsStep ==
    ASSUME Inv, NEW o \in Ops, NEW port \in Ports(Kind(o)), ReceivePanics(o, port)
    PROVE  Inv'
<1> DEFINE c == <<o, port>>
<1>1. /\ TypeInv /\ c \in Channels(program) /\ chan[c] # <<>> /\ task[o].at = "wait"
      /\ chan' = [chan EXCEPT ![c] = Tail(chan[c])]
      /\ UNCHANGED <<program, fly, now, sent, out>>
      /\ UNCHANGED task \/ Down(o)
  BY PortChannel DEF Inv, ReceivePanics
<1>2. \/ UNCHANGED task
      \/ \E t \in Tasks : t.at = "down" /\ t.pend = <<>> /\ task' = [task EXCEPT ![o] = t]
  BY <1>1, DownTask
<1>3. Contents(program, chan, Holds, out) /\ program \in Programs /\ sent \in Sents(program)
  BY <1>1, HoldsAre, OpsAre
<1>4. Holds' = Holds
  <2>1. CASE UNCHANGED task
    BY <1>1, <2>1 DEF Holds
  <2>2. CASE ~UNCHANGED task
    <3>1. PICK t \in Tasks : t.at = "down" /\ t.pend = <<>> /\ task' = [task EXCEPT ![o] = t]
      BY <1>2, <2>2
    <3>2. Holds' = [Holds EXCEPT ![InTask(o)] = ToSet(t.pend)]
      BY <1>1, <3>1, HoldsTask
    <3>3. Holds[InTask(o)] = ToSet(<<>>) /\ InTask(o) \in Held(program)
      BY <1>1, HoldsAre, PassingTask
    <3>4. Holds = [x \in Held(program) |-> Holds[x]]
      BY DEF Holds
    <3> HIDE DEF Holds
    <3> QED
      BY <3>1, <3>2, <3>3, <3>4
  <2> QED
    BY <2>1, <2>2
<1>5. GoodInv'
  <2>1. PICK w : Good(program, sent, w, chan, Holds, out)
    BY DEF Inv, GoodInv
  <2>2. \E v : Good(program, sent, v, chan', Holds, out)
    <3> HIDE DEF c
    <3> QED
      BY <1>1, <1>3, <2>1, LoseChan
  <2> QED
    BY <1>1, <1>4, <2>2 DEF GoodInv
<1>6. TypeInv'
  <2>1. chan' \in [Channels(program) -> Seq(Single)]
    <3>1. chan[c] \in Seq(Single) /\ Tail(chan[c]) \in Seq(Single)
      <4>1. chan[c] \in Seq(Single)
        BY <1>1 DEF TypeInv
      <4> HIDE DEF c
      <4> QED
        BY <1>1, <4>1
    <3> HIDE DEF c
    <3> QED
      BY <1>1, <3>1 DEF TypeInv
  <2>2. UNCHANGED task \/ \E d \in Ops, t \in Tasks : Fits(t) /\ task' = [task EXCEPT ![d] = t]
    BY <1>2 DEF Fits
  <2>3. /\ fly' \in [Ops -> SUBSET Single] /\ now' \in Nat
        /\ out' \in Seq([from : Ops, msg : Single])
    BY <1>1 DEF TypeInv
  <2> QED
    BY <1>1, <2>1, <2>2, <2>3, TypeKept
<1> QED
  BY <1>5, <1>6 DEF Inv

(* Holds is a function. *)
LEMMA HoldsIs == Holds = [x \in Held(program) |-> Holds[x]]
BY DEF Holds

(* What goes from a channel into a task, or into a task of its own. *)
LEMMA ReceiveStep ==
    ASSUME Inv, NEW o \in Ops, NEW port \in Ports(Kind(o)), Receive(o, port)
    PROVE  Inv'
<1> DEFINE c == <<o, port>>
           m == Head(chan[c])
           r == Process(o, task[o].buf, port, m)
<1>1. /\ TypeInv /\ c \in Channels(program) /\ c[1] = o /\ chan[c] # <<>> /\ task[o].at = "wait"
      /\ chan' = [chan EXCEPT ![c] = Tail(chan[c])]
      /\ UNCHANGED <<program, now, sent, out>>
  BY PortChannel DEF Inv, Receive
<1>2. IF program[o].par
      THEN fly' = [fly EXCEPT ![o] = fly[o] \cup ToSet(r.send)] /\ task' = task
      ELSE /\ task' = [task EXCEPT ![o].at = After(o, r.send), ![o].pend = r.send,
                          ![o].buf = r.buf]
           /\ fly' = fly
  BY DEF Receive
<1>3. Contents(program, chan, Holds, out) /\ program \in Programs /\ sent \in Sents(program)
  BY <1>1, HoldsAre, OpsAre
<1>4. chan[c] \in Seq(Single) /\ m \in Single /\ Tail(chan[c]) \in Seq(Single)
  <2>1. chan[c] \in Seq(Single)
    BY <1>1 DEF TypeInv
  <2>2. \A q \in Seq(Single) : q # <<>> => Head(q) \in Single /\ Tail(q) \in Seq(Single)
    OBVIOUS
  <2> HIDE DEF c
  <2> QED
    BY <1>1, <2>1, <2>2
<1>5. /\ r.send \in {<<>>, <<m>>} /\ r.buf = <<>> /\ task[o] \in Tasks /\ Kind(o) \in Passings
      /\ task[o].pend = <<>>
  <2>1. Kind(o) \in Passings /\ task[o] \in Tasks /\ task[o].pend = <<>>
    BY <1>1, PassingTask
  <2>2. task[o].buf = <<>>
    BY <2>1 DEF Tasks
  <2> HIDE DEF m
  <2> QED
    BY <2>1, <2>2, Forwards
<1>6. r.send \in Seq(Single) /\ After(o, r.send) = IF r.send = <<>> THEN "wait" ELSE "send"
  <2>1. <<>> \in Seq(Single) /\ <<m>> \in Seq(Single)
    <3> HIDE DEF m
    <3> QED
      BY <1>4
  <2>2. Top(Kind(o)) = "wait"
    BY <1>5, Loop
  <2> HIDE DEF r, m
  <2> QED
    BY <1>5, <2>1, <2>2 DEF After
<1>7. ASSUME ~program[o].par
      PROVE  \E t \in Tasks : t.pend = r.send /\ Fits(t) /\ task' = [task EXCEPT ![o] = t]
  <2>1. task' = [task EXCEPT ![o].at = After(o, r.send), ![o].pend = r.send, ![o].buf = <<>>]
    <3> HIDE DEF r
    <3> QED
      BY <1>2, <1>5, <1>7
  <2>2. After(o, r.send) \in States
    <3> HIDE DEF r
    <3> QED
      BY <1>6 DEF States
  <2>3. o \in DOMAIN task
    BY <1>1 DEF TypeInv
  <2> DEFINE at == After(o, r.send)
             pend == r.send
  <2>4. PICK t \in Tasks : t.at = at /\ t.pend = pend /\ task' = [task EXCEPT ![o] = t]
    <3> HIDE DEF r, at, pend
    <3> SUFFICES ASSUME NEW d \in Tasks, d = task[o]
                 PROVE  \E t \in Tasks :
                          t.at = at /\ t.pend = pend /\ task' = [task EXCEPT ![o] = t]
      BY <1>5
    <3> DEFINE s == [d EXCEPT !.at = at, !.pend = pend, !.buf = <<>>]
    <3>1. task' = [task EXCEPT ![o] = s]
      BY <2>1 DEF at, pend
    <3>2. at \in States /\ pend \in Seq(Single)
      BY <1>6, <2>2 DEF at, pend
    <3>3. s \in Tasks /\ s.at = at /\ s.pend = pend
      BY <3>2 DEF Tasks
    <3> HIDE DEF s
    <3> QED
      BY <3>1, <3>3
  <2>5. Fits(t)
    <3>1. Len(<<m>>) = 1
      OBVIOUS
    <3> HIDE DEF r, m
    <3> QED
      BY <1>5, <1>6, <2>4, <3>1 DEF Fits
  <2> QED
    BY <2>4, <2>5
<1> DEFINE x == IF program[o].par THEN InFly(o) ELSE InTask(o)
<1>8. Holds' = IF r.send = <<>> THEN Holds ELSE [Holds EXCEPT ![x] = Holds[x] \cup {m}]
  <2>1. /\ Holds[InTask(o)] = {} /\ Holds[InFly(o)] = fly[o]
        /\ InTask(o) \in Held(program) /\ InFly(o) \in Held(program)
    BY <1>1, <1>5, HoldsAre, SetOfOne
  <2>2. ToSet(r.send) = IF r.send = <<>> THEN {} ELSE {m}
    <3> HIDE DEF r, m
    <3> QED
      BY <1>5, SetOfOne
  <2>3. Holds' = [Holds EXCEPT ![x] = Holds[x] \cup ToSet(r.send)]
    <3>1. CASE program[o].par
      <4>1. Holds' = [Holds EXCEPT ![InFly(o)] = fly[o] \cup ToSet(r.send)]
        <5> HIDE DEF r
        <5> QED
          BY <1>1, <1>2, <3>1, HoldsFly
      <4> HIDE DEF Holds, r
      <4> QED
        BY <2>1, <3>1, <4>1
    <3>2. CASE ~program[o].par
      <4>1. PICK t \in Tasks : t.pend = r.send /\ Fits(t) /\ task' = [task EXCEPT ![o] = t]
        BY <1>7, <3>2
      <4>2. Holds' = [Holds EXCEPT ![InTask(o)] = ToSet(t.pend)]
        BY <1>1, <1>2, <3>2, <4>1, HoldsTask
      <4>3. {} \cup ToSet(r.send) = ToSet(t.pend)
        BY <4>1
      <4> HIDE DEF Holds, r
      <4> QED
        BY <2>1, <3>2, <4>2, <4>3
    <3> QED
      BY <3>1, <3>2
  <2> HIDE DEF Holds, r, m
  <2> QED
    BY <2>1, <2>2, <2>3, HoldsIs
<1>9. GoodInv'
  <2>1. PICK w : Good(program, sent, w, chan, Holds, out)
    BY DEF Inv, GoodInv
  <2>2. CASE r.send = <<>>
    <3>1. \E v : Good(program, sent, v, chan', Holds, out)
      <4> HIDE DEF c
      <4> QED
        BY <1>1, <1>3, <2>1, LoseChan
    <3> HIDE DEF r
    <3> QED
      BY <1>1, <1>8, <2>2, <3>1 DEF GoodInv
  <2>3. CASE r.send # <<>>
    <3>1. \E v : Good(program, sent, v, chan', [Holds EXCEPT ![x] = Holds[x] \cup {m}], out)
      <4>1. o \in DOMAIN program
        BY DEF Ops
      <4> HIDE DEF c
      <4> QED
        BY <1>1, <1>3, <2>1, <4>1, HoldChan
    <3> HIDE DEF r, m, x
    <3> QED
      BY <1>1, <1>8, <2>3, <3>1 DEF GoodInv
  <2> QED
    BY <2>2, <2>3
<1>10. TypeInv'
  <2>1. chan' \in [Channels(program) -> Seq(Single)]
    <3> HIDE DEF c
    <3> QED
      BY <1>1, <1>4 DEF TypeInv
  <2>2. UNCHANGED task \/ \E d \in Ops, t \in Tasks : Fits(t) /\ task' = [task EXCEPT ![d] = t]
    <3> HIDE DEF r
    <3> QED
      BY <1>2, <1>7
  <2>3. fly' \in [Ops -> SUBSET Single]
    <3>1. ToSet(r.send) \in SUBSET Single
      <4> HIDE DEF r, m
      <4> QED
        BY <1>4, <1>5, SetOfOne
    <3> HIDE DEF r
    <3> QED
      BY <1>1, <1>2, <3>1 DEF TypeInv
  <2>4. now' \in Nat /\ out' \in Seq([from : Ops, msg : Single])
    BY <1>1 DEF TypeInv
  <2> QED
    BY <1>1, <2>1, <2>2, <2>3, <2>4, TypeKept
<1> QED
  BY <1>9, <1>10 DEF Inv

(* What goes on from there. *)
LEMMA Delivers ==
    ASSUME Inv, NEW o \in Ops, NEW m, NEW x, Holder(program, Holds, o, x, m), Deliver(o, m),
           UNCHANGED <<program, sent>>, Holds' = [Holds EXCEPT ![x] = Holds[x] \ {m}]
    PROVE  /\ GoodInv' /\ chan' \in [Channels(program) -> Seq(Single)]
           /\ out' \in Seq([from : Ops, msg : Single])
<1>1. /\ TypeInv /\ Contents(program, chan, Holds, out) /\ program \in Programs
      /\ sent \in Sents(program) /\ o \in DOMAIN program /\ Ops = DOMAIN program
  BY HoldsAre, OpsAre DEF Inv
<1>2. PICK w : Good(program, sent, w, chan, Holds, out)
  BY DEF Inv, GoodInv
<1>3. m \in Single
  <2>1. x \in Held(program) /\ m \in Holds[x]
    BY <1>1 DEF Holder, Held
  <2> HIDE DEF Holds
  <2> QED
    BY <1>1, <2>1 DEF Contents
<1>4. CASE program[o].to = Sink
  <2>1. out' = Append(out, [from |-> o, msg |-> m]) /\ chan' = chan
    BY <1>4 DEF Deliver
  <2>2. \E v : Good(program, sent, v, chan, [Holds EXCEPT ![x] = Holds[x] \ {m}], out')
    <3> HIDE DEF Holds
    <3> QED
      BY <1>1, <1>2, <1>4, <2>1, SendOut
  <2>3. GoodInv'
    <3> HIDE DEF Holds
    <3> QED
      BY <2>1, <2>2 DEF GoodInv
  <2>4. out' \in Seq([from : Ops, msg : Single]) /\ chan' \in [Channels(program) -> Seq(Single)]
    <3>1. [from |-> o, msg |-> m] \in [from : Ops, msg : Single]
      BY <1>3
    <3>2. \A S : \A q \in Seq(S) : \A s \in S : Append(q, s) \in Seq(S)
      OBVIOUS
    <3> QED
      BY <1>1, <2>1, <3>1, <3>2 DEF TypeInv
  <2> QED
    BY <2>3, <2>4
<1>5. CASE program[o].to # Sink
  <2> DEFINE c == program[o].to
  <2>1. chan' = [chan EXCEPT ![c] = Append(chan[c], m)] /\ out' = out
    BY <1>5 DEF Deliver
  <2>2. \E v : Good(program, sent, v, chan', [Holds EXCEPT ![x] = Holds[x] \ {m}], out)
    <3> HIDE DEF Holds
    <3> QED
      BY <1>1, <1>2, <1>5, <2>1, SendOn
  <2>3. GoodInv'
    <3> HIDE DEF Holds
    <3> QED
      BY <2>1, <2>2 DEF GoodInv
  <2>4. out' \in Seq([from : Ops, msg : Single]) /\ chan' \in [Channels(program) -> Seq(Single)]
    <3>1. chan \in [Channels(program) -> Seq(Single)] /\ c \in Channels(program)
      BY <1>1, <1>5, StreamAssumption DEF TypeInv
    <3>2. Append(chan[c], m) \in Seq(Single)
      <4> HIDE DEF c
      <4> QED
        BY <1>3, <3>1
    <3> HIDE DEF c
    <3> QED
      BY <1>1, <2>1, <3>1, <3>2 DEF TypeInv
  <2> QED
    BY <2>3, <2>4
<1> QED
  BY <1>4, <1>5

(* Send keeps the invariant: the message goes on. *)
LEMMA SendStep ==
    ASSUME Inv, NEW o \in Ops, Send(o)
    PROVE  Inv'
<1> DEFINE m == Head(task[o].pend)
<1>1. /\ TypeInv /\ task[o].at = "send" /\ Deliver(o, m) /\ UNCHANGED <<program, fly, now, sent>>
      /\ task' = [task EXCEPT ![o].at = After(o, Tail(task[o].pend)),
                     ![o].pend = Tail(task[o].pend)]
  BY DEF Inv, Send
<1>2. /\ task[o].pend = <<m>> /\ m \in Single /\ Tail(task[o].pend) = <<>> /\ task[o] \in Tasks
      /\ Kind(o) \in Passings
  BY <1>1, PassingTask
<1>3. task' = [task EXCEPT ![o].at = "wait", ![o].pend = <<>>]
  <2>1. After(o, <<>>) = "wait"
    BY <1>2, Loop DEF After
  <2> QED
    BY <1>1, <1>2, <2>1
<1>4. PICK t \in Tasks : t.at = "wait" /\ t.pend = <<>> /\ task' = [task EXCEPT ![o] = t]
  <2> SUFFICES ASSUME NEW d \in Tasks, d = task[o]
               PROVE  \E t \in Tasks :
                        t.at = "wait" /\ t.pend = <<>> /\ task' = [task EXCEPT ![o] = t]
    BY <1>2
  <2> DEFINE at == "wait"
             pend == <<>>
             s == [d EXCEPT !.at = at, !.pend = pend]
  <2>1. task' = [task EXCEPT ![o] = s]
    BY <1>3
  <2>2. at \in States /\ pend \in Seq(Single)
    BY DEF States
  <2>3. s \in Tasks /\ s.at = at /\ s.pend = pend
    <3> HIDE DEF at, pend
    <3> QED
      BY <2>2 DEF Tasks
  <2> HIDE DEF s
  <2> QED
    BY <2>1, <2>3
<1>5. Holds[InTask(o)] = {m} /\ Holder(program, Holds, o, InTask(o), m)
  <2>1. Holds[InTask(o)] = ToSet(<<m>>)
    BY <1>1, <1>2, HoldsAre
  <2>2. ToSet(<<m>>) = {m}
    BY SetOfOne
  <2> HIDE DEF Holds, m
  <2> QED
    BY <2>1, <2>2 DEF Holder
<1>6. Holds' = [Holds EXCEPT ![InTask(o)] = Holds[InTask(o)] \ {m}]
  <2>1. Holds' = [Holds EXCEPT ![InTask(o)] = ToSet(t.pend)]
    BY <1>1, <1>4, HoldsTask
  <2>2. ToSet(t.pend) = {}
    BY <1>4, SetOfOne
  <2>3. Holds[InTask(o)] \ {m} = {}
    BY <1>5
  <2> HIDE DEF Holds, m
  <2> QED
    BY <2>1, <2>2, <2>3
<1>7. /\ GoodInv' /\ chan' \in [Channels(program) -> Seq(Single)]
      /\ out' \in Seq([from : Ops, msg : Single])
  <2> HIDE DEF Holds, m
  <2> QED
    BY <1>1, <1>5, <1>6, Delivers
<1>8. TypeInv'
  <2>1. \E d \in Ops, s \in Tasks : Fits(s) /\ task' = [task EXCEPT ![d] = s]
    BY <1>4 DEF Fits
  <2>2. fly' \in [Ops -> SUBSET Single] /\ now' \in Nat
    BY <1>1 DEF TypeInv
  <2> QED
    BY <1>1, <1>7, <2>1, <2>2, TypeKept
<1> QED
  BY <1>7, <1>8 DEF Inv

(* So does a task of its own that sends. *)
LEMMA SendInParallelStep ==
    ASSUME Inv, NEW o \in Ops, SendInParallel(o)
    PROVE  Inv'
<1>1. PICK m \in fly[o] : Deliver(o, m) /\ fly' = [fly EXCEPT ![o] = fly[o] \ {m}]
  BY DEF SendInParallel
<1>2. TypeInv /\ UNCHANGED <<program, task, now, sent>>
  BY DEF Inv, SendInParallel
<1>3. Holds[InFly(o)] = fly[o] /\ Holder(program, Holds, o, InFly(o), m)
  <2>1. Holds[InFly(o)] = fly[o]
    BY <1>2, HoldsAre
  <2> HIDE DEF Holds
  <2> QED
    BY <2>1 DEF Holder
<1>4. Holds' = [Holds EXCEPT ![InFly(o)] = Holds[InFly(o)] \ {m}]
  <2>1. Holds' = [Holds EXCEPT ![InFly(o)] = fly[o] \ {m}]
    BY <1>1, <1>2, HoldsFly
  <2> HIDE DEF Holds
  <2> QED
    BY <1>3, <2>1
<1>5. /\ GoodInv' /\ chan' \in [Channels(program) -> Seq(Single)]
      /\ out' \in Seq([from : Ops, msg : Single])
  <2> HIDE DEF Holds
  <2> QED
    BY <1>1, <1>2, <1>3, <1>4, Delivers
<1>6. TypeInv'
  <2>1. fly' \in [Ops -> SUBSET Single] /\ now' \in Nat
    BY <1>1, <1>2 DEF TypeInv
  <2> QED
    BY <1>2, <1>5, <2>1, TypeKept
<1> QED
  BY <1>5, <1>6 DEF Inv

(* A panic of a task, or at the end, loses the one message it held. *)
LEMMA SendPanicsStep ==
    ASSUME Inv, NEW o \in Ops, SendPanics(o)
    PROVE  Inv'
<1>1. TypeInv /\ UNCHANGED <<program, chan, now, sent, out>>
  BY DEF Inv, SendPanics
<1>2. Contents(program, chan, Holds, out) /\ program \in Programs /\ sent \in Sents(program)
      /\ o \in DOMAIN program
  BY <1>1, HoldsAre, OpsAre
<1>3. PICK w : Good(program, sent, w, chan, Holds, out)
  BY DEF Inv, GoodInv
<1>4. CASE task[o].at = "send" /\ Down(o) /\ UNCHANGED fly
  <2> DEFINE m == Head(task[o].pend)
  <2>1. task[o].pend = <<m>> /\ m \in Single
    BY <1>1, <1>4, PassingTask
  <2>2. PICK t \in Tasks : t.at = "down" /\ t.pend = <<>> /\ task' = [task EXCEPT ![o] = t]
    BY <1>1, <1>4, DownTask
  <2>3. Holds[InTask(o)] = {m} /\ Holder(program, Holds, o, InTask(o), m)
    <3>1. Holds[InTask(o)] = ToSet(<<m>>)
      BY <1>1, <2>1, HoldsAre
    <3>2. ToSet(<<m>>) = {m}
      BY SetOfOne
    <3> HIDE DEF Holds, m
    <3> QED
      BY <3>1, <3>2 DEF Holder
  <2>4. Holds' = [Holds EXCEPT ![InTask(o)] = Holds[InTask(o)] \ {m}]
    <3>1. Holds' = [Holds EXCEPT ![InTask(o)] = ToSet(t.pend)]
      BY <1>1, <1>4, <2>2, HoldsTask
    <3>2. ToSet(t.pend) = {} /\ Holds[InTask(o)] \ {m} = {}
      BY <2>2, <2>3, SetOfOne
    <3> HIDE DEF Holds, m
    <3> QED
      BY <3>1, <3>2
  <2>5. GoodInv'
    <3>1. \E v : Good(program, sent, v, chan,
                      [Holds EXCEPT ![InTask(o)] = Holds[InTask(o)] \ {m}], out)
      <4> HIDE DEF Holds, m
      <4> QED
        BY <1>2, <1>3, <2>3, LoseHeld
    <3> HIDE DEF Holds, m
    <3> QED
      BY <1>1, <2>4, <3>1 DEF GoodInv
  <2>6. TypeInv'
    <3>1. \E d \in Ops, s \in Tasks : Fits(s) /\ task' = [task EXCEPT ![d] = s]
      BY <2>2 DEF Fits
    <3>2. /\ chan' \in [Channels(program) -> Seq(Single)] /\ fly' \in [Ops -> SUBSET Single]
          /\ now' \in Nat /\ out' \in Seq([from : Ops, msg : Single])
      BY <1>1, <1>4 DEF TypeInv
    <3> QED
      BY <1>1, <3>1, <3>2, TypeKept
  <2> QED
    BY <2>5, <2>6 DEF Inv
<1>5. CASE (\E m \in fly[o] : fly' = [fly EXCEPT ![o] = @ \ {m}]) /\ UNCHANGED task
  <2>1. PICK m \in fly[o] : fly' = [fly EXCEPT ![o] = fly[o] \ {m}]
    BY <1>5
  <2>2. Holds[InFly(o)] = fly[o] /\ Holder(program, Holds, o, InFly(o), m)
    <3>1. Holds[InFly(o)] = fly[o]
      BY <1>1, HoldsAre
    <3> HIDE DEF Holds
    <3> QED
      BY <3>1 DEF Holder
  <2>3. Holds' = [Holds EXCEPT ![InFly(o)] = Holds[InFly(o)] \ {m}]
    <3>1. Holds' = [Holds EXCEPT ![InFly(o)] = fly[o] \ {m}]
      BY <1>1, <1>5, <2>1, HoldsFly
    <3> HIDE DEF Holds
    <3> QED
      BY <2>2, <3>1
  <2>4. GoodInv'
    <3>1. \E v : Good(program, sent, v, chan,
                      [Holds EXCEPT ![InFly(o)] = Holds[InFly(o)] \ {m}], out)
      <4> HIDE DEF Holds
      <4> QED
        BY <1>2, <1>3, <2>2, LoseHeld
    <3> HIDE DEF Holds
    <3> QED
      BY <1>1, <2>3, <3>1 DEF GoodInv
  <2>5. TypeInv'
    <3>1. /\ chan' \in [Channels(program) -> Seq(Single)] /\ fly' \in [Ops -> SUBSET Single]
          /\ now' \in Nat /\ out' \in Seq([from : Ops, msg : Single])
      BY <1>1, <2>1 DEF TypeInv
    <3> QED
      BY <1>1, <1>5, <3>1, TypeKept
  <2> QED
    BY <2>4, <2>5 DEF Inv
<1> QED
  BY <1>4, <1>5 DEF SendPanics

(* A restart brings back a task that holds nothing. *)
LEMMA RestartStep ==
    ASSUME Inv, NEW o \in Ops, Restart(o)
    PROVE  Inv'
<1>1. /\ TypeInv /\ task[o].at # "send" /\ UNCHANGED <<program, chan, fly, now, sent, out>>
  BY DEF Inv, Restart
<1>2. PICK t \in Tasks : t.at = "wait" /\ t.pend = <<>> /\ task' = [task EXCEPT ![o] = t]
  BY <1>1, RestartTask
<1>3. Holds' = Holds
  <2>1. Holds' = [Holds EXCEPT ![InTask(o)] = ToSet(t.pend)]
    BY <1>1, <1>2, HoldsTask
  <2>2. Holds[InTask(o)] = ToSet(<<>>) /\ InTask(o) \in Held(program)
    BY <1>1, HoldsAre, PassingTask
  <2> HIDE DEF Holds
  <2> QED
    BY <1>2, <2>1, <2>2, HoldsIs
<1>4. GoodInv'
  BY <1>1, <1>3 DEF Inv, GoodInv
<1>5. TypeInv'
  <2>1. \E d \in Ops, s \in Tasks : Fits(s) /\ task' = [task EXCEPT ![d] = s]
    BY <1>2 DEF Fits
  <2>2. /\ chan' \in [Channels(program) -> Seq(Single)] /\ fly' \in [Ops -> SUBSET Single]
        /\ now' \in Nat /\ out' \in Seq([from : Ops, msg : Single])
    BY <1>1 DEF TypeInv
  <2> QED
    BY <1>1, <2>1, <2>2, TypeKept
<1> QED
  BY <1>4, <1>5 DEF Inv

(* The clock moves no message. *)
LEMMA OtherSteps ==
    ASSUME Inv, UNCHANGED <<program, chan, task, fly, sent, out>>, now' \in Nat
    PROVE  Inv'
<1>1. Holds' = Holds
  BY DEF Holds
<1>2. GoodInv'
  BY <1>1 DEF Inv, GoodInv
<1>3. TypeInv'
  <2>1. /\ chan' \in [Channels(program) -> Seq(Single)] /\ fly' \in [Ops -> SUBSET Single]
        /\ out' \in Seq([from : Ops, msg : Single])
    BY DEF Inv, TypeInv
  <2> QED
    BY <2>1, TypeKept DEF Inv
<1> QED
  BY <1>2, <1>3 DEF Inv

(* Nothing is anywhere at first. *)
LEMMA InitInv == Init /\ Passing => Inv
<1> SUFFICES ASSUME Init, Passing PROVE Inv
  OBVIOUS
<1>1. TypeInv
  BY InitPassing
<1>2. sent = <<>> /\ out = <<>> /\ \A c \in Channels(program) : chan[c] = <<>>
  BY DEF Init
<1>3. \A x \in Held(program) : Holds[x] = {}
  <2>1. \A o \in Ops : task[o].pend = <<>> /\ fly[o] = {}
    <3>1. \A o \in Ops : task[o].at = "wait" /\ fly[o] = {}
      BY <1>1, Loop DEF Init, Fresh, TypeInv
    <3> QED
      BY <1>1, <3>1, PassingTask
  <2>2. \A o \in Ops : Holds[InTask(o)] = {} /\ Holds[InFly(o)] = {}
    BY <1>1, <2>1, HoldsAre, SetOfOne
  <2> HIDE DEF Holds
  <2> QED
    BY <2>2 DEF Held, Ops
<1>4. ASSUME NEW w, w = [n \in {} |-> Gone]
      PROVE  Good(program, sent, w, chan, Holds, out)
  <2>1. DOMAIN sent = {} /\ DOMAIN out = {} /\ \A c \in Channels(program) : DOMAIN chan[c] = {}
    BY <1>2
  <2>2. PlacedChan(program, sent, w, chan)
    BY <2>1 DEF PlacedChan
  <2>3. PlacedHeld(program, sent, w, Holds)
    <3> HIDE DEF Holds
    <3> QED
      BY <1>3, <2>1 DEF PlacedHeld
  <2>4. PlacedOut(sent, w, out)
    BY <2>1 DEF PlacedOut
  <2>5. Along(program, sent, w)
    BY <2>1 DEF Along
  <2>6. Queued(program, sent, chan)
    BY <2>1 DEF Queued, Ascending
  <2>7. QueuedOut(sent, out)
    BY <2>1 DEF QueuedOut
  <2>8. \A o \in DOMAIN program : Holds[InFly(o)] = {}
    <3> HIDE DEF Holds
    <3> QED
      BY <1>3, SpotsAre
  <2>9. w \in [DOMAIN sent -> Spots(program)]
    BY <1>4, <2>1
  <2> HIDE DEF Holds
  <2> QED
    BY <2>2, <2>3, <2>4, <2>5, <2>6, <2>7, <2>8, <2>9 DEF Good, Placed, Flows
<1>5. GoodInv
  BY <1>4 DEF GoodInv
<1> QED
  BY <1>1, <1>5 DEF Inv

(* Every step keeps the invariant. The other actions have no place in such a *)
(* program.                                                                  *)
LEMMA NextInv == Inv /\ [Next]_vars => Inv'
<1> SUFFICES ASSUME Inv, [Next]_vars PROVE Inv'
  OBVIOUS
<1>1. CASE Emit
  BY <1>1, EmitStep
<1>2. CASE Second
  <2>1. UNCHANGED <<program, chan, task, fly, sent, out>> /\ now' \in Nat
    BY <1>2 DEF Second, Inv, TypeInv
  <2> QED
    BY <2>1, OtherSteps
<1>3. ASSUME NEW o \in Ops, Begin(o) PROVE FALSE
  BY <1>3, PassingTask DEF Inv, Begin, Tasks, States
<1>4. ASSUME NEW o \in Ops, Tick(o) \/ RunnerPanics(o) \/ RunnerReturns(o) PROVE FALSE
  <2>1. Kind(o) \in Passings
    BY PassingTask DEF Inv
  <2>2. ~TimeWindow(Kind(o)) /\ Kind(o) # "runner"
    BY <2>1, Loop
  <2> QED
    BY <1>4, <2>2 DEF Tick, RunnerPanics, RunnerReturns
<1>5. ASSUME NEW o \in Ops, Send(o) PROVE Inv'
  BY <1>5, SendStep
<1>6. ASSUME NEW o \in Ops, SendInParallel(o) PROVE Inv'
  BY <1>6, SendInParallelStep
<1>7. ASSUME NEW o \in Ops, Restart(o) PROVE Inv'
  BY <1>7, RestartStep
<1>8. ASSUME NEW o \in Ops, NEW port \in Ports(Kind(o)), Receive(o, port) PROVE Inv'
  BY <1>8, ReceiveStep
<1>9. ASSUME NEW o \in Ops, SendPanics(o) PROVE Inv'
  BY <1>9, SendPanicsStep
<1>10. ASSUME NEW o \in Ops, NEW port \in Ports(Kind(o)), ReceivePanics(o, port) PROVE Inv'
  BY <1>10, ReceivePanicsStep
<1>11. CASE UNCHANGED vars
  <2>1. UNCHANGED <<program, chan, task, fly, sent, out>> /\ now' \in Nat
    BY <1>11 DEF vars, Inv, TypeInv
  <2> QED
    BY <2>1, OtherSteps
<1> QED
  BY <1>1, <1>2, <1>3, <1>4, <1>5, <1>6, <1>7, <1>8, <1>9, <1>10, <1>11 DEF Next, Step

(* The invariant implies the property. *)
LEMMA InvImplies == Inv => InOrderOnce
<1> SUFFICES ASSUME Inv, NEW i \in DOMAIN out, NEW j \in DOMAIN out, i < j
             PROVE  /\ out[i].msg # out[j].msg
                    /\ ~Parallel /\ EntryOf(out[i].msg[1]) = EntryOf(out[j].msg[1]) =>
                         out[i].msg[1].n < out[j].msg[1].n
  BY Zenon DEF InOrderOnce
<1>1. PICK w : Good(program, sent, w, chan, Holds, out)
  BY DEF Inv, GoodInv
<1>2. PlacedOut(sent, w, out)
  BY <1>1 DEF Good, Placed
<1>3. out[i].msg # out[j].msg
  <2>1. i # j
    BY DEF Inv, TypeInv
  <2> QED
    BY <1>2, <2>1 DEF PlacedOut
<1>4. ASSUME ~Parallel PROVE QueuedOut(sent, out)
  BY <1>1, <1>4 DEF Good, Flows, InSeries, Parallel, Ops
<1> QED
  BY <1>3, <1>4 DEF QueuedOut, EntryOf

(* A program does not change. *)
LEMMA ProgramStays ==
  ASSUME [Next]_vars
  PROVE  program' = program
  BY DEF Next, vars, Emit, Second, Step, Begin, Send, SendInParallel, Restart, Tick, Receive,
         SendPanics, RunnerPanics, RunnerReturns, ReceivePanics

(* Whatever the program of filters, maps and unions, its wiring, its         *)
(* channels, and however often tasks panic: every event comes out at most    *)
(* once, and where no operator is parallel those that went in by one channel *)
(* come out in their order. Programs of other operators are not meant, and a *)
(* program does not change.                                                  *)
THEOREM EachOnceInOrder == Spec => []InOrderOnce
<1>1. Init /\ Passing => Inv
  BY InitInv
<1>3. ~Passing /\ [Next]_vars => ~Passing'
  <2> SUFFICES ASSUME [Next]_vars PROVE Passing' = Passing
    OBVIOUS
  <2>1. program' = program
    BY ProgramStays
  <2> QED
    BY <2>1 DEF Passing, Kinds, Kind, Ops
<1>4. ~Passing => InOrderOnce
  BY DEF InOrderOnce
<1>5. Inv /\ [Next]_vars => Inv'
  BY NextInv
<1>6. Inv => InOrderOnce
  BY InvImplies
<1> QED
  BY <1>1, <1>3, <1>4, <1>5, <1>6, PTL DEF Spec

(* What a set can grow by. *)
LEMMA GrowsBy ==
  ASSUME NEW S, NEW T, NEW D, IsFiniteSet(S), IsFiniteSet(D), T \subseteq S \cup D
  PROVE  /\ IsFiniteSet(T) /\ Cardinality(T) \in Nat /\ Cardinality(S) \in Nat
         /\ Cardinality(D) \in Nat /\ Cardinality(T) <= Cardinality(S) + Cardinality(D)
<1> DEFINE U == S \cup D
<1>1. /\ IsFiniteSet(U) /\ Cardinality(U) = Cardinality(S) + Cardinality(D) - Cardinality(S \cap D)
  BY FS_Union
<1>2. IsFiniteSet(S \cap D)
  BY FS_Intersection
<1> HIDE DEF U
<1>3. IsFiniteSet(T) /\ Cardinality(T) <= Cardinality(U)
  BY <1>1, FS_Subset DEF U
<1>4. /\ Cardinality(T) \in Nat /\ Cardinality(S) \in Nat /\ Cardinality(D) \in Nat
      /\ Cardinality(S \cap D) \in Nat /\ Cardinality(U) \in Nat
  BY <1>1, <1>2, <1>3, FS_CardinalityType
<1> QED
  BY <1>1, <1>3, <1>4

-----------------------------------------------------------------------------
(* What filters, maps and unions lose. A message is in a channel, held by a  *)
(* task or a task of its own, or has come out.                               *)
Queues(m) == \E c \in Channels(program) : \E i \in DOMAIN chan[c] : chan[c][i] = m
Kept(m)   == \E d \in Ops : m \in ToSet(task[d].pend) \/ m \in fly[d]
Out(m)    == \E i \in DOMAIN out : out[i].msg = m
Somewhere(m) == Queues(m) \/ Kept(m) \/ Out(m)

(* An event is lost when its message is nowhere and no filter dropped it. *)
LEMMA LostSingles ==
  ASSUME TypeInv
  PROVE  Lost = {e \in SentEvents : ~Dropped(e) /\ ~Somewhere(<<e>>)}
<1>1. /\ DOMAIN chan = Channels(program) /\ \A c \in Channels(program) : chan[c] \in Seq(Single)
      /\ \A d \in Ops : /\ task[d].pend \in Seq(Single) /\ task[d].buf = <<>>
                        /\ fly[d] \subseteq Single
      /\ out \in Seq([from : Ops, msg : Single])
  BY DEF TypeInv, Tasks
<1> DEFINE Q == UNION {ToSet(chan[c]) : c \in DOMAIN chan}
           held(d) == ToSet(task[d].pend) \cup fly[d] \cup {x.msg : x \in ToSet(task[d].buf)}
           K == UNION {held(d) : d \in Ops}
           R == {x.msg : x \in ToSet(out)}
<1>2. Messages = Q \cup K \cup R
  BY DEF Messages
<1>3. \A d \in Ops : held(d) = ToSet(task[d].pend) \cup fly[d]
  BY <1>1, SetOfOne
<1>4. \A m : m \in Q <=> Queues(m)
  <2>1. \A c \in Channels(program) : ToSet(chan[c]) = {chan[c][i] : i \in DOMAIN chan[c]}
    BY DEF ToSet
  <2> QED
    BY <1>1, <2>1 DEF Queues
<1>5. \A m : m \in K <=> Kept(m)
  <2> HIDE DEF held
  <2>1. \A m : m \in K <=> \E d \in Ops : m \in held(d)
    OBVIOUS
  <2> QED
    BY <1>3, <2>1 DEF Kept
<1>6. \A m : m \in R <=> Out(m)
  <2>1. ToSet(out) = {out[i] : i \in DOMAIN out}
    BY DEF ToSet
  <2> QED
    BY <2>1 DEF Out
<1> HIDE DEF Q, K, R
<1>7. \A m : m \in Messages <=> Somewhere(m)
  BY <1>2, <1>4, <1>5, <1>6 DEF Somewhere
<1>8. Messages \subseteq Single
  <2>1. \A m : Queues(m) => m \in Single
    BY <1>1 DEF Queues
  <2>2. \A m : Kept(m) => m \in Single
    <3>1. \A d \in Ops : ToSet(task[d].pend) \subseteq Single
      <4>1. \A q \in Seq(Single) : ToSet(q) \subseteq Single
        BY DEF ToSet
      <4> QED
        BY <1>1, <4>1
    <3> QED
      BY <1>1, <3>1 DEF Kept
  <2>3. \A m : Out(m) => m \in Single
    <3> DEFINE L == [from : Ops, msg : Single]
    <3>1. \A x \in L : x.msg \in Single
      OBVIOUS
    <3>2. out \in Seq(L)
      BY <1>1
    <3> HIDE DEF L
    <3>3. \A i \in DOMAIN out : out[i] \in L
      BY <3>2
    <3> QED
      BY <3>1, <3>3 DEF Out
  <2> QED
    BY <1>7, <2>1, <2>2, <2>3 DEF Somewhere
<1>9. \A e : (\E m \in Messages : e \in ToSet(m)) <=> <<e>> \in Messages
  <2>1. ASSUME NEW e, NEW m \in Single PROVE e \in ToSet(m) <=> m = <<e>>
    <3>1. PICK d \in Event : m = <<d>>
      BY <2>1 DEF Single
    <3>2. ToSet(m) = {d}
      BY <3>1, SetOfOne
    <3> QED
      BY <3>1, <3>2
  <2> QED
    BY <1>8, <2>1
<1> QED
  BY <1>7, <1>9 DEF Lost

(* A message taken from a channel leaves the others there. *)
LEMMA QueuesTake ==
  ASSUME TypeInv, NEW c \in Channels(program), chan[c] # <<>>, UNCHANGED program,
         chan' = [chan EXCEPT ![c] = Tail(chan[c])], NEW m, Queues(m)
  PROVE  m = Head(chan[c]) \/ Queues(m)'
<1>1. PICK d \in Channels(program) : \E i \in DOMAIN chan[d] : chan[d][i] = m
  BY DEF Queues
<1>2. PICK i \in DOMAIN chan[d] : chan[d][i] = m
  BY <1>1
<1>3. chan[d] \in Seq(Single) /\ chan'[d] = IF d = c THEN Tail(chan[c]) ELSE chan[d]
  BY DEF TypeInv
<1>4. CASE d # c
  BY <1>2, <1>3, <1>4 DEF Queues
<1>5. CASE d = c
  <2> DEFINE q == chan[c]
  <2>1. q \in Seq(Single) /\ q # <<>> /\ i \in DOMAIN q /\ q[i] = m /\ chan'[c] = Tail(q)
    BY <1>2, <1>3, <1>5
  <2>2. chan'[c] = Tail(q)
    BY <2>1
  <2> HIDE DEF q
  <2>3. i = 1 \/ (i - 1 \in DOMAIN Tail(q) /\ Tail(q)[i - 1] = q[i])
    BY <2>1
  <2>4. i = 1 => m = Head(q)
    BY <2>1
  <2> QED
    BY <2>1, <2>2, <2>3, <2>4 DEF Queues, q
<1> QED
  BY <1>4, <1>5

(* One put there joins the others. *)
LEMMA QueuesPut ==
  ASSUME TypeInv, NEW c \in Channels(program), NEW k \in Single, UNCHANGED program,
         chan' = [chan EXCEPT ![c] = Append(chan[c], k)], NEW m, Queues(m) \/ m = k
  PROVE  Queues(m)'
<1> DEFINE q == chan[c]
           r == Append(q, k)
<1>1. q \in Seq(Single) /\ chan'[c] = r /\ \A d \in Channels(program) : d # c => chan'[d] = chan[d]
  BY DEF TypeInv
<1>2. /\ Len(r) \in DOMAIN r /\ r[Len(r)] = k
      /\ \A i \in DOMAIN q : i \in DOMAIN r /\ r[i] = q[i]
  <2> HIDE DEF q
  <2> QED
    BY <1>1
<1> HIDE DEF r
<1>3. CASE m = k
  BY <1>1, <1>2, <1>3 DEF Queues
<1>4. CASE Queues(m)
  <2>1. PICK d \in Channels(program) : \E i \in DOMAIN chan[d] : chan[d][i] = m
    BY <1>4 DEF Queues
  <2>2. CASE d # c
    BY <1>1, <2>1, <2>2 DEF Queues
  <2>3. CASE d = c
    BY <1>1, <1>2, <2>1, <2>3 DEF Queues
  <2> QED
    BY <2>2, <2>3
<1> QED
  BY <1>3, <1>4

(* So does one that comes out. *)
LEMMA OutPut ==
  ASSUME TypeInv, NEW o \in Ops, NEW k \in Single,
         out' = Append(out, [from |-> o, msg |-> k]), NEW m, Out(m) \/ m = k
  PROVE  Out(m)'
<1> DEFINE L == [from : Ops, msg : Single]
           x == [from |-> o, msg |-> k]
<1>1. out \in Seq(L) /\ x \in L /\ x.msg = k /\ out' = Append(out, x)
  BY DEF TypeInv
<1> HIDE DEF L, x
<1>2. /\ Len(out') \in DOMAIN out' /\ out'[Len(out')] = x
      /\ \A i \in DOMAIN out : i \in DOMAIN out' /\ out'[i] = out[i]
  BY <1>1
<1> QED
  BY <1>1, <1>2 DEF Out

(* What is delivered is in a channel or out. *)
LEMMA DeliverKeeps ==
  ASSUME TypeInv, NEW o \in Ops, NEW k \in Single, Deliver(o, k), UNCHANGED program,
         NEW m, Queues(m) \/ Out(m) \/ m = k
  PROVE  Queues(m)' \/ Out(m)'
<1>1. CASE program[o].to = Sink
  <2>1. out' = Append(out, [from |-> o, msg |-> k]) /\ UNCHANGED chan
    BY <1>1 DEF Deliver
  <2>2. Queues(m) => Queues(m)'
    BY <2>1 DEF Queues
  <2> QED
    BY <2>1, <2>2, OutPut
<1>2. CASE program[o].to # Sink
  <2>1. UNCHANGED out
    BY <1>2 DEF Deliver
  <2>2. program[o].to \in Channels(program)
    <3>1. program \in Programs /\ o \in DOMAIN program
      BY DEF TypeInv, Ops
    <3> QED
      BY <1>2, <3>1, StreamAssumption
  <2>3. chan' = [chan EXCEPT ![program[o].to] = Append(chan[program[o].to], k)]
    BY <1>2 DEF Deliver
  <2>4. Out(m) => Out(m)'
    BY <2>1 DEF Out
  <2>5. Queues(m) \/ m = k => Queues(m)'
    BY <2>2, <2>3, QueuesPut
  <2> QED
    BY <2>4, <2>5
<1> QED
  BY <1>1, <1>2

(* Only the task that changes may give up a message, and only what it was to *)
(* send.                                                                     *)
LEMMA KeptBut ==
  ASSUME NEW o \in Ops, UNCHANGED program, \A d \in Ops : d # o => task'[d] = task[d],
         \A d \in Ops : fly[d] \subseteq fly'[d], NEW m, Kept(m)
  PROVE  m \in ToSet(task[o].pend) \/ Kept(m)'
<1>1. Ops' = Ops
  BY DEF Ops
<1>2. PICK d \in Ops : m \in ToSet(task[d].pend) \/ m \in fly[d]
  BY DEF Kept
<1>3. CASE m \in fly[d]
  <2>1. m \in fly'[d]
    BY <1>3
  <2> QED
    BY <1>1, <2>1 DEF Kept
<1>4. CASE m \in ToSet(task[d].pend) /\ d # o
  <2>1. m \in ToSet(task'[d].pend)
    BY <1>4
  <2>2. \E x \in Ops : m \in ToSet(task'[x].pend)
    BY <2>1
  <2>3. \A x : ToSet(task[x].pend)' = ToSet(task'[x].pend)
    BY DEF ToSet
  <2> QED
    BY <1>1, <2>2, <2>3 DEF Kept
<1> QED
  BY <1>2, <1>3, <1>4

(* Emit loses nothing, and sends one event into a channel. *)
LEMMA EmitLoses ==
  ASSUME TypeInv, Emit
  PROVE  /\ UNCHANGED <<program, panics>>
         /\ \A m : Somewhere(m) => Somewhere(m)'
         /\ \A e \in SentEvents' : e \in SentEvents \/ Somewhere(<<e>>)'
<1>1. PICK c \in Sources, class \in Classes :
        /\ chan' = [chan EXCEPT ![c] =
                       Append(chan[c], <<[n |-> Len(sent) + 1, class |-> class]>>)]
        /\ sent' = Append(sent, [e |-> [n |-> Len(sent) + 1, class |-> class], c |-> c])
  BY DEF Emit
<1> DEFINE e == [n |-> Len(sent) + 1, class |-> class]
           k == <<e>>
           x == [e |-> e, c |-> c]
           L == [e : Event, c : Channels(program)]
<1>2. c \in Channels(program) /\ UNCHANGED <<program, task, fly, panics, out>>
  BY DEF Sources, Emit
<1>3. sent \in Seq(L) /\ Len(sent) + 1 \in Nat
  BY DEF TypeInv
<1>4. k \in Single /\ x \in L /\ x.e = e
  BY <1>2, <1>3 DEF Event, Single
<1>5. chan' = [chan EXCEPT ![c] = Append(chan[c], k)] /\ sent' = Append(sent, x)
  BY <1>1
<1>6. k = <<e>>
  OBVIOUS
<1> HIDE DEF k, x, L, e
<1>7. \A m : Queues(m) \/ m = k => Queues(m)'
  BY <1>2, <1>4, <1>5, QueuesPut
<1>8. \A m : Kept(m) => Kept(m)'
  BY <1>2 DEF Kept, Ops, ToSet
<1>9. \A m : Out(m) => Out(m)'
  BY <1>2 DEF Out
<1>10. \A d \in SentEvents' : d \in SentEvents \/ d = e
  <2>1. \A i \in DOMAIN sent' : (i \in DOMAIN sent /\ sent'[i] = sent[i]) \/ sent'[i] = x
    BY <1>3, <1>4, <1>5
  <2> QED
    BY <1>4, <2>1 DEF SentEvents
<1> QED
  BY <1>2, <1>6, <1>7, <1>8, <1>9, <1>10 DEF Somewhere

(* What is received is on its way, but for what a filter drops. *)
LEMMA ReceiveLoses ==
  ASSUME TypeInv, NEW o \in Ops, NEW port \in Ports(Kind(o)), Receive(o, port)
  PROVE  /\ UNCHANGED <<program, panics, sent>>
         /\ \A m : Somewhere(m) => Somewhere(m)' \/ Dropped(m[1])
<1> DEFINE c == <<o, port>>
           k == Head(chan[c])
           r == Process(o, task[o].buf, port, k)
<1>1. /\ c \in Channels(program) /\ chan[c] # <<>> /\ task[o].at = "wait"
      /\ chan' = [chan EXCEPT ![c] = Tail(chan[c])]
      /\ UNCHANGED <<program, panics, sent, out>>
  BY PortChannel DEF Receive
<1>2. IF program[o].par
      THEN fly' = [fly EXCEPT ![o] = fly[o] \cup ToSet(r.send)] /\ task' = task
      ELSE /\ task' = [task EXCEPT ![o].at = After(o, r.send), ![o].pend = r.send,
                          ![o].buf = r.buf]
           /\ fly' = fly
  BY DEF Receive
<1>3. /\ Kind(o) \in Passings /\ task[o].pend = <<>> /\ DOMAIN task = Ops /\ DOMAIN fly = Ops
      /\ Ops' = Ops
  BY <1>1, PassingTask DEF TypeInv, Ops
<1>4. r.send = IF Kind(o) = "filter" /\ ~Passes(k) THEN <<>> ELSE <<k>>
  <2> HIDE DEF k
  <2> QED
    BY <1>3, Loop DEF Process, Forward, Passings
<1>5. \A m : Queues(m) => m = k \/ Queues(m)'
  <2> HIDE DEF c
  <2> QED
    BY <1>1, QueuesTake
<1>6. \A m : Out(m) => Out(m)'
  BY <1>1 DEF Out
<1>7. \A m : Kept(m) => Kept(m)'
  <2>1. (\A d \in Ops : d # o => task'[d] = task[d]) /\ \A d \in Ops : fly[d] \subseteq fly'[d]
    <3> HIDE DEF r
    <3> QED
      BY <1>2, <1>3
  <2>2. ToSet(task[o].pend) = {}
    BY <1>3, SetOfOne
  <2> QED
    BY <1>1, <2>1, <2>2, KeptBut
<1>8. CASE Kind(o) = "filter" /\ ~Passes(k)
  <2>1. Dropped(k[1])
    BY <1>8 DEF Dropped, Kinds, Passes, Class
  <2> HIDE DEF k
  <2> QED
    BY <1>1, <1>5, <1>6, <1>7, <2>1 DEF Somewhere
<1>9. CASE ~(Kind(o) = "filter" /\ ~Passes(k))
  <2>1. ToSet(r.send) = {k} /\ r.send = <<k>>
    BY <1>4, <1>9, SetOfOne
  <2>2. ASSUME NEW m, m = k PROVE Kept(m)'
    <3> HIDE DEF r, k
    <3>1. CASE program[o].par
      <4>1. m \in fly'[o]
        BY <1>2, <1>3, <2>1, <2>2, <3>1
      <4> QED
        BY <1>3, <4>1 DEF Kept
    <3>2. CASE ~program[o].par
      <4>1. task'[o].pend = r.send
        <5> DEFINE at == After(o, r.send)
                   buf == r.buf
                   send == r.send
        <5>1. task' = [task EXCEPT ![o].at = at, ![o].pend = send, ![o].buf = buf]
          BY <1>2, <3>2
        <5>2. task[o] \in Tasks
          BY <1>1, PassingTask
        <5> HIDE DEF at, buf, send
        <5>3. task'[o].pend = send
          BY <1>3, <5>1, <5>2 DEF Tasks
        <5> QED
          BY <5>3 DEF send
      <4>2. m \in ToSet(task'[o].pend)
        BY <2>1, <2>2, <4>1
      <4>3. ToSet(task'[o].pend) = ToSet(task[o].pend)'
        BY DEF ToSet
      <4> QED
        BY <1>3, <4>2, <4>3 DEF Kept
    <3> QED
      BY <3>1, <3>2
  <2> HIDE DEF k, r
  <2> QED
    BY <1>1, <1>5, <1>6, <1>7, <2>2 DEF Somewhere
<1> QED
  BY <1>8, <1>9

(* A message that is sent is in the next channel, or out. *)
LEMMA SendLoses ==
  ASSUME TypeInv, NEW o \in Ops, Send(o)
  PROVE  UNCHANGED <<program, panics, sent>> /\ \A m : Somewhere(m) => Somewhere(m)'
<1>1. /\ task[o].at = "send" /\ Deliver(o, Head(task[o].pend))
      /\ UNCHANGED <<program, fly, panics, sent>>
      /\ task' = [task EXCEPT ![o].at = After(o, Tail(task[o].pend)),
                     ![o].pend = Tail(task[o].pend)]
  BY DEF Send
<1>2. /\ task[o].pend = <<Head(task[o].pend)>> /\ Head(task[o].pend) \in Single
      /\ DOMAIN task = Ops
  BY <1>1, PassingTask
<1>3. ToSet(task[o].pend) = {Head(task[o].pend)}
  BY <1>2, SetOfOne
<1>4. \A d \in Ops : d # o => task'[d] = task[d]
  <2> DEFINE at == After(o, Tail(task[o].pend))
             pend == Tail(task[o].pend)
  <2>1. task' = [task EXCEPT ![o].at = at, ![o].pend = pend]
    BY <1>1
  <2> HIDE DEF at, pend
  <2> QED
    BY <1>2, <2>1
<1>5. \A m : Kept(m) => Kept(m)' \/ m = Head(task[o].pend)
  BY <1>1, <1>3, <1>4, KeptBut
<1>6. \A m : Queues(m) \/ Out(m) \/ m = Head(task[o].pend) => Queues(m)' \/ Out(m)'
  BY <1>1, <1>2, DeliverKeeps
<1> QED
  BY <1>1, <1>5, <1>6 DEF Somewhere

(* The same of a task of its own. *)
LEMMA SendInParallelLoses ==
  ASSUME TypeInv, NEW o \in Ops, SendInParallel(o)
  PROVE  UNCHANGED <<program, panics, sent>> /\ \A m : Somewhere(m) => Somewhere(m)'
<1>1. PICK k \in fly[o] : Deliver(o, k) /\ fly' = [fly EXCEPT ![o] = fly[o] \ {k}]
  BY DEF SendInParallel
<1>2. UNCHANGED <<program, task, panics, sent>> /\ Ops' = Ops
  BY DEF SendInParallel, Ops
<1>3. k \in Single /\ DOMAIN fly = Ops
  BY DEF TypeInv
<1>4. \A m : Kept(m) => Kept(m)' \/ m = k
  <2>1. \A m : \A d \in Ops : m \in fly[d] => m = k \/ m \in fly'[d]
    BY <1>1, <1>3
  <2> QED
    BY <1>2, <2>1 DEF Kept, ToSet
<1>5. \A m : Queues(m) \/ Out(m) \/ m = k => Queues(m)' \/ Out(m)'
  BY <1>1, <1>2, <1>3, DeliverKeeps
<1> QED
  BY <1>2, <1>4, <1>5 DEF Somewhere

(* A panic on a received message loses that message, *)
LEMMA ReceivePanicsLoses ==
  ASSUME TypeInv, NEW o \in Ops, NEW port \in Ports(Kind(o)), ReceivePanics(o, port)
  PROVE  /\ UNCHANGED <<program, sent>> /\ panics' = panics + 1
         /\ \E k : \A m : Somewhere(m) => m = k \/ Somewhere(m)'
<1> DEFINE c == <<o, port>>
<1>1. /\ c \in Channels(program) /\ chan[c] # <<>> /\ task[o].at = "wait"
      /\ chan' = [chan EXCEPT ![c] = Tail(chan[c])]
      /\ UNCHANGED <<program, fly, sent, out>> /\ panics' = panics + 1
      /\ UNCHANGED task \/ Down(o)
  BY PortChannel DEF ReceivePanics
<1>2. task[o].pend = <<>> /\ DOMAIN task = Ops
  BY <1>1, PassingTask
<1>3. \A m : Queues(m) => m = Head(chan[c]) \/ Queues(m)'
  <2> HIDE DEF c
  <2> QED
    BY <1>1, QueuesTake
<1>4. \A m : Kept(m) => Kept(m)'
  <2>1. \A d \in Ops : d # o => task'[d] = task[d]
    BY <1>1, <1>2 DEF Down
  <2>2. ToSet(task[o].pend) = {}
    BY <1>2, SetOfOne
  <2> QED
    BY <1>1, <2>1, <2>2, KeptBut
<1>5. \A m : Out(m) => Out(m)'
  BY <1>1 DEF Out
<1>6. \A m : Somewhere(m) => m = Head(chan[c]) \/ Somewhere(m)'
  BY <1>3, <1>4, <1>5 DEF Somewhere
<1> QED
  BY <1>1, <1>6

(* ... and one as it sends loses what it was sending. *)
LEMMA SendPanicsLoses ==
  ASSUME TypeInv, NEW o \in Ops, SendPanics(o)
  PROVE  /\ UNCHANGED <<program, sent>> /\ panics' = panics + 1
         /\ \E k : \A m : Somewhere(m) => m = k \/ Somewhere(m)'
<1>1. UNCHANGED <<program, chan, sent, out>> /\ panics' = panics + 1 /\ Ops' = Ops
  BY DEF SendPanics, Ops
<1>2. \A m : Queues(m) \/ Out(m) => Queues(m)' \/ Out(m)'
  BY <1>1 DEF Queues, Out
<1>3. DOMAIN task = Ops /\ DOMAIN fly = Ops
  BY DEF TypeInv
<1>4. CASE task[o].at = "send" /\ Down(o) /\ UNCHANGED fly
  <2>1. task[o].pend = <<Head(task[o].pend)>>
    BY <1>4, PassingTask
  <2>2. ToSet(task[o].pend) = {Head(task[o].pend)}
    BY <2>1, SetOfOne
  <2>3. \A d \in Ops : d # o => task'[d] = task[d]
    BY <1>3, <1>4 DEF Down
  <2>4. \A m : Kept(m) => m = Head(task[o].pend) \/ Kept(m)'
    BY <1>1, <1>4, <2>2, <2>3, KeptBut
  <2>5. \A m : Somewhere(m) => m = Head(task[o].pend) \/ Somewhere(m)'
    BY <1>2, <2>4 DEF Somewhere
  <2> QED
    BY <1>1, <2>5
<1>5. CASE (\E k \in fly[o] : fly' = [fly EXCEPT ![o] = @ \ {k}]) /\ UNCHANGED task
  <2>1. PICK k \in fly[o] : fly' = [fly EXCEPT ![o] = fly[o] \ {k}]
    BY <1>5
  <2>2. \A m : \A d \in Ops : m \in fly[d] => m = k \/ m \in fly'[d]
    BY <1>3, <2>1
  <2>3. \A m : Kept(m) => m = k \/ Kept(m)'
    BY <1>1, <1>5, <2>2 DEF Kept, ToSet
  <2>4. \A m : Somewhere(m) => m = k \/ Somewhere(m)'
    BY <1>2, <2>3 DEF Somewhere
  <2> QED
    BY <1>1, <2>4
<1> QED
  BY <1>4, <1>5 DEF SendPanics

(* A task that is restarted holds nothing. *)
LEMMA RestartLoses ==
  ASSUME TypeInv, NEW o \in Ops, Restart(o)
  PROVE  UNCHANGED <<program, panics, sent>> /\ \A m : Somewhere(m) => Somewhere(m)'
<1>1. task[o].at = "down" /\ UNCHANGED <<program, chan, fly, panics, sent, out>>
      /\ task' = [task EXCEPT ![o] = Fresh(Kind(o), now, task[o].backoff)]
  BY DEF Restart
<1>2. task[o].pend = <<>> /\ DOMAIN task = Ops
  BY <1>1, PassingTask
<1>3. \A d \in Ops : d # o => task'[d] = task[d]
  BY <1>1, <1>2
<1>4. \A m : Kept(m) => Kept(m)'
  <2>1. ToSet(task[o].pend) = {}
    BY <1>2, SetOfOne
  <2> QED
    BY <1>1, <1>3, <2>1, KeptBut
<1>5. \A m : Queues(m) \/ Out(m) => Queues(m)' \/ Out(m)'
  BY <1>1 DEF Queues, Out
<1> QED
  BY <1>1, <1>4, <1>5 DEF Somewhere

(* Each step loses what a filter drops, and one message if it is a panic. *)
LEMMA NextLoses ==
  ASSUME TypeInv, [Next]_vars
  PROVE  /\ UNCHANGED program
         /\ \A e \in SentEvents' : e \in SentEvents \/ Somewhere(<<e>>)'
         /\ \/ /\ panics' = panics
               /\ \A m : Somewhere(m) => Somewhere(m)' \/ Dropped(m[1])
            \/ /\ panics' = panics + 1
               /\ \E k : \A m : Somewhere(m) => m = k \/ Somewhere(m)'
<1>1. UNCHANGED sent => \A e \in SentEvents' : e \in SentEvents
  BY DEF SentEvents
<1>2. ASSUME UNCHANGED <<program, chan, task, fly, out>> PROVE \A m : Somewhere(m) => Somewhere(m)'
  BY <1>2 DEF Somewhere, Queues, Kept, Out, Ops, ToSet
<1>3. CASE Emit
  BY <1>3, EmitLoses
<1>4. CASE Second
  BY <1>1, <1>2, <1>4 DEF Second
<1>5. ASSUME NEW o \in Ops, Begin(o) PROVE FALSE
  BY <1>5, PassingTask DEF Begin, Tasks, States
<1>6. ASSUME NEW o \in Ops, Tick(o) \/ RunnerPanics(o) \/ RunnerReturns(o) PROVE FALSE
  <2>1. ~TimeWindow(Kind(o)) /\ Kind(o) # "runner"
    BY PassingTask, Loop
  <2> QED
    BY <1>6, <2>1 DEF Tick, RunnerPanics, RunnerReturns
<1>7. CASE \E o \in Ops : Send(o) \/ SendInParallel(o) \/ Restart(o)
  BY <1>1, <1>7, SendLoses, SendInParallelLoses, RestartLoses
<1>8. CASE \E o \in Ops : \E port \in Ports(Kind(o)) : Receive(o, port)
  BY <1>1, <1>8, ReceiveLoses
<1>9. CASE \E o \in Ops : SendPanics(o)
  BY <1>1, <1>9, SendPanicsLoses
<1>10. CASE \E o \in Ops : \E port \in Ports(Kind(o)) : ReceivePanics(o, port)
  BY <1>1, <1>10, ReceivePanicsLoses
<1>11. CASE UNCHANGED vars
  BY <1>1, <1>2, <1>11 DEF vars
<1> QED
  BY <1>3, <1>4, <1>5, <1>6, <1>7, <1>8, <1>9, <1>10, <1>11 DEF Next, Step

(* No more is lost than there were panics. *)
PassingLoss == Inv /\ panics \in Nat /\ IsFiniteSet(Lost) /\ Cardinality(Lost) <= panics

(* What LostSingles says of a state. *)
LostAsSingles == TypeInv => Lost = {e \in SentEvents : ~Dropped(e) /\ ~Somewhere(<<e>>)}

(* It says it of the next state too. *)
LEMMA LostSinglesNext == LostAsSingles'
<1>1. LostAsSingles
  BY LostSingles DEF LostAsSingles
<1> QED
  BY <1>1, PTL

(* A step loses at most one event, and none unless it is a panic. *)
LEMMA PassingLossKept == PassingLoss /\ [Next]_vars => PassingLoss'
<1> SUFFICES ASSUME PassingLoss, [Next]_vars PROVE PassingLoss'
  OBVIOUS
<1>1. /\ Inv /\ Inv' /\ TypeInv /\ TypeInv' /\ panics \in Nat
      /\ IsFiniteSet(Lost) /\ Cardinality(Lost) <= panics
  BY NextInv DEF PassingLoss, Inv
<1>2. /\ UNCHANGED program
      /\ \A e \in SentEvents' : e \in SentEvents \/ Somewhere(<<e>>)'
      /\ \/ /\ panics' = panics
            /\ \A m : Somewhere(m) => Somewhere(m)' \/ Dropped(m[1])
         \/ /\ panics' = panics + 1
            /\ \E k : \A m : Somewhere(m) => m = k \/ Somewhere(m)'
  BY <1>1, NextLoses
<1>3. Lost = {e \in SentEvents : ~Dropped(e) /\ ~Somewhere(<<e>>)}
  BY <1>1, LostSingles
<1>4. Lost' = {e \in SentEvents' : ~Dropped(e) /\ ~Somewhere(<<e>>)'}
  <2>1. \A e : Dropped(e)' <=> Dropped(e)
    BY <1>2 DEF Dropped, Kinds, Kind, Ops
  <2>2. Lost' = {e \in SentEvents' : ~Dropped(e)' /\ ~Somewhere(<<e>>)'}
    BY <1>1, LostSinglesNext DEF LostAsSingles
  <2> QED
    BY <2>1, <2>2
<1>5. \A e : <<e>>[1] = e
  OBVIOUS
<1>6. CASE /\ panics' = panics
           /\ \A m : Somewhere(m) => Somewhere(m)' \/ Dropped(m[1])
  <2>1. \A e : Somewhere(<<e>>) => Somewhere(<<e>>)' \/ Dropped(e)
    BY <1>5, <1>6
  <2> DEFINE S == Lost
             T == Lost'
  <2>2. T \subseteq S
    BY <1>2, <1>3, <1>4, <2>1
  <2>3. IsFiniteSet(S) /\ Cardinality(S) <= panics
    BY <1>1
  <2> HIDE DEF S, T
  <2>4. /\ IsFiniteSet(T) /\ Cardinality(T) <= Cardinality(S)
        /\ Cardinality(S) \in Nat /\ Cardinality(T) \in Nat
    BY <2>2, <2>3, FS_Subset, FS_CardinalityType
  <2>5. Cardinality(T) <= panics'
    BY <1>1, <1>6, <2>3, <2>4
  <2>6. panics' \in Nat
    BY <1>1, <1>6
  <2> QED
    BY <1>1, <2>4, <2>5, <2>6 DEF PassingLoss, T
<1>7. CASE /\ panics' = panics + 1
           /\ \E k : \A m : Somewhere(m) => m = k \/ Somewhere(m)'
  <2>1. PICK k : \A m : Somewhere(m) => m = k \/ Somewhere(m)'
    BY <1>7
  <2>2. \A e : Somewhere(<<e>>) => e = k[1] \/ Somewhere(<<e>>)'
    BY <1>5, <2>1
  <2> DEFINE S == Lost
             T == Lost'
             D == {k[1]}
  <2>3. T \subseteq S \cup D
    BY <1>2, <1>3, <1>4, <2>2
  <2>4. IsFiniteSet(S) /\ Cardinality(S) <= panics
    BY <1>1
  <2>5. IsFiniteSet(D) /\ Cardinality(D) = 1
    BY FS_Singleton
  <2> HIDE DEF S, T, D
  <2>6. /\ IsFiniteSet(T) /\ Cardinality(T) \in Nat /\ Cardinality(S) \in Nat
        /\ Cardinality(T) <= Cardinality(S) + Cardinality(D)
    BY <2>3, <2>4, <2>5, GrowsBy
  <2>7. Cardinality(T) <= panics' /\ panics' \in Nat
    BY <1>1, <1>7, <2>4, <2>5, <2>6
  <2> QED
    BY <1>1, <2>6, <2>7 DEF PassingLoss, T
<1> QED
  BY <1>2, <1>6, <1>7

(* Nothing is sent or lost at first. *)
LEMMA PassingLossInit == Init /\ Passing => PassingLoss
<1> SUFFICES ASSUME Init, Passing PROVE PassingLoss
  OBVIOUS
<1> DEFINE lost == Lost
<1>1. Inv /\ panics = 0
  BY InitInv DEF Init
<1>2. lost = {}
  <2>1. sent = <<>>
    BY DEF Init
  <2>2. SentEvents = {}
    BY <2>1 DEF SentEvents
  <2> QED
    BY <2>2 DEF Lost
<1> HIDE DEF lost
<1>3. IsFiniteSet(lost) /\ Cardinality(lost) = 0
  BY <1>2, FS_EmptySet
<1>4. IsFiniteSet(lost) /\ Cardinality(lost) <= panics /\ panics \in Nat
  BY <1>1, <1>3
<1> QED
  BY <1>1, <1>4 DEF PassingLoss, lost

(* No operator holds more than one event there. *)
LEMMA PassingLossSays == PassingLoss => LossBounded
<1> SUFFICES ASSUME PassingLoss PROVE LossBounded
  OBVIOUS
<1>1. Cardinality(Lost) <= panics /\ panics \in Nat /\ \A o \in Ops : Kind(o) \in Passings
  BY DEF PassingLoss, Inv, TypeInv
<1>2. {x \in Ops : Kind(x) \in {"tumbling", "sliding"}} = {}
  BY <1>1 DEF Passings
<1> DEFINE none == {x \in Ops : Kind(x) \in {"tumbling", "sliding"}}
           S == {1} \cup {program[o].size : o \in none}
<1>3. none = {} /\ MostHeld = Max(S)
  BY <1>2 DEF MostHeld
<1> HIDE DEF none
<1>4. S = {1}
  BY <1>3
<1>5. Max({1}) = 1
  BY DEF Max
<1>6. MostHeld = 1
  BY <1>3, <1>4, <1>5
<1>7. panics * MostHeld = panics
  BY <1>1, <1>6
<1>8. Cardinality(Lost) <= panics * MostHeld
  BY <1>1, <1>7
<1> QED
  BY <1>8 DEF LossBounded

(* Induction: a set that holds 0 and, with every number, the next one, holds all. *)
LEMMA NatBySets ==
  ASSUME NEW T, 0 \in T, \A n \in Nat : n \in T => n + 1 \in T
  PROVE  Nat \subseteq T
<1> DEFINE Less == {p \in Nat \X Nat : p[1] < p[2]}
           Rest == Nat \ T
<1>1. SUFFICES ASSUME Rest # {} PROVE FALSE
  OBVIOUS
<1>2. IsWellFoundedOn(Less, Nat)
  <2>1. OpToRel(<, Nat) = Less
    BY Zenon DEF OpToRel
  <2> HIDE DEF Less
  <2> QED
    BY <2>1, NatLessThanWellFounded, Zenon
<1>3. PICK x \in Rest : \A y \in Rest : <<y, x>> \notin Less
  <2>1. Rest \subseteq Nat
    OBVIOUS
  <2> HIDE DEF Less, Rest
  <2> QED
    BY <1>1, <1>2, <2>1, WFMin
<1>4. x - 1 \in Nat /\ x - 1 \notin T
  OBVIOUS
<1>5. <<x - 1, x>> \in Less
  BY <1>4
<1> QED
  BY <1>3, <1>4, <1>5

(* A function may be defined by its value at 0 and its step from n - 1 to n. *)
LEMMA NatRecursion ==
  ASSUME NEW V, NEW base \in V, NEW N \in Nat, NEW step \in [1..N -> [V -> V]]
  PROVE  \E f \in [0..N -> V] : f[0] = base /\ \A n \in 1..N : f[n] = step[n][f[n - 1]]
<1> DEFINE Upto(n) == \E f \in [0..n -> V] :
                        f[0] = base /\ \A m \in 1..n : f[m] = step[m][f[m - 1]]
           T == {n \in Nat : n <= N => Upto(n)}
<1>1. 0 \in T
  <2> DEFINE f == [m \in 0..0 |-> base]
  <2>1. f \in [0..0 -> V] /\ f[0] = base /\ \A m \in 1..0 : f[m] = step[m][f[m - 1]]
    OBVIOUS
  <2>2. Upto(0)
    <3> HIDE DEF f
    <3> QED
      BY <2>1
  <2> QED
    BY <2>2
<1>2. ASSUME NEW n \in Nat, n \in T PROVE n + 1 \in T
  <2>1. SUFFICES ASSUME n + 1 <= N PROVE Upto(n + 1)
    OBVIOUS
  <2>2. PICK f \in [0..n -> V] : f[0] = base /\ \A m \in 1..n : f[m] = step[m][f[m - 1]]
    BY <1>2, <2>1
  <2> DEFINE g == [m \in 0..(n + 1) |-> IF m = n + 1 THEN step[n + 1][f[n]] ELSE f[m]]
  <2>3. g \in [0..(n + 1) -> V]
    <3>1. step[n + 1][f[n]] \in V
      <4>1. n + 1 \in 1..N /\ f[n] \in V
        BY <2>1, <2>2
      <4> QED
        BY <4>1
    <3> QED
      BY <2>2, <3>1
  <2>4. g[0] = base
    BY <2>2
  <2>5. \A m \in 1..(n + 1) : g[m] = step[m][g[m - 1]]
    <3> SUFFICES ASSUME NEW m \in 1..(n + 1) PROVE g[m] = step[m][g[m - 1]]
      OBVIOUS
    <3>1. CASE m = n + 1
      BY <3>1
    <3>2. CASE m \in 1..n
      BY <2>2, <3>2
    <3> QED
      BY <3>1, <3>2
  <2> HIDE DEF g
  <2> QED
    BY <2>3, <2>4, <2>5
<1>3. N \in T
  <2> HIDE DEF T
  <2> QED
    BY <1>1, <1>2, NatBySets
<1> QED
  BY <1>3

-----------------------------------------------------------------------------
(* What Those gives, for a sequence s. *)

(* The walk of Those: what there is of the first n elements. *)
IsThose(F, s, S) ==
    /\ F[0] = <<>>
    /\ \A n \in 1..Len(s) : F[n] = IF s[n] \in S THEN Append(F[n - 1], s[n]) ELSE F[n - 1]

(* Those is the last value of such a walk. *)
LEMMA ThoseWalk ==
  ASSUME NEW L, NEW s \in Seq(L), NEW S
  PROVE  \E F \in [0..Len(s) -> Seq(L)] : IsThose(F, s, S) /\ Those(s, S) = F[Len(s)]
<1> DEFINE V    == Seq(L)
           N    == Len(s)
           Next1(n, r) == IF s[n] \in S THEN Append(r, s[n]) ELSE r
           step == [n \in 1..N |-> [r \in V |-> Next1(n, r)]]
           Walk1(F) == [n \in 0..N |-> IF n = 0 THEN <<>> ELSE Next1(n, F[n - 1])]
           F    == CHOOSE F : F = Walk1(F)
<1>1. \A n \in 1..N, r \in V : Next1(n, r) \in V
  OBVIOUS
<1>2. step \in [1..N -> [V -> V]]
  <2> HIDE DEF Next1, V
  <2> QED
    BY <1>1
<1>3. N \in Nat /\ <<>> \in V
  OBVIOUS
<1>4. PICK f \in [0..N -> V] : f[0] = <<>> /\ \A n \in 1..N : f[n] = step[n][f[n - 1]]
  <2> DEFINE base == <<>>
  <2>1. base \in V
    BY <1>3
  <2>9. step \in [1..N -> [V -> V]] /\ N \in Nat /\ base \in V
    BY <1>2, <1>3, <2>1
  <2> HIDE DEF step, V, N, base, Next1, Walk1, F
  <2>2. \E f \in [0..N -> V] : f[0] = base /\ \A n \in 1..N : f[n] = step[n][f[n - 1]]
    BY <2>9, NatRecursion
  <2> QED
    BY <2>2 DEF base
<1>5. \A n \in 1..N : f[n] = Next1(n, f[n - 1])
  <2>1. \A n \in 1..N : n - 1 \in 0..N
    BY <1>3
  <2> HIDE DEF Next1, V, N
  <2>2. \A n \in 1..N : f[n - 1] \in V
    BY <1>4, <2>1
  <2> QED
    BY <1>4, <2>2
<1>6. f = Walk1(f)
  <2> HIDE DEF V, Next1
  <2> QED
    BY <1>4, <1>5
<1>7. F = Walk1(F)
  <2> HIDE DEF Walk1
  <2> QED
    BY <1>6
<1>8. F[0] = <<>> /\ \A n \in 1..N : F[n] = Next1(n, F[n - 1])
  <2> HIDE DEF F, Next1
  <2>1. F = [n \in 0..N |-> IF n = 0 THEN <<>> ELSE Next1(n, F[n - 1])]
    BY <1>7
  <2> HIDE DEF N
  <2> QED
    BY <2>1, <1>3
<1> DEFINE T == {n \in Nat : n <= N => F[n] \in V}
<1>9. Nat \subseteq T
  <2> HIDE DEF F, V, Next1
  <2>1. 0 \in T
    BY <1>8, <1>3
  <2>2. ASSUME NEW n \in Nat, n \in T PROVE n + 1 \in T
    BY <2>2, <1>1, <1>8
  <2> HIDE DEF T
  <2> QED
    BY <2>1, <2>2, NatBySets
<1>10. F \in [0..N -> V]
  <2>1. F = [n \in 0..N |-> IF n = 0 THEN <<>> ELSE Next1(n, F[n - 1])]
    BY <1>7
  <2> HIDE DEF F, V, Next1
  <2> QED
    BY <1>9, <2>1
<1>11. Those(s, S) = F[N]
  BY DEF Those
<1> HIDE DEF F
<1> QED
  BY <1>8, <1>10, <1>11 DEF IsThose

(* Those has the elements of s that are in S. *)
LEMMA ThoseMembers ==
  ASSUME NEW L, NEW s \in Seq(L), NEW S
  PROVE  /\ Those(s, S) \in Seq(L)
         /\ \A i \in 1..Len(Those(s, S)) :
              Those(s, S)[i] \in S /\ \E n \in 1..Len(s) : s[n] = Those(s, S)[i]
         /\ \A n \in 1..Len(s) :
              s[n] \in S => \E i \in 1..Len(Those(s, S)) : Those(s, S)[i] = s[n]
<1>1. PICK F \in [0..Len(s) -> Seq(L)] : IsThose(F, s, S) /\ Those(s, S) = F[Len(s)]
  BY ThoseWalk
<1> DEFINE Right(n) == /\ \A i \in 1..Len(F[n]) :
                            F[n][i] \in S /\ \E k \in 1..n : s[k] = F[n][i]
                       /\ \A k \in 1..n : s[k] \in S => \E i \in 1..Len(F[n]) : F[n][i] = s[k]
           T == {n \in Nat : n <= Len(s) => Right(n)}
<1>2. 0 \in T
  BY <1>1 DEF IsThose
<1>3. ASSUME NEW n \in Nat, n \in T PROVE n + 1 \in T
  <2>1. SUFFICES ASSUME n + 1 <= Len(s) PROVE Right(n + 1)
    OBVIOUS
  <2>2. F[n] \in Seq(L) /\ Right(n)
    BY <1>1, <1>3, <2>1
  <2>3. F[n + 1] = IF s[n + 1] \in S THEN Append(F[n], s[n + 1]) ELSE F[n]
    BY <1>1, <2>1 DEF IsThose
  <2>4. CASE s[n + 1] \notin S
    <3>1. F[n + 1] = F[n]
      BY <2>3, <2>4
    <3>2. 1..n \subseteq 1..(n + 1) /\ \A k \in 1..(n + 1) : k \in 1..n \/ k = n + 1
      OBVIOUS
    <3> QED
      BY <2>2, <2>4, <3>1, <3>2
  <2>5. CASE s[n + 1] \in S
    <3>1. /\ F[n + 1] = Append(F[n], s[n + 1]) /\ Len(F[n + 1]) = Len(F[n]) + 1
          /\ Len(F[n]) \in Nat /\ F[n + 1][Len(F[n]) + 1] = s[n + 1]
          /\ \A i \in 1..Len(F[n]) : F[n + 1][i] = F[n][i]
      BY <2>1, <2>2, <2>3, <2>5
    <3>2. \A i \in 1..Len(F[n + 1]) : i \in 1..Len(F[n]) \/ i = Len(F[n]) + 1
      BY <3>1
    <3>3. \A k \in 1..(n + 1) : k \in 1..n \/ k = n + 1
      OBVIOUS
    <3>4. \A i \in 1..Len(F[n + 1]) :
            F[n + 1][i] \in S /\ \E k \in 1..(n + 1) : s[k] = F[n + 1][i]
      <4> SUFFICES ASSUME NEW i \in 1..Len(F[n + 1])
                   PROVE  F[n + 1][i] \in S /\ \E k \in 1..(n + 1) : s[k] = F[n + 1][i]
        OBVIOUS
      <4>1. CASE i = Len(F[n]) + 1
        BY <2>5, <3>1, <4>1
      <4>2. CASE i \in 1..Len(F[n])
        <5>1. PICK k \in 1..n : s[k] = F[n][i]
          BY <2>2, <4>2
        <5>2. k \in 1..(n + 1) /\ F[n + 1][i] = F[n][i] /\ F[n][i] \in S
          BY <2>2, <3>1, <4>2
        <5> QED
          BY <5>1, <5>2
      <4> QED
        BY <3>2, <4>1, <4>2
    <3>5. \A k \in 1..(n + 1) : s[k] \in S => \E i \in 1..Len(F[n + 1]) : F[n + 1][i] = s[k]
      <4> SUFFICES ASSUME NEW k \in 1..(n + 1), s[k] \in S
                   PROVE  \E i \in 1..Len(F[n + 1]) : F[n + 1][i] = s[k]
        OBVIOUS
      <4>1. CASE k = n + 1
        <5>1. Len(F[n]) + 1 \in 1..Len(F[n + 1])
          BY <3>1
        <5> QED
          BY <3>1, <4>1, <5>1
      <4>2. CASE k \in 1..n
        <5>1. PICK i \in 1..Len(F[n]) : F[n][i] = s[k]
          BY <2>2, <4>2
        <5>2. i \in 1..Len(F[n + 1]) /\ F[n + 1][i] = s[k]
          BY <3>1, <5>1
        <5> QED
          BY <5>2
      <4> QED
        BY <3>3, <4>1, <4>2
    <3> QED
      BY <3>4, <3>5
  <2> QED
    BY <2>4, <2>5
<1>4. Len(s) \in T
  <2> HIDE DEF T
  <2> QED
    BY <1>2, <1>3, NatBySets
<1> QED
  BY <1>1, <1>4

-----------------------------------------------------------------------------
(* A list that is part of another. *)

(* Those is a part of the list, in its order: h is where its elements were. *)
PartOf(t, s, h) ==
    /\ h \in [1..Len(t) -> 1..Len(s)]
    /\ \A i \in 1..Len(t) : t[i] = s[h[i]]
    /\ \A i, j \in 1..Len(t) : i < j => h[i] < h[j]

(* What is kept of a list is part of it, in its order. *)
LEMMA ThosePart ==
  ASSUME NEW L, NEW s \in Seq(L), NEW S
  PROVE  \E h : PartOf(Those(s, S), s, h)
<1>1. PICK F \in [0..Len(s) -> Seq(L)] : IsThose(F, s, S) /\ Those(s, S) = F[Len(s)]
  BY ThoseWalk
<1> DEFINE Right(n) == \E h : /\ h \in [1..Len(F[n]) -> 1..n]
                              /\ \A i \in 1..Len(F[n]) : F[n][i] = s[h[i]]
                              /\ \A i, j \in 1..Len(F[n]) : i < j => h[i] < h[j]
           T == {n \in Nat : n <= Len(s) => Right(n)}
<1>2. 0 \in T
  <2>1. Len(F[0]) = 0
    BY <1>1 DEF IsThose
  <2> DEFINE h == [i \in 1..0 |-> 1]
  <2>2. h \in [1..Len(F[0]) -> 1..0]
    BY <2>1
  <2>3. 1..Len(F[0]) = {}
    BY <2>1
  <2> HIDE DEF h
  <2>4. Right(0)
    BY <2>2, <2>3
  <2> QED
    BY <2>4
<1>3. ASSUME NEW n \in Nat, n \in T PROVE n + 1 \in T
  <2> SUFFICES ASSUME n + 1 <= Len(s) PROVE Right(n + 1)
    OBVIOUS
  <2>1. n + 1 \in 1..Len(s) /\ (n + 1) - 1 = n /\ n \in 0..Len(s) /\ n + 1 \in 0..Len(s)
    OBVIOUS
  <2>2. F[n + 1] = IF s[n + 1] \in S THEN Append(F[n], s[n + 1]) ELSE F[n]
    BY <1>1, <2>1 DEF IsThose
  <2> DEFINE a == F[n]
             b == F[n + 1]
             N == Len(a)
  <2>3. PICK h : /\ h \in [1..N -> 1..n]
                 /\ \A i \in 1..N : a[i] = s[h[i]]
                 /\ \A i, j \in 1..N : i < j => h[i] < h[j]
    BY <1>3, <2>1
  <2>4. a \in Seq(L) /\ s[n + 1] \in L
    BY <1>1, <2>1
  <2>5. b = IF s[n + 1] \in S THEN Append(a, s[n + 1]) ELSE a
    BY <2>2
  <2> HIDE DEF a, b
  <2>6. CASE s[n + 1] \in S
    <3> DEFINE g == [i \in 1..(N + 1) |-> IF i = N + 1 THEN n + 1 ELSE h[i]]
    <3>1. /\ N \in Nat /\ Len(b) = N + 1 /\ b[N + 1] = s[n + 1]
          /\ \A i \in 1..N : b[i] = a[i]
      BY <2>4, <2>5, <2>6
    <3>2. \A i \in 1..N : h[i] \in 1..n /\ i \in 1..(N + 1) /\ i # N + 1
      BY <2>3, <3>1
    <3>3. g \in [1..(N + 1) -> 1..(n + 1)]
      BY <3>2
    <3>4. g[N + 1] = n + 1 /\ \A i \in 1..N : g[i] = h[i]
      BY <3>1, <3>2
    <3> HIDE DEF g
    <3>5. \A i \in 1..(N + 1) : i = N + 1 \/ i \in 1..N
      BY <3>1
    <3>6. \A i \in 1..(N + 1) : b[i] = s[g[i]]
      BY <2>3, <3>1, <3>4, <3>5
    <3>7. ASSUME NEW i \in 1..(N + 1), NEW j \in 1..(N + 1), i < j PROVE g[i] < g[j]
      <4>1. i \in 1..N
        BY <3>1, <3>7
      <4>2. CASE j = N + 1
        BY <3>2, <3>4, <4>1, <4>2
      <4>3. CASE j \in 1..N
        BY <2>3, <3>4, <3>7, <4>1, <4>3
      <4> QED
        BY <3>5, <4>2, <4>3
    <3> QED
      BY <3>1, <3>3, <3>6, <3>7 DEF b
  <2>7. CASE s[n + 1] \notin S
    <3>1. b = a
      BY <2>5, <2>7
    <3>2. h \in [1..N -> 1..(n + 1)]
      BY <2>3
    <3> QED
      BY <2>3, <3>1, <3>2 DEF b
  <2> QED
    BY <2>6, <2>7
<1>4. Nat \subseteq T
  <2> HIDE DEF T
  <2> QED
    BY <1>2, <1>3, NatBySets
<1>5. Len(s) \in Nat
  OBVIOUS
<1>6. Right(Len(s))
  <2> HIDE DEF Right
  <2>1. Len(s) \in T /\ Len(s) <= Len(s)
    BY <1>4, <1>5
  <2> QED
    BY <2>1
<1> QED
  BY <1>1, <1>6 DEF PartOf

(* Where the elements of S are the last ones, Those leaves out the first k. *)
LEMMA ThoseLastOnes ==
  ASSUME NEW L, NEW s \in Seq(L), NEW S, NEW k \in 0..Len(s),
         \A i \in 1..k : s[i] \notin S, \A i \in (k + 1)..Len(s) : s[i] \in S
  PROVE  /\ Those(s, S) \in Seq(L) /\ Len(Those(s, S)) = Len(s) - k
         /\ \A i \in 1..(Len(s) - k) : Those(s, S)[i] = s[k + i]
<1>1. PICK F \in [0..Len(s) -> Seq(L)] : IsThose(F, s, S) /\ Those(s, S) = F[Len(s)]
  BY ThoseWalk
<1> DEFINE Right(n) == IF n <= k THEN F[n] = <<>>
                       ELSE Len(F[n]) = n - k /\ \A i \in 1..(n - k) : F[n][i] = s[k + i]
           T == {n \in Nat : n <= Len(s) => Right(n)}
<1>2. Len(s) \in Nat /\ k \in Nat /\ k <= Len(s)
  OBVIOUS
<1>3. 0 \in T
  BY <1>1, <1>2 DEF IsThose
<1>4. ASSUME NEW n \in Nat, n \in T PROVE n + 1 \in T
  <2>1. SUFFICES ASSUME n + 1 <= Len(s) PROVE Right(n + 1)
    OBVIOUS
  <2>2. F[n] \in Seq(L) /\ Right(n)
    <3>1. n \in 0..Len(s) /\ n <= Len(s)
      BY <1>2, <2>1
    <3>2. Right(n)
      <4> HIDE DEF Right
      <4> QED
        BY <1>4, <3>1
    <3> HIDE DEF Right
    <3> QED
      BY <1>1, <3>1, <3>2
  <2>3. F[n + 1] = IF s[n + 1] \in S THEN Append(F[n], s[n + 1]) ELSE F[n]
    BY <1>1, <1>2, <2>1 DEF IsThose
  <2>4. CASE n + 1 <= k
    BY <1>2, <2>2, <2>3, <2>4
  <2>5. CASE ~(n + 1 <= k)
    <3>1. F[n + 1] = Append(F[n], s[n + 1])
      BY <1>2, <2>1, <2>3, <2>5
    <3>2. s[n + 1] \in L
      BY <1>2, <2>1
    <3>3. /\ Len(F[n + 1]) = Len(F[n]) + 1 /\ F[n + 1][Len(F[n]) + 1] = s[n + 1]
          /\ \A i \in 1..Len(F[n]) : F[n + 1][i] = F[n][i]
      BY <2>2, <3>1, <3>2
    <3>4. Len(F[n]) = n - k /\ \A i \in 1..(n - k) : F[n][i] = s[k + i]
      <4>1. CASE n <= k
        <5>1. n = k /\ F[n] = <<>>
          BY <1>2, <2>2, <2>5, <4>1
        <5> QED
          BY <5>1, <1>2
      <4>2. CASE ~(n <= k)
        BY <2>2, <4>2
      <4> QED
        BY <4>1, <4>2
    <3>5. \A i \in 1..((n + 1) - k) : i \in 1..(n - k) \/ (i = (n - k) + 1 /\ k + i = n + 1)
      BY <1>2, <2>5
    <3>6. Len(F[n + 1]) = (n + 1) - k
      BY <1>2, <3>3, <3>4
    <3>7. ASSUME NEW i \in 1..((n + 1) - k) PROVE F[n + 1][i] = s[k + i]
      <4>1. CASE i \in 1..(n - k)
        BY <3>3, <3>4, <4>1
      <4>2. CASE i = (n - k) + 1 /\ k + i = n + 1
        BY <3>3, <3>4, <4>2
      <4> QED
        BY <3>5, <4>1, <4>2
    <3> QED
      BY <2>5, <3>6, <3>7
  <2> QED
    BY <2>4, <2>5
<1>5. Len(s) \in T
  <2> HIDE DEF T
  <2> QED
    BY <1>2, <1>3, <1>4, NatBySets
<1>6. CASE Len(s) <= k
  <2>1. Those(s, S) = <<>> /\ Len(s) = k
    BY <1>1, <1>2, <1>5, <1>6
  <2> QED
    BY <1>2, <2>1
<1>7. CASE ~(Len(s) <= k)
  BY <1>1, <1>2, <1>5, <1>7
<1> QED
  BY <1>6, <1>7

(* Of a list of lists of one element, FlattenSeq makes the list of these. *)
LEMMA FlattenOnes ==
  ASSUME NEW E, NEW s \in Seq(Seq(E)), \A i \in 1..Len(s) : Len(s[i]) = 1
  PROVE  /\ FlattenSeq(s) \in Seq(E) /\ Len(FlattenSeq(s)) = Len(s)
         /\ \A i \in 1..Len(s) : FlattenSeq(s)[i] = s[i][1]
<1> DEFINE N == Len(s)
           Walk(G) == [i \in 1..N |-> IF i = 1 THEN s[i] ELSE G[i - 1] \o s[i]]
           F == CHOOSE G : G = Walk(G)
           H == [i \in 1..N |-> [j \in 1..i |-> s[j][1]]]
<1>1. N \in Nat /\ \A i \in 1..N : s[i] \in Seq(E) /\ Len(s[i]) = 1
  OBVIOUS
<1>2. CASE N = 0
  <2>1. FlattenSeq(s) = s
    BY <1>2 DEF FlattenSeq
  <2>2. s = <<>>
    BY <1>2
  <2> QED
    BY <1>2, <2>1, <2>2
<1>3. CASE N # 0
  <2>1. \A i \in 1..N : s[i][1] \in E /\ s[i] = <<s[i][1]>>
    BY <1>1
  <2>2. ASSUME NEW i \in 1..N
        PROVE  /\ H[i] \in Seq(E) /\ Len(H[i]) = i
               /\ \A j \in 1..i : H[i][j] = s[j][1]
    <3>1. H[i] = [j \in 1..i |-> s[j][1]] /\ i \in Nat /\ \A j \in 1..i : j \in 1..N
      BY <1>1
    <3>2. \A j \in 1..i : s[j][1] \in E
      BY <2>1, <3>1
    <3> QED
      BY <3>1, <3>2
  <2>3. H = Walk(H)
    <3>1. ASSUME NEW i \in 1..N PROVE H[i] = IF i = 1 THEN s[i] ELSE H[i - 1] \o s[i]
      <4>1. CASE i = 1
        <5>1. H[1] = [j \in 1..1 |-> s[j][1]]
          BY <4>1
        <5>2. 1 \in 1..N /\ s[1] \in Seq(E) /\ Len(s[1]) = 1 /\ Len(H[1]) = 1 /\ H[1] \in Seq(E)
              /\ H[1][1] = s[1][1]
          BY <1>1, <2>2, <4>1
        <5> HIDE DEF H
        <5> QED
          BY <4>1, <5>2
      <4>2. CASE i # 1
        <5>1. i - 1 \in 1..N /\ (i - 1) + 1 = i /\ i - 1 \in Nat
          BY <1>1, <4>2
        <5>2. /\ H[i - 1] \in Seq(E) /\ Len(H[i - 1]) = i - 1
              /\ \A j \in 1..(i - 1) : H[i - 1][j] = s[j][1]
          BY <2>2, <5>1
        <5>3. H[i] \in Seq(E) /\ Len(H[i]) = i /\ \A j \in 1..i : H[i][j] = s[j][1]
          BY <2>2
        <5> DEFINE c == H[i - 1] \o s[i]
        <5>4. /\ c \in Seq(E) /\ Len(c) = i
              /\ \A j \in 1..(i - 1) : c[j] = H[i - 1][j]
              /\ c[i] = s[i][1]
          <6> DEFINE a == H[i - 1]
                     b == s[i]
          <6>1. a \in Seq(E) /\ b \in Seq(E) /\ Len(a) = i - 1 /\ Len(b) = 1
            BY <1>1, <5>2
          <6> HIDE DEF a, b
          <6>2. /\ a \o b \in Seq(E) /\ Len(a \o b) = Len(a) + Len(b)
                /\ \A j \in 1..Len(a) : (a \o b)[j] = a[j]
                /\ \A j \in 1..Len(b) : (a \o b)[Len(a) + j] = b[j]
            <7>1. a \in Seq(E) /\ b \in Seq(E)
              BY <6>1
            <7> QED
              BY <7>1
          <6> QED
            BY <5>1, <6>1, <6>2 DEF a, b
        <5>5. \A j \in 1..i : c[j] = H[i][j]
          <6>1. \A j \in 1..i : j \in 1..(i - 1) \/ j = i
            BY <5>1
          <6> HIDE DEF H, c
          <6> QED
            BY <5>2, <5>3, <5>4, <6>1
        <5> HIDE DEF H, c
        <5>6. c = H[i]
          BY <5>3, <5>4, <5>5
        <5> QED
          BY <4>2, <5>6 DEF c
      <4> QED
        BY <4>1, <4>2
    <3> DEFINE G == H
    <3>2. G = [i \in 1..N |-> G[i]]
      OBVIOUS
    <3> HIDE DEF H
    <3> QED
      BY <3>1, <3>2
  <2>4. F = Walk(F)
    <3> HIDE DEF Walk, H
    <3> QED
      BY <2>3
  <2>5. \A i \in 1..N : F[i] = IF i = 1 THEN s[i] ELSE F[i - 1] \o s[i]
    <3> HIDE DEF F
    <3> QED
      BY <2>4
  <2>6. \A i \in 1..N : H[i] = IF i = 1 THEN s[i] ELSE H[i - 1] \o s[i]
    <3> HIDE DEF H
    <3> QED
      BY <2>3
  <2> DEFINE T == {n \in Nat : n + 1 <= N => F[n + 1] = H[n + 1]}
  <2>7. 0 \in T
    <3> HIDE DEF F, H
    <3> QED
      BY <1>1, <2>5, <2>6
  <2>8. ASSUME NEW n \in Nat, n \in T PROVE n + 1 \in T
    <3> HIDE DEF F, H
    <3>1. SUFFICES ASSUME (n + 1) + 1 <= N PROVE F[(n + 1) + 1] = H[(n + 1) + 1]
      OBVIOUS
    <3>2. (n + 1) + 1 \in 1..N /\ (n + 1) + 1 # 1 /\ ((n + 1) + 1) - 1 = n + 1 /\ n + 1 <= N
      BY <1>1, <3>1
    <3>3. F[n + 1] = H[n + 1]
      BY <2>8, <3>2
    <3> QED
      BY <2>5, <2>6, <3>2, <3>3
  <2>9. N - 1 \in T /\ N - 1 \in Nat
    <3>1. N - 1 \in Nat
      BY <1>1, <1>3
    <3> HIDE DEF T
    <3> QED
      BY <2>7, <2>8, <3>1, NatBySets
  <2>10. F[N] = H[N]
    <3>1. (N - 1) + 1 = N
      BY <1>1
    <3> HIDE DEF F, H
    <3> QED
      BY <2>9, <3>1
  <2>11. FlattenSeq(s) = F[N]
    BY <1>1, <1>3 DEF FlattenSeq
  <2>12. N \in 1..N
    BY <1>1, <1>3
  <2> HIDE DEF F, H
  <2> QED
    BY <2>2, <2>10, <2>11, <2>12
<1> QED
  BY <1>2, <1>3
-----------------------------------------------------------------------------
(* An operator alone: its channels. *)
LEMMA LoneChannels ==
  ASSUME NEW o, LoneType(o)
  PROVE  /\ Channels(program) = {<<o, port>> : port \in Ports(Kind(o))}
         /\ Ports(Kind(o)) \subseteq {"input", "left", "right"}
         /\ Kind(o) \in Windows \cup {"pattern"} => Ports(Kind(o)) = {"input"}
         /\ Kind(o) = "join" => Ports(Kind(o)) = {"left", "right"}
<1>1. DOMAIN program = {o}
  BY DEF LoneType, Lone, Ops
<1>2. Kind(o) \in Windows \cup {"pattern"} => Ports(Kind(o)) = {"input"}
  BY DEF Ports, Windows
<1>3. Kind(o) = "join" => Ports(Kind(o)) = {"left", "right"}
  BY DEF Ports
<1>4. Channels(program) = {<<o, port>> : port \in Ports(Kind(o))}
  <2>1. Channels(program) = {o} \X Ports(Kind(o))
    BY <1>1 DEF Channels, Kind
  <2> QED
    BY <2>1
<1>5. Kind(o) \in Windows \cup {"pattern"} \/ Kind(o) = "join"
  BY DEF LoneType, Solo
<1>6. Ports(Kind(o)) \subseteq {"input", "left", "right"}
  BY <1>2, <1>3, <1>5
<1> QED
  BY <1>2, <1>3, <1>4, <1>6

(* A new task. *)
LEMMA SetWhole ==
  ASSUME NEW o, NEW f \in [{o} -> Works], NEW r, NEW g, g = [f EXCEPT ![o] = r]
  PROVE  DOMAIN g = {o} /\ g = [x \in {o} |-> g[o]] /\ g[o] = r
  OBVIOUS

(* What each action does to a lone operator. It begins its loop, *)
LEMMA LoneBegin ==
  ASSUME NEW o, LoneType(o), Begin(o)
  PROVE  /\ task[o].at = "top" /\ UNCHANGED <<program, chan, fly, now, panics, sent, out, taken>>
         /\ DOMAIN task' = {o} /\ task' = [x \in {o} |-> task'[o]]
         /\ task'[o] = [at |-> "wait", pend |-> task[o].pend,
                        buf |-> IF Kind(o) = "join" THEN Recent(task[o].buf, now, program[o].size)
                                ELSE task[o].buf,
                        mark |-> now, due |-> task[o].due, until |-> task[o].until,
                        backoff |-> task[o].backoff]
<1> DEFINE b == IF Kind(o) = "join" THEN Recent(task[o].buf, now, program[o].size)
                ELSE task[o].buf
<1>1. task \in [{o} -> Works]
  BY DEF LoneType
<1>2. task' = [task EXCEPT ![o].at = "wait", ![o].mark = now, ![o].buf = b]
  BY <1>1 DEF Begin, Works
<1> HIDE DEF b
<1>3. /\ DOMAIN task' = {o} /\ task' = [x \in {o} |-> task'[o]]
      /\ task'[o] = [at |-> "wait", pend |-> task[o].pend, buf |-> b, mark |-> now,
                     due |-> task[o].due, until |-> task[o].until, backoff |-> task[o].backoff]
  BY <1>1, <1>2 DEF Works
<1> QED
  BY <1>3 DEF Begin, b

(* ... receives, *)
LEMMA LoneReceive ==
  ASSUME NEW o, LoneType(o), NEW port \in Ports(Kind(o)), Receive(o, port)
  PROVE  LET c == <<o, port>>
             m == Head(chan[c])
             r == Process(o, task[o].buf, port, m)
         IN  /\ task[o].at = "wait" /\ chan[c] # <<>> /\ c \in Channels(program)
             /\ chan' = [chan EXCEPT ![c] = Tail(chan[c])]
             /\ UNCHANGED <<program, fly, now, panics, sent, out>>
             /\ DOMAIN task' = {o} /\ task' = [x \in {o} |-> task'[o]]
             /\ task'[o] = [at |-> After(o, r.send), pend |-> r.send, buf |-> r.buf,
                            mark |-> task[o].mark, due |-> task[o].due,
                            until |-> task[o].until, backoff |-> task[o].backoff]
             /\ taken' = [taken EXCEPT ![o] = IF Kind(o) \in {"join", "pattern"}
                                                THEN Append(taken[o], Entry(port, m)) ELSE taken[o]]
<1> DEFINE c == <<o, port>>
           m == Head(chan[c])
           r == Process(o, task[o].buf, port, m)
           a == After(o, r.send)
           p == r.send
           b == r.buf
<1>1. task \in [{o} -> Works] /\ program[o].par = FALSE
  BY DEF LoneType, Lone
<1>2. task' = [task EXCEPT ![o].at = a, ![o].pend = p, ![o].buf = b] /\ UNCHANGED fly
  BY <1>1 DEF Receive
<1> HIDE DEF a, p, b
<1>3. /\ DOMAIN task' = {o} /\ task' = [x \in {o} |-> task'[o]]
      /\ task'[o] = [at |-> a, pend |-> p, buf |-> b, mark |-> task[o].mark,
                     due |-> task[o].due, until |-> task[o].until, backoff |-> task[o].backoff]
  BY <1>1, <1>2 DEF Works
<1>4. c \in Channels(program)
  BY LoneChannels
<1> QED
  BY <1>1, <1>2, <1>3, <1>4 DEF Receive, a, p, b, LoneType

(* ... ticks, *)
LEMMA LoneTick ==
  ASSUME NEW o, LoneType(o), Tick(o)
  PROVE  LET active == Recent(task[o].buf, task[o].mark, program[o].size)
             send == IF active = <<>> THEN <<>> ELSE <<Events(active)>>
         IN  /\ TimeWindow(Kind(o)) /\ task[o].at = "wait"
             /\ UNCHANGED <<program, chan, fly, now, panics, sent, out, taken>>
             /\ DOMAIN task' = {o} /\ task' = [x \in {o} |-> task'[o]]
             /\ task'[o] = [at |-> After(o, send), pend |-> send,
                            buf |-> IF Kind(o) = "tumbling_time" THEN <<>> ELSE active,
                            mark |-> task[o].mark, due |-> task[o].due + 1,
                            until |-> task[o].until, backoff |-> task[o].backoff]
<1> DEFINE active == Recent(task[o].buf, task[o].mark, program[o].size)
           send == IF active = <<>> THEN <<>> ELSE <<Events(active)>>
           a == After(o, send)
           p == send
           d == task[o].due + 1
           b == IF Kind(o) = "tumbling_time" THEN <<>> ELSE active
<1>1. task \in [{o} -> Works]
  BY DEF LoneType
<1>2. task' = [task EXCEPT ![o].at = a, ![o].pend = p, ![o].due = d, ![o].buf = b]
  <2> HIDE DEF active
  <2> QED
    BY <1>1 DEF Tick, active, Works
<1> HIDE DEF a, p, b, d
<1>3. /\ DOMAIN task' = {o} /\ task' = [x \in {o} |-> task'[o]]
      /\ task'[o] = [at |-> a, pend |-> p, buf |-> b, mark |-> task[o].mark, due |-> d,
                     until |-> task[o].until, backoff |-> task[o].backoff]
  BY <1>1, <1>2 DEF Works
<1> QED
  BY <1>3 DEF Tick, a, p, b, d

(* ... sends to the service, *)
LEMMA LoneSend ==
  ASSUME NEW o, LoneType(o), Send(o)
  PROVE  /\ task[o].at = "send"
         /\ UNCHANGED <<program, chan, fly, now, panics, sent, taken>>
         /\ out' = Append(out, [from |-> o, msg |-> Head(task[o].pend)])
         /\ DOMAIN task' = {o} /\ task' = [x \in {o} |-> task'[o]]
         /\ task'[o] = [at |-> After(o, Tail(task[o].pend)), pend |-> Tail(task[o].pend),
                        buf |-> task[o].buf, mark |-> task[o].mark, due |-> task[o].due,
                        until |-> task[o].until, backoff |-> task[o].backoff]
<1> DEFINE p == Tail(task[o].pend)
           a == After(o, p)
<1>1. task \in [{o} -> Works] /\ program[o].to = Sink
  BY DEF LoneType, Lone
<1>2. task' = [task EXCEPT ![o].at = a, ![o].pend = p]
  BY <1>1 DEF Send
<1> HIDE DEF a, p
<1>3. /\ DOMAIN task' = {o} /\ task' = [x \in {o} |-> task'[o]]
      /\ task'[o] = [at |-> a, pend |-> p, buf |-> task[o].buf, mark |-> task[o].mark,
                     due |-> task[o].due, until |-> task[o].until, backoff |-> task[o].backoff]
  BY <1>1, <1>2 DEF Works
<1> QED
  BY <1>1, <1>3 DEF Send, Deliver, a, p

(* ... goes down *)
LEMMA LoneDown ==
  ASSUME NEW o, LoneType(o), Down(o)
  PROVE  /\ DOMAIN task' = {o} /\ task' = [x \in {o} |-> task'[o]]
         /\ task'[o].at = "down" /\ task'[o].pend = <<>> /\ task'[o].buf = <<>>
         /\ task'[o] \in Works /\ task'[o].mark <= now
         /\ taken' = [taken EXCEPT ![o] = <<>>]
<1> DEFINE k == Twice(task[o].backoff)
           r == [Fresh(Kind(o), now, k) EXCEPT !.at = "down", !.until = now + task[o].backoff]
<1>1. task \in [{o} -> Works] /\ now \in Nat /\ task[o].backoff \in Nat
  BY DEF LoneType, Works
<1>2. task' = [task EXCEPT ![o] = r]
  BY <1>1 DEF Down
<1>3. k \in Nat
  BY <1>1, StreamAssumption DEF Twice
<1> DEFINE mark == IF Timed(Kind(o)) THEN now ELSE 0
           due == IF TimeWindow(Kind(o)) THEN now ELSE 0
           until == now + task[o].backoff
<1>4. mark \in Nat /\ due \in Nat /\ until \in Nat /\ mark <= now
  BY <1>1
<1> HIDE DEF k
<1> DEFINE top == Top(Kind(o))
           old == [at |-> top, pend |-> <<>>, buf |-> <<>>, mark |-> mark, due |-> due,
                   until |-> 0, backoff |-> k]
           new == [at |-> "down", pend |-> <<>>, buf |-> <<>>, mark |-> mark, due |-> due,
                   until |-> until, backoff |-> k]
<1>5. Fresh(Kind(o), now, k) = old
  BY Zenon DEF Fresh
<1>8. r = [old EXCEPT !.at = "down", !.until = until]
  BY <1>5, Zenon
<1> HIDE DEF mark, due, until, r, top
<1>9. r = new
  BY <1>8
<1>6. r \in Works /\ r.at = "down" /\ r.pend = <<>> /\ r.buf = <<>> /\ r.mark <= now
  <2>1. new \in Works
    BY <1>3, <1>4 DEF Works
  <2> QED
    BY <1>4, <1>9, <2>1
<1> HIDE DEF r
<1>7. DOMAIN task' = {o} /\ task' = [x \in {o} |-> task'[o]] /\ task'[o] = r
  BY <1>1, <1>2, SetWhole
<1> QED
  BY <1>6, <1>7 DEF Down

(* ... and is started again. *)
LEMMA LoneRestart ==
  ASSUME NEW o, LoneType(o), Restart(o)
  PROVE  /\ task[o].at = "down"
         /\ UNCHANGED <<program, chan, fly, now, panics, sent, out, taken>>
         /\ DOMAIN task' = {o} /\ task' = [x \in {o} |-> task'[o]]
         /\ task'[o].at \in {"top", "wait"} /\ task'[o].pend = <<>> /\ task'[o].buf = <<>>
         /\ task'[o] \in Works /\ task'[o].mark <= now
<1> DEFINE k == task[o].backoff
           r == Fresh(Kind(o), now, k)
<1>1. task \in [{o} -> Works] /\ now \in Nat /\ k \in Nat
  BY DEF LoneType, Works
<1>2. task' = [task EXCEPT ![o] = r]
  BY <1>1 DEF Restart
<1> DEFINE mark == IF Timed(Kind(o)) THEN now ELSE 0
           due == IF TimeWindow(Kind(o)) THEN now ELSE 0
           at == Top(Kind(o))
           until == 0
<1>4. mark \in Nat /\ mark <= now /\ due \in Nat /\ at \in {"top", "wait"} /\ until \in Nat
  BY <1>1 DEF Top
<1> HIDE DEF k
<1>5. r = [at |-> at, pend |-> <<>>, buf |-> <<>>, mark |-> mark, due |-> due,
           until |-> until, backoff |-> k]
  BY DEF Fresh
<1> DEFINE new == [at |-> at, pend |-> <<>>, buf |-> <<>>, mark |-> mark, due |-> due,
                   until |-> until, backoff |-> k]
<1> HIDE DEF mark, due, until, at, r
<1>6. /\ r \in Works /\ r.at \in {"top", "wait"} /\ r.pend = <<>> /\ r.buf = <<>>
      /\ r.mark <= now
  <2>1. new \in Works
    BY <1>1, <1>4 DEF Works
  <2> QED
    BY <1>4, <1>5, <2>1
<1> HIDE DEF r
<1>7. DOMAIN task' = {o} /\ task' = [x \in {o} |-> task'[o]] /\ task'[o] = r
  BY <1>1, <1>2, SetWhole
<1> QED
  BY <1>6, <1>7 DEF Restart

(* What is recent of a buffer is entries of it. *)
LEMMA RecentType ==
  ASSUME NEW buf \in Seq(Stored), NEW t, NEW size
  PROVE  Recent(buf, t, size) \in Seq(Stored)
  BY ThoseMembers DEF Recent

(* A message of one event. *)
LEMMA SingleIs == \A m \in Single : m \in Seq(Event) /\ Len(m) = 1 /\ m[1] \in Event
<1> SUFFICES ASSUME NEW m \in Single PROVE m \in Seq(Event) /\ Len(m) = 1 /\ m[1] \in Event
  OBVIOUS
<1>1. PICK e \in Event : m = <<e>>
  BY DEF Single
<1>2. <<e>> \in Seq(Event) /\ Len(<<e>>) = 1 /\ <<e>>[1] = e
  OBVIOUS
<1> QED
  BY <1>1, <1>2

(* An entry has one. *)
LEMMA StoredIs ==
  /\ \A x \in Stored : x.msg \in Single /\ x.t \in Nat
  /\ \A buf \in Seq(Stored) : \A i \in DOMAIN buf : buf[i] \in Stored /\ buf[i].msg \in Single
<1>1. \A x \in Stored : x.msg \in Single /\ x.t \in Nat
  BY DEF Stored
<1>2. \A buf \in Seq(Stored) : \A i \in DOMAIN buf : buf[i] \in Stored
  OBVIOUS
<1> QED
  BY <1>1, <1>2

(* The operator of a kind. *)
LEMMA ProcessIs ==
  ASSUME NEW o, NEW buf, NEW port, NEW m
  PROVE  LET r == Process(o, buf, port, m) IN
         /\ Kind(o) = "join" => r = Join(o, buf, port, m)
         /\ Kind(o) \in {"tumbling", "sliding"} => r = CountWindow(o, buf, port, m)
         /\ Kind(o) = "pattern" => r = Pattern(o, buf, port, m)
         /\ TimeWindow(Kind(o)) => r = Buffer(o, buf, port, m)
<1> DEFINE k == Kind(o)
<1>1. /\ k = "join" => k \notin {"tumbling", "sliding"} /\ k # "pattern" /\ ~TimeWindow(k)
      /\ k = "pattern" => k \notin {"tumbling", "sliding"} /\ k # "join" /\ ~TimeWindow(k)
      /\ k \in {"tumbling", "sliding"} => k # "pattern" /\ k # "join" /\ ~TimeWindow(k)
      /\ TimeWindow(k) => k \notin {"tumbling", "sliding"} /\ k # "join" /\ k # "pattern"
  BY DEF TimeWindow
<1> QED
  BY <1>1 DEF Process

(* The events of a buffer, in its order. *)
LEMMA EventsAre ==
  ASSUME NEW buf \in Seq(Stored)
  PROVE  /\ Events(buf) \in Seq(Event) /\ Len(Events(buf)) = Len(buf)
         /\ \A i \in 1..Len(buf) : Events(buf)[i] = buf[i].msg[1]
<1> DEFINE s == [i \in DOMAIN buf |-> buf[i].msg]
<1>1. \A i \in DOMAIN buf : buf[i].msg \in Single /\ buf[i] \in Stored
  BY StoredIs
<1>2. \A m \in Single : m \in Seq(Event) /\ Len(m) = 1
  BY SingleIs
<1>3. s \in Seq(Seq(Event)) /\ Len(s) = Len(buf)
  BY <1>1, <1>2
<1>4. \A i \in 1..Len(s) : s[i] = buf[i].msg /\ Len(s[i]) = 1
  <2>1. \A i \in 1..Len(s) : i \in DOMAIN buf
    BY <1>3
  <2>2. \A i \in 1..Len(s) : s[i] = buf[i].msg
    BY <2>1
  <2> HIDE DEF s
  <2> QED
    BY <1>1, <1>2, <2>1, <2>2
<1>5. Events(buf) = FlattenSeq(s)
  BY DEF Events
<1> HIDE DEF s
<1>6. /\ FlattenSeq(s) \in Seq(Event) /\ Len(FlattenSeq(s)) = Len(s)
      /\ \A i \in 1..Len(s) : FlattenSeq(s)[i] = s[i][1]
  BY <1>3, <1>4, FlattenOnes
<1> QED
  BY <1>3, <1>4, <1>5, <1>6

(* What an operator makes of a message is messages and entries. *)
LEMMA ProcessType ==
  ASSUME NEW o, Kind(o) \in Solo, now \in Nat, NEW buf \in Seq(Stored),
         NEW port \in {"input", "left", "right"}, NEW m \in Single
  PROVE  /\ Process(o, buf, port, m).send \in Seq(Seq(Event))
         /\ Process(o, buf, port, m).buf \in Seq(Stored)
<1>1. /\ Entry(port, m) \in Stored /\ Untimed(port, m) \in Stored
  BY DEF Entry, Untimed, Stored
<1>2. m \in Seq(Event) /\ \A x \in Stored : x.msg \in Seq(Event)
  BY SingleIs, StoredIs
<1>3. CASE Kind(o) = "join"
  <2> DEFINE S == {x \in ToSet(buf) : x.port # port /\ Class(x.msg) = Class(m)}
             mates == Those(buf, S)
             pair(x) == IF port = "left" THEN m \o x.msg ELSE x.msg \o m
             send == [i \in DOMAIN mates |-> pair(mates[i])]
  <2>1. mates \in Seq(Stored)
    <3> HIDE DEF S
    <3> QED
      BY ThoseMembers
  <2>2. Process(o, buf, port, m) = [send |-> send, buf |-> Append(buf, Entry(port, m))]
    <3>1. Process(o, buf, port, m) = Join(o, buf, port, m)
      BY <1>3, ProcessIs
    <3>2. Join(o, buf, port, m) = [send |-> send, buf |-> Append(buf, Entry(port, m))]
      BY Zenon DEF Join
    <3> HIDE DEF send
    <3> QED
      BY <3>1, <3>2
  <2> HIDE DEF mates
  <2>3. \A i \in DOMAIN mates : mates[i] \in Stored
    BY <2>1
  <2>4. \A x \in Stored : pair(x) \in Seq(Event)
    BY <1>2
  <2>5. send \in Seq(Seq(Event))
    <3> HIDE DEF pair
    <3>1. DOMAIN mates = 1..Len(mates) /\ Len(mates) \in Nat
      BY <2>1
    <3> QED
      BY <2>3, <2>4, <3>1
  <2> HIDE DEF send
  <2> QED
    BY <1>1, <2>2, <2>5
<1>4. CASE Kind(o) \in {"tumbling", "sliding"}
  <2> DEFINE all == Append(buf, Untimed(port, m))
  <2>1. all \in Seq(Stored) /\ Tail(all) \in Seq(Stored)
    <3>1. all \in Seq(Stored) /\ all # <<>>
      BY <1>1
    <3> HIDE DEF all
    <3> QED
      BY <3>1
  <2>2. Process(o, buf, port, m) = CountWindow(o, buf, port, m)
    BY <1>4, ProcessIs
  <2> HIDE DEF all
  <2>3. Events(all) \in Seq(Event)
    BY <2>1, EventsAre
  <2> DEFINE one == <<Events(all)>>
             none == <<>>
             rest == Tail(all)
  <2>4. /\ CountWindow(o, buf, port, m).send = none \/ CountWindow(o, buf, port, m).send = one
        /\ \/ CountWindow(o, buf, port, m).buf = none \/ CountWindow(o, buf, port, m).buf = all
           \/ CountWindow(o, buf, port, m).buf = rest
    BY DEF CountWindow, all
  <2>5. /\ one \in Seq(Seq(Event)) /\ none \in Seq(Seq(Event)) /\ none \in Seq(Stored)
        /\ rest \in Seq(Stored)
    BY <2>1, <2>3
  <2> HIDE DEF one, none, rest
  <2> QED
    BY <2>1, <2>2, <2>4, <2>5
<1>5. CASE Kind(o) = "pattern"
  <2> DEFINE active == Recent(buf, now, program[o].size)
             x == Entry(port, m)
  <2>1. active \in Seq(Stored) /\ (active # <<>> => active[1] \in Stored)
    <3>1. active \in Seq(Stored)
      BY RecentType
    <3> HIDE DEF active
    <3> QED
      BY <3>1
  <2>2. Process(o, buf, port, m) = Pattern(o, buf, port, m)
    BY <1>5, ProcessIs
  <2> HIDE DEF active, x
  <2>3. /\ \/ Pattern(o, buf, port, m).send = <<>>
           \/ active # <<>> /\ Pattern(o, buf, port, m).send = <<active[1].msg \o m>>
        /\ Pattern(o, buf, port, m).buf \in {<<>>, active, <<x>>}
    BY DEF Pattern, active, x
  <2>4. active # <<>> => active[1].msg \o m \in Seq(Event)
    BY <1>2, <2>1
  <2>5. <<x>> \in Seq(Stored)
    BY <1>1 DEF x
  <2> DEFINE hit == <<active[1].msg \o m>>
             none == <<>>
             only == <<x>>
  <2>6. /\ Pattern(o, buf, port, m).send = none
           \/ (active # none /\ Pattern(o, buf, port, m).send = hit)
        /\ \/ Pattern(o, buf, port, m).buf = none \/ Pattern(o, buf, port, m).buf = active
           \/ Pattern(o, buf, port, m).buf = only
    BY <2>3
  <2>7. /\ active # none => hit \in Seq(Seq(Event))
        /\ none \in Seq(Seq(Event)) /\ none \in Seq(Stored) /\ only \in Seq(Stored)
    BY <2>4, <2>5
  <2> HIDE DEF hit, none, only
  <2> QED
    BY <2>1, <2>2, <2>6, <2>7
<1>6. CASE TimeWindow(Kind(o))
  <2>1. Process(o, buf, port, m) = Buffer(o, buf, port, m)
    BY <1>6, ProcessIs
  <2> QED
    BY <1>1, <2>1 DEF Buffer
<1> QED
  BY <1>3, <1>4, <1>5, <1>6 DEF Solo, Windows, TimeWindow

(* The steps of a lone operator. *)
LEMMA LoneNext ==
  ASSUME NEW o, LoneType(o), Next
  PROVE  \/ Emit \/ Second \/ Begin(o) \/ Send(o) \/ Restart(o) \/ Tick(o)
         \/ \E port \in Ports(Kind(o)) : Receive(o, port) \/ ReceivePanics(o, port)
         \/ SendPanics(o)
<1>1. Ops = {o} /\ Kind(o) # "runner" /\ fly[o] = {}
  BY DEF LoneType, Lone, Solo, Windows
<1>2. ~SendInParallel(o) /\ ~RunnerPanics(o) /\ ~RunnerReturns(o)
  BY <1>1 DEF SendInParallel, RunnerPanics, RunnerReturns
<1> QED
  BY <1>1, <1>2 DEF Next, Step

(* A panic as it receives loses the message, and the task. *)
LEMMA LonePanics ==
  ASSUME NEW o, LoneType(o), NEW port \in Ports(Kind(o)), ReceivePanics(o, port)
  PROVE  LET c == <<o, port>>
         IN  /\ task[o].at = "wait" /\ chan[c] # <<>> /\ c \in Channels(program) /\ Down(o)
             /\ chan' = [chan EXCEPT ![c] = Tail(chan[c])] /\ panics' = panics + 1
             /\ UNCHANGED <<program, fly, now, sent, out>>
<1>1. program[o].par = FALSE
  BY DEF LoneType, Lone
<1>2. <<o, port>> \in Channels(program)
  BY LoneChannels
<1> QED
  BY <1>1, <1>2 DEF ReceivePanics, LoneType

(* A panic as it sends loses the task. *)
LEMMA LoneSendPanics ==
  ASSUME NEW o, LoneType(o), SendPanics(o)
  PROVE  /\ task[o].at = "send" /\ Down(o) /\ panics' = panics + 1
         /\ UNCHANGED <<program, chan, fly, now, sent, out>>
<1>1. fly[o] = {}
  BY DEF LoneType
<1> QED
  BY <1>1 DEF SendPanics

(* An event is sent into a channel of it. *)
LEMMA LoneEmit ==
  ASSUME NEW o, LoneType(o), Emit
  PROVE  \E c \in Channels(program), e \in Event :
           /\ e.n = Len(sent) + 1
           /\ chan' = [chan EXCEPT ![c] = Append(chan[c], <<e>>)]
           /\ sent' = Append(sent, [e |-> e, c |-> c])
           /\ UNCHANGED <<program, task, fly, now, panics, out, taken>>
<1>1. PICK c \in Channels(program), class \in Classes :
        LET e == [n |-> Len(sent) + 1, class |-> class] IN
        /\ chan' = [chan EXCEPT ![c] = Append(@, <<e>>)]
        /\ sent' = Append(sent, [e |-> e, c |-> c])
  BY DEF Emit, Sources
<1> DEFINE e == [n |-> Len(sent) + 1, class |-> class]
<1>2. Len(sent) \in Nat
  BY DEF LoneType
<1>3. e \in Event /\ e.n = Len(sent) + 1
  BY <1>2 DEF Event
<1>4. chan' = [chan EXCEPT ![c] = Append(chan[c], <<e>>)]
  BY <1>1 DEF LoneType
<1>5. sent' = Append(sent, [e |-> e, c |-> c])
  BY <1>1
<1>6. UNCHANGED <<program, task, fly, now, panics, out, taken>>
  BY DEF Emit
<1> HIDE DEF e
<1> QED
  BY <1>3, <1>4, <1>5, <1>6

(* A task that goes on sends if it has something to send. *)
LEMMA AfterIs ==
  ASSUME NEW o, NEW send
  PROVE  /\ After(o, send) \in {"top", "wait", "send", "down"}
         /\ After(o, send) = "send" <=> send # <<>>
  BY DEF After, Top

(* The types of a step that touches neither what was sent nor the program. *)
LEMMA LoneKept ==
  ASSUME NEW o, LoneType(o), UNCHANGED <<program, sent>>,
         chan' \in [Channels(program) -> Seq(Single)], task' = [x \in {o} |-> task'[o]],
         task'[o] \in Works, Busy(task'[o]), fly' = fly, now' \in Nat, panics' \in Nat,
         out' \in Seq([from : {o}, msg : Seq(Event)]), taken' \in [{o} -> Seq(Stored)]
  PROVE  LoneType(o)'
<1>1. Lone(o)' /\ (Kind(o) \in Solo)' /\ Channels(program)' = Channels(program)
  BY DEF LoneType, Lone, Ops, Kind
<1>2. task' \in [{o} -> Works]
  BY Zenon
<1>3. Busy(task[o])'
  BY DEF Busy
<1> QED
  BY <1>1, <1>2, <1>3 DEF LoneType

(* The tail of a channel. *)
LEMMA TakeHead ==
  ASSUME NEW C, NEW f \in [C -> Seq(Single)], NEW c \in C, f[c] # <<>>
  PROVE  /\ Head(f[c]) \in Single /\ [f EXCEPT ![c] = Tail(f[c])] \in [C -> Seq(Single)]
<1> DEFINE q == f[c]
<1>1. q \in Seq(Single) /\ q # <<>>
  OBVIOUS
<1> HIDE DEF q
<1>2. Head(q) \in Single /\ Tail(q) \in Seq(Single)
  BY <1>1
<1> QED
  BY <1>2 DEF q

(* So every step of it keeps the types. *)
LEMMA LoneTypeKept ==
  ASSUME NEW o, LoneType(o), [Next]_vars
  PROVE  LoneType(o)'
<1>1. /\ task \in [{o} -> Works] /\ chan \in [Channels(program) -> Seq(Single)]
      /\ taken \in [{o} -> Seq(Stored)] /\ out \in Seq([from : {o}, msg : Seq(Event)])
      /\ now \in Nat /\ panics \in Nat /\ task[o] \in Works
      /\ task[o].pend \in Seq(Seq(Event)) /\ task[o].buf \in Seq(Stored)
      /\ Busy(task[o])
  BY DEF LoneType, Works
<1>2. CASE Emit
  <2>1. PICK c \in Channels(program), e \in Event :
          /\ e.n = Len(sent) + 1
          /\ chan' = [chan EXCEPT ![c] = Append(chan[c], <<e>>)]
          /\ sent' = Append(sent, [e |-> e, c |-> c])
          /\ UNCHANGED <<program, task, fly, now, panics, out, taken>>
    BY <1>2, LoneEmit
  <2>2. <<e>> \in Single
    BY DEF Single
  <2>3. chan' \in [Channels(program) -> Seq(Single)]
    BY <1>1, <2>1, <2>2
  <2>4. sent \in Seq([e : Event, c : Channels(program)]) /\ \A i \in DOMAIN sent : sent[i].e.n = i
    BY DEF LoneType
  <2>5. [e |-> e, c |-> c] \in [e : Event, c : Channels(program)]
    OBVIOUS
  <2> DEFINE x == [e |-> e, c |-> c]
  <2>6. x.e.n = Len(sent) + 1
    BY <2>1
  <2> HIDE DEF x
  <2>7. /\ sent' \in Seq([e : Event, c : Channels(program)])
        /\ \A i \in DOMAIN sent' : sent'[i].e.n = i
    <3>1. sent' = Append(sent, x) /\ x \in [e : Event, c : Channels(program)]
      BY <2>1, <2>5 DEF x
    <3>2. \A i \in DOMAIN sent' :
            (i \in DOMAIN sent /\ sent'[i] = sent[i]) \/ (i = Len(sent) + 1 /\ sent'[i] = x)
      BY <2>4, <3>1
    <3> QED
      BY <2>4, <2>6, <3>1, <3>2
  <2>8. Channels(program)' = Channels(program) /\ Lone(o)' /\ (Kind(o) \in Solo)'
    BY <2>1 DEF LoneType, Lone, Ops, Kind
  <2> QED
    BY <2>1, <2>3, <2>7, <2>8 DEF LoneType
<1>3. CASE Second \/ UNCHANGED vars
  <2>1. now' \in Nat /\ UNCHANGED <<program, chan, task, fly, panics, sent, out, taken>>
    BY <1>1, <1>3 DEF Second, vars
  <2>2. task' = [x \in {o} |-> task'[o]] /\ Busy(task'[o])
    BY <1>1, <2>1 DEF Busy
  <2> QED
    BY <1>1, <2>1, <2>2, LoneKept
<1>4. CASE Begin(o)
  <2> DEFINE b == IF Kind(o) = "join" THEN Recent(task[o].buf, now, program[o].size)
                  ELSE task[o].buf
             w == [at |-> "wait", pend |-> task[o].pend, buf |-> b, mark |-> now,
                   due |-> task[o].due, until |-> task[o].until, backoff |-> task[o].backoff]
  <2>1. b \in Seq(Stored)
    BY <1>1, RecentType
  <2>2. w \in Works
    <3> HIDE DEF b
    <3> QED
      BY <1>1, <2>1 DEF Works
  <2>3. /\ UNCHANGED <<program, chan, fly, now, panics, sent, out, taken>>
        /\ task' = [x \in {o} |-> task'[o]] /\ task'[o] = w
    BY <1>4, LoneBegin
  <2>5. Busy(w)
    <3>1. task[o].at = "top"
      BY <1>4, LoneBegin
    <3>2. w.at = "wait" /\ w.pend = task[o].pend
      <4> HIDE DEF b
      <4> QED
        OBVIOUS
    <3> QED
      BY <1>1, <3>1, <3>2 DEF Busy
  <2> HIDE DEF w
  <2>4. task'[o] \in Works /\ Busy(task'[o])
    BY <2>2, <2>3, <2>5
  <2> QED
    BY <1>1, <2>3, <2>4, LoneKept
<1>5. ASSUME NEW port \in Ports(Kind(o)), Receive(o, port)
      PROVE  LoneType(o)'
  <2> DEFINE c == <<o, port>>
             m == Head(chan[c])
             r == Process(o, task[o].buf, port, m)
             at == After(o, r.send)
             w == [at |-> at, pend |-> r.send, buf |-> r.buf,
                   mark |-> task[o].mark, due |-> task[o].due, until |-> task[o].until,
                   backoff |-> task[o].backoff]
             more == IF Kind(o) \in {"join", "pattern"} THEN Append(taken[o], Entry(port, m))
                     ELSE taken[o]
  <2>1. /\ chan[c] # <<>> /\ c \in Channels(program)
        /\ chan' = [chan EXCEPT ![c] = Tail(chan[c])]
        /\ UNCHANGED <<program, fly, now, panics, sent, out>>
        /\ task' = [x \in {o} |-> task'[o]] /\ task'[o] = w
        /\ taken' = [taken EXCEPT ![o] = more]
    BY <1>5, LoneReceive
  <2>2. m \in Single /\ chan' \in [Channels(program) -> Seq(Single)]
    <3> HIDE DEF c
    <3> QED
      BY <1>1, <2>1, TakeHead
  <2>3. port \in {"input", "left", "right"}
    BY LoneChannels
  <2>4. r.send \in Seq(Seq(Event)) /\ r.buf \in Seq(Stored)
    <3>1. Kind(o) \in Solo
      BY DEF LoneType
    <3> HIDE DEF m
    <3> QED
      BY <1>1, <2>2, <2>3, <3>1, ProcessType
  <2>5. w \in Works /\ Busy(w)
    <3>1. at \in {"top", "wait", "send", "down"} /\ (at = "send" <=> r.send # <<>>)
      BY AfterIs
    <3> HIDE DEF r, at
    <3> QED
      BY <1>1, <2>4, <3>1 DEF Works, Busy
  <2>6. taken' \in [{o} -> Seq(Stored)]
    <3>1. Entry(port, m) \in Stored
      BY <1>1, <2>2, <2>3 DEF Entry, Stored
    <3>2. more \in Seq(Stored)
      <4>1. taken[o] \in Seq(Stored)
        BY <1>1
      <4> QED
        BY <3>1, <4>1
    <3> HIDE DEF more
    <3> QED
      BY <1>1, <2>1, <3>2
  <2>7. /\ UNCHANGED <<program, fly, now, panics, sent, out>>
        /\ task' = [x \in {o} |-> task'[o]] /\ task'[o] = w
    BY <2>1
  <2> HIDE DEF w, r, m, c, more
  <2>8. task'[o] \in Works /\ Busy(task'[o])
    BY <2>5, <2>7
  <2> QED
    BY <1>1, <2>2, <2>6, <2>7, <2>8, LoneKept
<1>6. CASE Tick(o)
  <2> DEFINE active == Recent(task[o].buf, task[o].mark, program[o].size)
             send == IF active = <<>> THEN <<>> ELSE <<Events(active)>>
             b == IF Kind(o) = "tumbling_time" THEN <<>> ELSE active
             at == After(o, send)
             w == [at |-> at, pend |-> send, buf |-> b, mark |-> task[o].mark,
                   due |-> task[o].due + 1, until |-> task[o].until,
                   backoff |-> task[o].backoff]
  <2>1. active \in Seq(Stored)
    BY <1>1, RecentType
  <2>2. /\ UNCHANGED <<program, chan, fly, now, panics, sent, out, taken>>
        /\ task' = [x \in {o} |-> task'[o]] /\ task'[o] = w
    BY <1>6, LoneTick
  <2> HIDE DEF active
  <2>3. send \in Seq(Seq(Event)) /\ b \in Seq(Stored)
    BY <2>1, EventsAre
  <2>4. w \in Works /\ Busy(w)
    <3>1. at \in {"top", "wait", "send", "down"} /\ (at = "send" <=> send # <<>>)
      BY AfterIs
    <3> HIDE DEF send, b, at
    <3> QED
      BY <1>1, <2>3, <3>1 DEF Works, Busy
  <2> HIDE DEF w
  <2>5. task'[o] \in Works /\ Busy(task'[o])
    BY <2>2, <2>4
  <2> QED
    BY <1>1, <2>2, <2>5, LoneKept
<1>7. CASE Send(o)
  <2> DEFINE p == Tail(task[o].pend)
             at == After(o, p)
             w == [at |-> at, pend |-> p, buf |-> task[o].buf, mark |-> task[o].mark,
                   due |-> task[o].due, until |-> task[o].until, backoff |-> task[o].backoff]
  <2>1. /\ UNCHANGED <<program, chan, fly, now, panics, sent, taken>>
        /\ out' = Append(out, [from |-> o, msg |-> Head(task[o].pend)])
        /\ task' = [x \in {o} |-> task'[o]] /\ task'[o] = w
    BY <1>7, LoneSend
  <2>2. task[o].pend # <<>>
    <3>1. task[o].at = "send"
      BY <1>7, LoneSend
    <3> QED
      BY <1>1, <3>1 DEF Busy
  <2>3. Head(task[o].pend) \in Seq(Event) /\ p \in Seq(Seq(Event))
    <3> DEFINE q == task[o].pend
    <3>1. q \in Seq(Seq(Event)) /\ q # <<>>
      BY <1>1, <2>2
    <3> HIDE DEF q
    <3>2. Head(q) \in Seq(Event) /\ Tail(q) \in Seq(Seq(Event))
      BY <3>1
    <3> QED
      BY <3>2 DEF q
  <2>4. w \in Works /\ Busy(w)
    <3>1. at \in {"top", "wait", "send", "down"} /\ (at = "send" <=> p # <<>>)
      BY AfterIs
    <3> HIDE DEF p, at
    <3> QED
      BY <1>1, <2>3, <3>1 DEF Works, Busy
  <2>5. out' \in Seq([from : {o}, msg : Seq(Event)])
    <3> DEFINE x == [from |-> o, msg |-> Head(task[o].pend)]
    <3>1. x \in [from : {o}, msg : Seq(Event)]
      BY <2>3
    <3> HIDE DEF x
    <3> QED
      BY <1>1, <2>1, <3>1 DEF x
  <2>6. /\ UNCHANGED <<program, chan, fly, now, panics, sent, taken>>
        /\ task' = [x \in {o} |-> task'[o]] /\ task'[o] = w
    BY <2>1
  <2> HIDE DEF w
  <2>7. task'[o] \in Works /\ Busy(task'[o])
    BY <2>4, <2>6
  <2> QED
    BY <1>1, <2>5, <2>6, <2>7, LoneKept
<1>8. CASE Restart(o)
  <2>1. /\ UNCHANGED <<program, chan, fly, now, panics, sent, out, taken>>
        /\ task' = [x \in {o} |-> task'[o]] /\ task'[o] \in Works
        /\ task'[o].at \in {"top", "wait"} /\ task'[o].pend = <<>>
    BY <1>8, LoneRestart
  <2>2. Busy(task'[o])
    BY <2>1 DEF Busy
  <2> QED
    BY <1>1, <2>1, <2>2, LoneKept
<1>9. ASSUME Down(o) PROVE /\ task' = [x \in {o} |-> task'[o]] /\ task'[o] \in Works
                           /\ Busy(task'[o]) /\ taken' \in [{o} -> Seq(Stored)]
  <2>1. /\ task' = [x \in {o} |-> task'[o]] /\ task'[o] \in Works
        /\ taken' = [taken EXCEPT ![o] = <<>>]
        /\ task'[o].at = "down" /\ task'[o].pend = <<>>
    BY <1>9, LoneDown
  <2> QED
    BY <1>1, <2>1 DEF Busy
<1>10. ASSUME NEW port \in Ports(Kind(o)), ReceivePanics(o, port)
       PROVE  LoneType(o)'
  <2> DEFINE c == <<o, port>>
  <2>1. /\ chan[c] # <<>> /\ c \in Channels(program) /\ Down(o)
        /\ chan' = [chan EXCEPT ![c] = Tail(chan[c])] /\ panics' = panics + 1
        /\ UNCHANGED <<program, fly, now, sent, out>>
    BY <1>10, LonePanics
  <2>2. chan' \in [Channels(program) -> Seq(Single)]
    <3> HIDE DEF c
    <3> QED
      BY <1>1, <2>1, TakeHead
  <2>3. panics' \in Nat
    BY <1>1, <2>1
  <2> QED
    BY <1>1, <1>9, <2>1, <2>2, <2>3, LoneKept
<1>11. CASE SendPanics(o)
  <2>1. /\ Down(o) /\ panics' = panics + 1 /\ UNCHANGED <<program, chan, fly, now, sent, out>>
    BY <1>11, LoneSendPanics
  <2>2. panics' \in Nat
    BY <1>1, <2>1
  <2> QED
    BY <1>1, <1>9, <2>1, <2>2, LoneKept
<1> QED
  BY <1>2, <1>3, <1>4, <1>5, <1>6, <1>7, <1>8, <1>10, <1>11, LoneNext

-----------------------------------------------------------------------------
(* A window alone: the numbers of a stretch of events. *)
LEMMA FromNumbers ==
  ASSUME NEW se, NEW m, NEW a, Numbered(se), From(se, m, a), Len(m) # 0
  PROVE  /\ First(m) = a /\ Final(m) = (a + Len(m)) - 1
         /\ \A k \in 1..Len(m) : m[k].n = (First(m) + k) - 1
         /\ Len(m) \in Nat \ {0} /\ a \in Nat \ {0}
<1>1. Len(m) \in Nat \ {0} /\ a \in Nat \ {0} /\ Len(se) \in Nat /\ a + Len(m) <= Len(se) + 1
  BY DEF From, Numbered
<1>2. ASSUME NEW k \in 1..Len(m) PROVE m[k].n = (a + k) - 1
  <2>1. (a + k) - 1 \in 1..Len(se)
    BY <1>1
  <2>2. m[k] = se[(a + k) - 1].e
    BY DEF From
  <2> QED
    BY <2>1, <2>2 DEF Numbered
<1>3. 1 \in 1..Len(m) /\ Len(m) \in 1..Len(m)
  BY <1>1
<1>4. First(m) = a
  <2>1. m[1].n = (a + 1) - 1
    BY <1>2, <1>3
  <2> QED
    BY <1>1, <2>1 DEF First
<1>5. Final(m) = (a + Len(m)) - 1
  BY <1>2, <1>3 DEF Final
<1> QED
  BY <1>1, <1>2, <1>4, <1>5

(* A stretch stays one when more is sent. *)
LEMMA FromGrows ==
  ASSUME NEW se, NEW s2, NEW e, Grown(se, s2, e), NEW m, NEW a, From(se, m, a)
  PROVE  From(s2, m, a)
<1>1. Len(s2) = Len(se) + 1 /\ \A i \in 1..Len(se) : s2[i] = se[i]
  BY DEF Grown
<1>2. /\ Len(se) \in Nat /\ m \in Seq(Event) /\ a \in Nat \ {0} /\ a + Len(m) <= Len(se) + 1
      /\ Len(m) \in Nat
  BY DEF From, Numbered, Grown
<1>3. ASSUME NEW k \in 1..Len(m) PROVE m[k] = s2[(a + k) - 1].e
  <2>1. (a + k) - 1 \in 1..Len(se)
    BY <1>2
  <2>2. m[k] = se[(a + k) - 1].e
    BY DEF From
  <2> QED
    BY <1>1, <2>1, <2>2
<1> QED
  BY <1>1, <1>2, <1>3 DEF From

(* An event is sent. *)
LEMMA GoingEmit ==
  ASSUME NEW kind, NEW size, NEW se, NEW q, NEW b, NEW t, NEW p, NEW ou, NEW r,
         Going(kind, size, se, q, b, t, p, ou, r),
         NEW s2, NEW e \in Event, Grown(se, s2, e)
  PROVE  Going(kind, size, s2, Append(q, <<e>>), b, t, p, ou, r)
<1>1. /\ Numbered(se) /\ Waits(se, q, r) /\ Buffered(se, b, r) /\ r \in Nat
      /\ OutInOrder(kind, size, se, ou, r, Len(b)) /\ NextUp(kind, size, se, p, ou, r, Len(b))
      /\ TimeWindow(kind) => Sorted(b, t)
  BY DEF Going, Waits
<1>2. /\ Numbered(s2) /\ Len(s2) = Len(se) + 1 /\ s2[Len(se) + 1].e = e /\ Len(se) \in Nat
      /\ \A i \in 1..Len(se) : s2[i] = se[i]
  BY DEF Grown, Numbered
<1>3. \A m : IsWindow(kind, size, se, m) => IsWindow(kind, size, s2, m)
  BY FromGrows DEF IsWindow
<1>4. Waits(s2, Append(q, <<e>>), r)
  <2>1. q \in Seq(Single) /\ <<e>> \in Single /\ Len(q) \in Nat /\ r + Len(q) = Len(se)
    BY <1>1 DEF Waits, Single
  <2> DEFINE x == <<e>>
             q2 == Append(q, x)
  <2> HIDE DEF x
  <2>2. /\ q2 \in Seq(Single) /\ Len(q2) = Len(q) + 1 /\ q2[Len(q) + 1] = x
        /\ \A i \in 1..Len(q) : q2[i] = q[i]
    BY <2>1 DEF x
  <2> HIDE DEF q2
  <2>3. ASSUME NEW i \in 1..Len(q2) PROVE q2[i] = <<s2[r + i].e>>
    <3>1. CASE i \in 1..Len(q)
      <4>1. r + i \in 1..Len(se) /\ q[i] = <<se[r + i].e>>
        BY <1>1, <2>1, <3>1 DEF Waits
      <4> QED
        BY <1>2, <2>2, <3>1, <4>1
    <3>2. CASE i = Len(q) + 1
      <4>1. r + i = Len(se) + 1
        BY <1>1, <2>1, <3>2
      <4> QED
        BY <1>2, <2>2, <3>2, <4>1 DEF x
    <3> QED
      BY <2>1, <2>2, <3>1, <3>2
  <2>4. r + Len(q2) = Len(s2)
    BY <1>1, <1>2, <2>1, <2>2
  <2> QED
    BY <1>1, <2>2, <2>3, <2>4 DEF Waits, q2, x
<1>5. Buffered(s2, b, r)
  <2>0. /\ b \in Seq(Stored) /\ Len(b) <= r /\ r + Len(q) = Len(se) /\ q \in Seq(Single)
        /\ \A i \in 1..Len(b) : b[i].msg = <<se[(r - Len(b)) + i].e>>
    BY <1>1 DEF Buffered, Waits
  <2>a. Len(b) \in Nat /\ Len(q) \in Nat
    BY <2>0
  <2>1. /\ b \in Seq(Stored) /\ Len(b) <= r /\ r <= Len(se) /\ Len(b) \in Nat
        /\ \A i \in 1..Len(b) : b[i].msg = <<se[(r - Len(b)) + i].e>>
    BY <1>1, <1>2, <2>0, <2>a
  <2>2. \A i \in 1..Len(b) : (r - Len(b)) + i \in 1..Len(se)
    BY <1>1, <1>2, <2>1
  <2> QED
    BY <1>2, <2>1, <2>2 DEF Buffered
<1>6. OutInOrder(kind, size, s2, ou, r, Len(b)) /\ NextUp(kind, size, s2, p, ou, r, Len(b))
  BY <1>1, <1>3 DEF OutInOrder, NextUp
<1> QED
  BY <1>1, <1>2, <1>4, <1>5, <1>6 DEF Going

(* Time passes. *)
LEMMA GoingClock ==
  ASSUME NEW kind, NEW size, NEW se, NEW q, NEW b, NEW t \in Nat, NEW p, NEW ou, NEW r,
         Going(kind, size, se, q, b, t, p, ou, r), NEW t2 \in Nat, t <= t2
  PROVE  Going(kind, size, se, q, b, t2, p, ou, r)
<1>1. TimeWindow(kind) => Sorted(b, t2)
  <2> SUFFICES ASSUME TimeWindow(kind) PROVE Sorted(b, t2)
    OBVIOUS
  <2>1. Sorted(b, t) /\ b \in Seq(Stored)
    BY DEF Going, Buffered
  <2>2. \A i \in 1..Len(b) : b[i].t \in Nat
    BY <2>1, StoredIs
  <2> QED
    BY <2>1, <2>2 DEF Sorted
<1> QED
  BY <1>1 DEF Going

(* The numbers at the ends of a window. *)
LEMMA WindowNumbers ==
  ASSUME NEW kind, NEW size, NEW se, NEW m, Numbered(se), IsWindow(kind, size, se, m)
  PROVE  /\ First(m) \in Nat /\ Final(m) \in Nat /\ Len(m) \in Nat \ {0}
         /\ \A k \in 1..Len(m) : m[k].n = (First(m) + k) - 1
<1>1. From(se, m, First(m)) /\ Len(m) # 0
  BY DEF IsWindow
<1>2. /\ Final(m) = (First(m) + Len(m)) - 1
      /\ Len(m) \in Nat \ {0} /\ First(m) \in Nat \ {0}
      /\ \A k \in 1..Len(m) : m[k].n = (First(m) + k) - 1
  BY <1>1, FromNumbers
<1> QED
  BY <1>2

(* Behind a shorter buffer, or one that starts later, is no harder. *)
LEMMA OutStays ==
  ASSUME NEW kind, NEW size, NEW se, NEW ou, NEW r \in Nat, NEW n \in Nat, Numbered(se),
         OutInOrder(kind, size, se, ou, r, n), NEW r2 \in Nat, NEW n2 \in Nat,
         r <= r2, r - n <= r2 - n2
  PROVE  OutInOrder(kind, size, se, ou, r2, n2)
<1>1. ASSUME NEW i \in DOMAIN ou PROVE Trails(kind, ou[i].msg, r2, n2)
  <2>1. IsWindow(kind, size, se, ou[i].msg) /\ Trails(kind, ou[i].msg, r, n)
    BY DEF OutInOrder
  <2>2. First(ou[i].msg) \in Nat /\ Final(ou[i].msg) \in Nat
    BY <2>1, WindowNumbers
  <2> QED
    BY <2>1, <2>2 DEF Trails
<1> QED
  BY <1>1 DEF OutInOrder

(* A stretch of events that waits has a head, which is the next one. *)
LEMMA WaitsTail ==
  ASSUME NEW se, NEW q, NEW r, Numbered(se), Waits(se, q, r), q # <<>>
  PROVE  /\ Waits(se, Tail(q), r + 1) /\ r + 1 <= Len(se) /\ Head(q) = <<se[r + 1].e>>
<1>0. q \in Seq(Single) /\ r \in Nat /\ r + Len(q) = Len(se) /\ Len(se) \in Nat
  BY DEF Waits, Numbered
<1>1. /\ q \in Seq(Single) /\ r \in Nat /\ r + Len(q) = Len(se) /\ Len(q) \in Nat \ {0}
      /\ Len(se) \in Nat
  BY <1>0
<1>2. /\ Tail(q) \in Seq(Single) /\ Len(Tail(q)) = Len(q) - 1 /\ Head(q) = q[1]
      /\ \A i \in 1..(Len(q) - 1) : Tail(q)[i] = q[i + 1]
  BY <1>1
<1>3. ASSUME NEW i \in 1..(Len(q) - 1) PROVE Tail(q)[i] = <<se[(r + 1) + i].e>>
  <2>1. i + 1 \in 1..Len(q) /\ r + (i + 1) = (r + 1) + i
    BY <1>1
  <2>2. q[i + 1] = <<se[r + (i + 1)].e>>
    BY <2>1 DEF Waits
  <2> QED
    BY <1>2, <2>1, <2>2
<1>4. q[1] = <<se[r + 1].e>>
  BY <1>1 DEF Waits
<1> QED
  BY <1>1, <1>2, <1>3, <1>4 DEF Waits

(* Nothing is left of a task that panicked, and maybe of what it received. *)
LEMMA GoingDown ==
  ASSUME NEW kind, NEW size, NEW se, NEW q, NEW b, NEW t, NEW p, NEW ou, NEW r,
         Going(kind, size, se, q, b, t, p, ou, r), NEW t2
  PROVE  /\ Going(kind, size, se, q, <<>>, t2, <<>>, ou, r)
         /\ q # <<>> => Going(kind, size, se, Tail(q), <<>>, t2, <<>>, ou, r + 1)
<1>1. /\ Numbered(se) /\ Waits(se, q, r) /\ r \in Nat /\ Len(b) \in Nat /\ Len(b) <= r
      /\ OutInOrder(kind, size, se, ou, r, Len(b))
  BY DEF Going, Waits, Buffered
<1>2. ASSUME NEW r2 \in Nat, r <= r2
      PROVE  /\ Buffered(se, <<>>, r2) /\ Sorted(<<>>, t2)
             /\ OutInOrder(kind, size, se, ou, r2, Len(<<>>))
             /\ NextUp(kind, size, se, <<>>, ou, r2, Len(<<>>))
  <2>1. OutInOrder(kind, size, se, ou, r2, 0)
    BY <1>1, <1>2, OutStays
  <2>2. <<>> \in Seq(Stored) /\ Len(<<>>) = 0
    OBVIOUS
  <2> QED
    BY <1>2, <2>1, <2>2 DEF Buffered, Sorted, NextUp
<1>3. Going(kind, size, se, q, <<>>, t2, <<>>, ou, r)
  <2> DEFINE none == <<>>
  <2>1. /\ Buffered(se, none, r) /\ Sorted(none, t2)
        /\ OutInOrder(kind, size, se, ou, r, Len(none))
        /\ NextUp(kind, size, se, none, ou, r, Len(none))
    BY <1>1, <1>2
  <2> HIDE DEF none
  <2>2. Going(kind, size, se, q, none, t2, none, ou, r)
    BY <1>1, <2>1 DEF Going
  <2> QED
    BY <2>2 DEF none
<1>4. ASSUME q # <<>> PROVE Going(kind, size, se, Tail(q), <<>>, t2, <<>>, ou, r + 1)
  <2> DEFINE none == <<>>
             r2 == r + 1
  <2>1. /\ Buffered(se, none, r2) /\ Sorted(none, t2)
        /\ OutInOrder(kind, size, se, ou, r2, Len(none))
        /\ NextUp(kind, size, se, none, ou, r2, Len(none))
    BY <1>1, <1>2
  <2>2. Waits(se, Tail(q), r2)
    BY <1>1, <1>4, WaitsTail
  <2> HIDE DEF none, r2
  <2>3. Going(kind, size, se, Tail(q), none, t2, none, ou, r2)
    BY <1>1, <2>1, <2>2 DEF Going
  <2> QED
    BY <2>3 DEF none, r2
<1> QED
  BY <1>3, <1>4

(* A message is received and kept. *)
LEMMA GoingKeep ==
  ASSUME NEW kind, NEW size, NEW se, NEW q, NEW b, NEW t \in Nat, NEW p, NEW ou, NEW r,
         Going(kind, size, se, q, b, t, p, ou, r), q # <<>>,
         NEW x \in Stored, x.msg = Head(q), TimeWindow(kind) => x.t = t
  PROVE  Going(kind, size, se, Tail(q), Append(b, x), t, <<>>, ou, r + 1)
<1> DEFINE a == Append(b, x)
           r2 == r + 1
           none == <<>>
<1>1. /\ Numbered(se) /\ Waits(se, q, r) /\ r \in Nat /\ b \in Seq(Stored) /\ Len(b) <= r
      /\ OutInOrder(kind, size, se, ou, r, Len(b)) /\ (TimeWindow(kind) => Sorted(b, t))
      /\ \A i \in 1..Len(b) : b[i].msg = <<se[(r - Len(b)) + i].e>>
  BY DEF Going, Waits, Buffered
<1>2. Waits(se, Tail(q), r2) /\ x.msg = <<se[r2].e>>
  BY <1>1, WaitsTail
<1>3. /\ a \in Seq(Stored) /\ Len(a) = Len(b) + 1 /\ a[Len(a)] = x /\ Len(b) \in Nat
      /\ \A i \in 1..Len(b) : a[i] = b[i]
  BY <1>1
<1> HIDE DEF a
<1>4. Buffered(se, a, r2)
  <2>1. ASSUME NEW i \in 1..Len(a) PROVE a[i].msg = <<se[(r2 - Len(a)) + i].e>>
    <3>1. r2 - Len(a) = r - Len(b) /\ (r2 - Len(a)) + Len(a) = r2
      BY <1>1, <1>3
    <3>2. CASE i \in 1..Len(b)
      BY <1>1, <1>3, <3>1, <3>2
    <3>3. CASE i = Len(a)
      BY <1>2, <1>3, <3>1, <3>3
    <3> QED
      BY <1>3, <3>2, <3>3
  <2> QED
    BY <1>1, <1>3, <2>1 DEF Buffered
<1>5. TimeWindow(kind) => Sorted(a, t)
  <2> SUFFICES ASSUME TimeWindow(kind) PROVE Sorted(a, t)
    OBVIOUS
  <2>1. Sorted(b, t) /\ x.t = t
    BY <1>1
  <2>2. ASSUME NEW i \in 1..Len(a) PROVE i \in 1..Len(b) \/ i = Len(a)
    BY <1>3
  <2>3. \A i \in 1..Len(a) : a[i].t <= t
    BY <1>3, <2>1, <2>2 DEF Sorted
  <2>4. ASSUME NEW i \in 1..Len(a), NEW j \in 1..Len(a), i <= j PROVE a[i].t <= a[j].t
    <3>1. CASE j = Len(a)
      BY <1>3, <2>1, <2>3, <3>1
    <3>2. CASE j # Len(a)
      <4>1. i \in 1..Len(b) /\ j \in 1..Len(b)
        BY <1>3, <2>4, <3>2
      <4> QED
        BY <1>3, <2>1, <2>4, <4>1 DEF Sorted
    <3> QED
      BY <3>1, <3>2
  <2> QED
    BY <2>3, <2>4 DEF Sorted
<1>6. OutInOrder(kind, size, se, ou, r2, Len(a))
  <2> DEFINE n == Len(b)
             n2 == Len(a)
  <2>1. n \in Nat /\ n2 \in Nat /\ r2 \in Nat /\ r <= r2 /\ r - n <= r2 - n2
    BY <1>1, <1>3
  <2>2. OutInOrder(kind, size, se, ou, r, n)
    BY <1>1
  <2> HIDE DEF n, n2, r2
  <2>3. OutInOrder(kind, size, se, ou, r2, n2)
    BY <1>1, <2>1, <2>2, OutStays
  <2> QED
    BY <2>3 DEF n2
<1>7. NextUp(kind, size, se, none, ou, r2, Len(a))
  BY DEF NextUp
<1> HIDE DEF r2, none
<1>8. Going(kind, size, se, Tail(q), a, t, none, ou, r2)
  BY <1>1, <1>2, <1>4, <1>5, <1>6, <1>7 DEF Going
<1> QED
  BY <1>8 DEF a, r2, none

(* The events of a buffer are a stretch. *)
LEMMA BufferFrom ==
  ASSUME NEW se, NEW a, NEW r \in Nat, Numbered(se), Buffered(se, a, r), r <= Len(se)
  PROVE  From(se, Events(a), (r - Len(a)) + 1) /\ Len(Events(a)) = Len(a)
<1> DEFINE m == Events(a)
           f == (r - Len(a)) + 1
<1>1. /\ a \in Seq(Stored) /\ Len(a) <= r /\ Len(se) \in Nat
      /\ \A i \in 1..Len(a) : a[i].msg = <<se[(r - Len(a)) + i].e>>
  BY DEF Buffered, Numbered
<1>2. /\ m \in Seq(Event) /\ Len(m) = Len(a) /\ \A i \in 1..Len(a) : m[i] = a[i].msg[1]
  BY <1>1, EventsAre
<1>3. Len(a) \in Nat
  BY <1>1
<1> HIDE DEF m
<1>4. f \in Nat \ {0} /\ f + Len(m) <= Len(se) + 1
  BY <1>1, <1>2, <1>3
<1>5. ASSUME NEW k \in 1..Len(m) PROVE m[k] = se[(f + k) - 1].e
  <2>1. (f + k) - 1 = (r - Len(a)) + k
    BY <1>1, <1>2, <1>3
  <2>2. m[k] = a[k].msg[1] /\ a[k].msg = <<se[(r - Len(a)) + k].e>>
    BY <1>1, <1>2
  <2> QED
    BY <2>1, <2>2
<1> HIDE DEF f
<1>6. From(se, m, f)
  BY <1>2, <1>4, <1>5 DEF From
<1> QED
  BY <1>2, <1>6 DEF m, f

(* The buffer becomes a window, and what stays of it is at its end. *)
LEMMA GoingWindow ==
  ASSUME NEW kind, NEW size, NEW se, NEW q, NEW a, NEW t, NEW t2, NEW ou, NEW r,
         Going(kind, size, se, q, a, t, <<>>, ou, r), a # <<>>, Sized(kind, size, Events(a)),
         NEW b, Buffered(se, b, r), TimeWindow(kind) => Sorted(b, t2), Len(b) <= Len(a),
         Tumbles(kind) => Len(b) = 0
  PROVE  Going(kind, size, se, q, b, t2, <<Events(a)>>, ou, r)
<1> DEFINE m == Events(a)
           p == <<m>>
<1>1. /\ Numbered(se) /\ Waits(se, q, r) /\ r \in Nat /\ Buffered(se, a, r)
      /\ OutInOrder(kind, size, se, ou, r, Len(a)) /\ q \in Seq(Single) /\ r + Len(q) = Len(se)
      /\ a \in Seq(Stored) /\ Len(a) <= r /\ b \in Seq(Stored)
  BY DEF Going, Waits, Buffered
<1>2. Len(q) \in Nat /\ Len(a) \in Nat \ {0} /\ Len(b) \in Nat /\ r <= Len(se)
  <2>1. Len(q) \in Nat /\ Len(se) \in Nat
    BY <1>1 DEF Numbered
  <2>2. Len(a) \in Nat \ {0}
    BY <1>1
  <2> QED
    BY <1>1, <2>1, <2>2
<1>3. From(se, m, (r - Len(a)) + 1) /\ Len(m) = Len(a)
  BY <1>1, <1>2, BufferFrom
<1>4. p # <<>> /\ p[1] = m
  OBVIOUS
<1> HIDE DEF m
<1>5. First(m) = (r - Len(a)) + 1 /\ Final(m) = r
  <2>1. /\ First(m) = (r - Len(a)) + 1
        /\ Final(m) = (((r - Len(a)) + 1) + Len(m)) - 1
    BY <1>1, <1>2, <1>3, FromNumbers
  <2> QED
    BY <1>1, <1>2, <1>3, <2>1
<1>6. IsWindow(kind, size, se, m)
  <2>1. Sized(kind, size, m)
    BY DEF m
  <2> QED
    BY <1>2, <1>3, <1>5, <2>1 DEF IsWindow
<1>7. /\ Trails(kind, m, r, 0) /\ First(m) <= (r - Len(b)) + 1
  BY <1>1, <1>2, <1>5 DEF Trails
<1>8. ASSUME NEW i \in DOMAIN ou PROVE Precedes(kind, ou[i].msg, m)
  <2>1. IsWindow(kind, size, se, ou[i].msg) /\ Trails(kind, ou[i].msg, r, Len(a))
    BY <1>1 DEF OutInOrder
  <2>2. First(ou[i].msg) \in Nat /\ Final(ou[i].msg) \in Nat
    BY <1>1, <2>1, WindowNumbers
  <2> QED
    BY <1>1, <1>2, <1>5, <2>1, <2>2 DEF Trails, Precedes
<1> DEFINE n2 == Len(b)
<1>9. NextUp(kind, size, se, p, ou, r, n2)
  <2>1. p = <<p[1]>> /\ p[1] = m
    BY <1>4
  <2>2. n2 = Len(b) /\ (Tumbles(kind) => n2 = 0)
    OBVIOUS
  <2> HIDE DEF p, n2
  <2> QED
    BY <1>6, <1>7, <1>8, <2>1, <2>2 DEF NextUp
<1>10. OutInOrder(kind, size, se, ou, r, n2)
  <2> DEFINE n == Len(a)
  <2>1. n \in Nat /\ n2 \in Nat /\ r <= r /\ r - n <= r - n2
    BY <1>1, <1>2
  <2>2. OutInOrder(kind, size, se, ou, r, n)
    BY <1>1
  <2> HIDE DEF n, n2
  <2> QED
    BY <1>1, <2>1, <2>2, OutStays
<1> HIDE DEF p
<1>11. Going(kind, size, se, q, b, t2, p, ou, r)
  BY <1>1, <1>9, <1>10 DEF Going
<1> QED
  BY <1>11 DEF p, m

(* A window is sent. *)
LEMMA GoingSend ==
  ASSUME NEW kind, NEW size, NEW se, NEW q, NEW b, NEW t, NEW p, NEW L, NEW ou \in Seq(L),
         NEW r, Going(kind, size, se, q, b, t, p, ou, r), p # <<>>,
         NEW x \in L, x.msg = Head(p)
  PROVE  Going(kind, size, se, q, b, t, Tail(p), Append(ou, x), r)
<1> DEFINE n == Len(b)
           m == p[1]
           o2 == Append(ou, x)
<1>1. /\ Numbered(se) /\ Waits(se, q, r) /\ r \in Nat /\ Buffered(se, b, r)
      /\ OutInOrder(kind, size, se, ou, r, n) /\ (TimeWindow(kind) => Sorted(b, t))
      /\ n \in Nat /\ n <= r
  BY DEF Going, Waits, Buffered
<1>2. /\ p = <<m>> /\ IsWindow(kind, size, se, m) /\ Trails(kind, m, r, 0)
      /\ First(m) <= (r - n) + 1 /\ (Tumbles(kind) => n = 0)
      /\ \A i \in DOMAIN ou : Precedes(kind, ou[i].msg, m)
  BY DEF Going, NextUp
<1>3. Tail(p) = <<>> /\ x.msg = m
  <2>1. p = <<m>>
    BY <1>2
  <2> HIDE DEF m
  <2> QED
    BY <2>1
<1>4. /\ Len(o2) = Len(ou) + 1 /\ Len(ou) \in Nat /\ o2[Len(o2)] = x
      /\ \A i \in 1..Len(ou) : o2[i] = ou[i]
      /\ DOMAIN o2 = 1..Len(o2) /\ DOMAIN ou = 1..Len(ou)
  OBVIOUS
<1> HIDE DEF o2, m
<1>5. Trails(kind, m, r, n)
  BY <1>1, <1>2 DEF Trails
<1>6. ASSUME NEW i \in DOMAIN o2 PROVE i \in DOMAIN ou \/ i = Len(o2)
  BY <1>4
<1>7. ASSUME NEW i \in DOMAIN o2
      PROVE IsWindow(kind, size, se, o2[i].msg) /\ Trails(kind, o2[i].msg, r, n)
  <2>1. CASE i \in DOMAIN ou
    BY <1>1, <1>4, <2>1 DEF OutInOrder
  <2>2. CASE i = Len(o2)
    BY <1>2, <1>3, <1>4, <1>5, <2>2
  <2> QED
    BY <1>6, <2>1, <2>2
<1>8. ASSUME NEW i \in DOMAIN o2, NEW j \in DOMAIN o2, j < i
      PROVE Precedes(kind, o2[j].msg, o2[i].msg)
  <2>1. j \in DOMAIN ou
    BY <1>4, <1>8
  <2>2. CASE i \in DOMAIN ou
    BY <1>1, <1>4, <1>8, <2>1, <2>2 DEF OutInOrder
  <2>3. CASE i = Len(o2)
    BY <1>2, <1>3, <1>4, <2>1, <2>3
  <2> QED
    BY <1>6, <2>2, <2>3
<1>9. OutInOrder(kind, size, se, o2, r, n)
  BY <1>7, <1>8 DEF OutInOrder
<1> DEFINE none == <<>>
<1>10. NextUp(kind, size, se, none, o2, r, n)
  BY DEF NextUp
<1> HIDE DEF none
<1>11. Going(kind, size, se, q, b, t, none, o2, r)
  BY <1>1, <1>9, <1>10 DEF Going
<1> QED
  BY <1>3, <1>11 DEF none, o2

(* It is still numbered and sorted. *)
LEMMA EndStays ==
  ASSUME NEW se, NEW a, NEW r \in Nat, Buffered(se, a, r), NEW b, NEW k, EndOf(b, a, k), NEW t
  PROVE  Buffered(se, b, r) /\ (Sorted(a, t) => Sorted(b, t)) /\ Len(b) <= Len(a)
<1>1. /\ a \in Seq(Stored) /\ Len(a) <= r /\ b \in Seq(Stored) /\ k \in 0..Len(a)
      /\ Len(b) = Len(a) - k /\ \A i \in 1..Len(b) : b[i] = a[k + i]
      /\ \A i \in 1..Len(a) : a[i].msg = <<se[(r - Len(a)) + i].e>>
  BY DEF Buffered, EndOf
<1>2. Len(a) \in Nat
  BY <1>1
<1>3. \A i \in 1..Len(b) : k + i \in 1..Len(a)
  BY <1>1, <1>2
<1>4. ASSUME NEW i \in 1..Len(b) PROVE b[i].msg = <<se[(r - Len(b)) + i].e>>
  <2>1. (r - Len(a)) + (k + i) = (r - Len(b)) + i
    BY <1>1, <1>2
  <2> QED
    BY <1>1, <1>3, <2>1
<1>5. Len(b) <= r /\ Len(b) <= Len(a)
  BY <1>1, <1>2
<1>6. ASSUME Sorted(a, t) PROVE Sorted(b, t)
  <2>1. ASSUME NEW i \in 1..Len(b), NEW j \in 1..Len(b), i <= j PROVE b[i].t <= b[j].t
    <3>1. k + i <= k + j
      BY <1>1, <1>2, <2>1
    <3> QED
      BY <1>1, <1>3, <1>6, <3>1 DEF Sorted
  <2> QED
    BY <1>1, <1>3, <1>6, <2>1 DEF Sorted
<1> QED
  BY <1>1, <1>4, <1>5, <1>6 DEF Buffered

(* What is recent of a sorted buffer is its end. *)
LEMMA RecentEnd ==
  ASSUME NEW a \in Seq(Stored), NEW t, Sorted(a, t), NEW mark \in Nat, NEW size \in Nat
  PROVE  \E k : EndOf(Recent(a, mark, size), a, k)
<1> DEFINE S == {x \in ToSet(a) : Age(mark, x) <= size}
           N == Len(a)
<1>1. N \in Nat /\ \A i \in 1..N : a[i] \in ToSet(a) /\ a[i].t \in Nat
  <2>1. \A i \in 1..N : i \in DOMAIN a
    OBVIOUS
  <2> QED
    BY <2>1, StoredIs DEF ToSet, Range
<1>2. ASSUME NEW i \in 1..N, NEW j \in 1..N, i <= j, a[i] \in S PROVE a[j] \in S
  <2>1. a[i].t <= a[j].t /\ a[i].t \in Nat /\ a[j].t \in Nat /\ a[j] \in ToSet(a)
    BY <1>1, <1>2 DEF Sorted
  <2>2. Age(mark, a[i]) <= size
    BY <1>2
  <2>3. Age(mark, a[j]) <= size
    BY <2>1, <2>2 DEF Age
  <2> QED
    BY <2>1, <2>3
<1>3. Recent(a, mark, size) = Those(a, S)
  BY DEF Recent
<1> HIDE DEF S
<1>4. \E k \in 0..N : (k = 0 \/ a[k] \notin S) /\ \A i \in (k + 1)..N : a[i] \in S
  <2> SUFFICES ASSUME \A k \in 0..N : (\A i \in (k + 1)..N : a[i] \in S) => k # 0 /\ a[k] \in S
               PROVE FALSE
    OBVIOUS
  <2> DEFINE T == {n \in Nat : n <= N => \A i \in ((N - n) + 1)..N : a[i] \in S}
  <2>1. 0 \in T
    BY <1>1
  <2>2. ASSUME NEW n \in Nat, n \in T PROVE n + 1 \in T
    <3> SUFFICES ASSUME n + 1 <= N, NEW i \in ((N - (n + 1)) + 1)..N PROVE a[i] \in S
      OBVIOUS
    <3>1. n <= N /\ N - n \in 0..N
      BY <1>1
    <3>2. \A j \in ((N - n) + 1)..N : a[j] \in S
      BY <2>2, <3>1
    <3>3. a[N - n] \in S
      BY <3>1, <3>2
    <3>4. i = N - n \/ i \in ((N - n) + 1)..N
      BY <1>1, <3>1
    <3> QED
      BY <3>2, <3>3, <3>4
  <2>3. Nat \subseteq T
    <3> HIDE DEF T
    <3> QED
      BY <2>1, <2>2, NatBySets
  <2>4. \A i \in 1..N : a[i] \in S
    <3>1. N \in T /\ N <= N
      <4> HIDE DEF T
      <4> QED
        BY <1>1, <2>3
    <3>2. (N - N) + 1 = 1
      BY <1>1
    <3> QED
      BY <3>1, <3>2
  <2> QED
    BY <1>1, <2>4
<1>5. PICK k \in 0..N : (k = 0 \/ a[k] \notin S) /\ \A i \in (k + 1)..N : a[i] \in S
  BY <1>4
<1>6. ASSUME NEW i \in 1..k PROVE a[i] \notin S
  <2>1. k # 0 /\ i \in 1..N /\ k \in 1..N /\ i <= k
    BY <1>1
  <2> QED
    BY <1>2, <1>5, <2>1
<1>7. /\ Those(a, S) \in Seq(Stored) /\ Len(Those(a, S)) = N - k
      /\ \A i \in 1..(N - k) : Those(a, S)[i] = a[k + i]
  BY <1>5, <1>6, ThoseLastOnes
<1> QED
  BY <1>3, <1>7 DEF EndOf

(* Of the buffer of a task only its end is kept. *)
LEMMA GoingEnd ==
  ASSUME NEW kind, NEW size, NEW se, NEW q, NEW a, NEW t, NEW p, NEW ou, NEW r,
         Going(kind, size, se, q, a, t, p, ou, r), NEW b, NEW k, EndOf(b, a, k)
  PROVE  Going(kind, size, se, q, b, t, <<>>, ou, r)
<1> DEFINE n == Len(a)
           n2 == Len(b)
           none == <<>>
<1>1. /\ Numbered(se) /\ Waits(se, q, r) /\ r \in Nat /\ Buffered(se, a, r)
      /\ OutInOrder(kind, size, se, ou, r, n) /\ (TimeWindow(kind) => Sorted(a, t))
      /\ a \in Seq(Stored) /\ b \in Seq(Stored)
  BY DEF Going, Waits, Buffered, EndOf
<1>2. Buffered(se, b, r) /\ (TimeWindow(kind) => Sorted(b, t)) /\ n2 <= n
  BY <1>1, EndStays
<1>3. n \in Nat /\ n2 \in Nat
  BY <1>1
<1>4. r - n <= r - n2 /\ r <= r
  BY <1>1, <1>2, <1>3
<1>5. NextUp(kind, size, se, none, ou, r, n2)
  BY DEF NextUp
<1> HIDE DEF n, n2
<1>6. OutInOrder(kind, size, se, ou, r, n2)
  BY <1>1, <1>3, <1>4, OutStays
<1> HIDE DEF none
<1>7. Going(kind, size, se, q, b, t, none, ou, r)
  BY <1>1, <1>2, <1>5, <1>6 DEF Going, n2
<1> QED
  BY <1>7 DEF none

(* A window that counts receives. *)
LEMMA GoingCount ==
  ASSUME NEW kind \in {"tumbling", "sliding"}, NEW size \in Nat \ {0}, NEW se, NEW q, NEW b,
         NEW t \in Nat, NEW p, NEW ou, NEW r, Going(kind, size, se, q, b, t, p, ou, r), q # <<>>,
         Room(kind, size, b), NEW x \in Stored, x.msg = Head(q),
         NEW all, all = Append(b, x), NEW send, NEW rest,
         IF Len(all) < size THEN send = <<>> /\ rest = all
         ELSE /\ send = <<Events(all)>>
              /\ rest = IF kind = "tumbling" THEN <<>>
                        ELSE IF Len(all) > size THEN Tail(all) ELSE all
  PROVE  Going(kind, size, se, Tail(q), rest, t, send, ou, r + 1) /\ Room(kind, size, rest)
<1> DEFINE r2 == r + 1
           q2 == Tail(q)
           none == <<>>
<1>1. ~TimeWindow(kind) /\ (Tumbles(kind) <=> kind = "tumbling")
  BY DEF TimeWindow, Tumbles
<1>2. b \in Seq(Stored)
  BY DEF Going, Buffered
<1>3. all \in Seq(Stored) /\ Len(all) = Len(b) + 1 /\ Len(b) \in Nat /\ all # <<>>
  BY <1>2
<1>4. Going(kind, size, se, q2, all, t, none, ou, r2)
  BY <1>1, GoingKeep
<1>5. Len(Events(all)) = Len(all)
  BY <1>3, EventsAre
<1>6. CASE Len(all) < size
  <2>1. send = none /\ rest = all
    BY <1>6
  <2>2. Room(kind, size, rest)
    BY <1>3, <1>6, <2>1 DEF Room
  <2> QED
    BY <1>4, <2>1, <2>2
<1>7. CASE ~(Len(all) < size)
  <2>1. /\ send = <<Events(all)>>
        /\ rest = IF kind = "tumbling" THEN <<>> ELSE IF Len(all) > size THEN Tail(all) ELSE all
    BY <1>7
  <2>2. Sized(kind, size, Events(all))
    BY <1>3, <1>5, <1>7 DEF Sized, Room
  <2>3. /\ Buffered(se, rest, r2) /\ Len(rest) <= Len(all) /\ (Tumbles(kind) => Len(rest) = 0)
        /\ Room(kind, size, rest)
    <3>1. Buffered(se, all, r2) /\ r2 \in Nat
      BY <1>4 DEF Going, Waits
    <3>2. CASE kind = "tumbling"
      <4>1. rest = none /\ Len(none) = 0 /\ none \in Seq(Stored)
        BY <2>1, <3>2
      <4> HIDE DEF none, r2
      <4> QED
        BY <1>3, <3>1, <3>2, <4>1 DEF Buffered, Room
    <3>3. CASE kind = "sliding" /\ Len(all) > size
      <4>1. rest = Tail(all)
        BY <2>1, <3>3
      <4>2. /\ Tail(all) \in Seq(Stored) /\ Len(Tail(all)) = Len(all) - 1
            /\ \A i \in 1..Len(Tail(all)) : Tail(all)[i] = all[1 + i]
        BY <1>3
      <4>3. EndOf(rest, all, 1)
        BY <1>3, <4>1, <4>2 DEF EndOf
      <4> HIDE DEF r2
      <4>4. Buffered(se, rest, r2) /\ Len(rest) <= Len(all)
        BY <3>1, <4>3, EndStays
      <4>5. Room(kind, size, rest)
        BY <1>3, <3>3, <4>1, <4>2 DEF Room
      <4> QED
        BY <1>1, <3>3, <4>4, <4>5
    <3>4. CASE kind = "sliding" /\ ~(Len(all) > size)
      <4>1. rest = all
        BY <2>1, <3>4
      <4> QED
        BY <1>1, <1>3, <3>1, <3>4, <4>1 DEF Room
    <3> QED
      BY <3>2, <3>3, <3>4
  <2> HIDE DEF none, r2, q2
  <2> DEFINE one == <<Events(all)>>
  <2>4. Going(kind, size, se, q2, rest, t, one, ou, r2)
    <3>1. all # <<>>
      BY <1>3
    <3>2. Going(kind, size, se, q2, all, t, <<>>, ou, r2)
      BY <1>4 DEF none
    <3> QED
      BY <1>1, <2>2, <2>3, <3>1, <3>2, GoingWindow
  <2> HIDE DEF one
  <2>5. send = one
    BY <2>1 DEF one
  <2> QED
    BY <2>3, <2>4, <2>5 DEF r2, q2
<1> QED
  BY <1>6, <1>7

(* A window of a time ticks. *)
LEMMA GoingTick ==
  ASSUME NEW kind \in {"tumbling_time", "sliding_time"}, NEW size \in Nat, NEW se, NEW q, NEW b,
         NEW t \in Nat, NEW p, NEW ou, NEW r, Going(kind, size, se, q, b, t, p, ou, r),
         NEW mark \in Nat, NEW send, NEW rest, NEW active, active = Recent(b, mark, size),
         send = IF active = <<>> THEN <<>> ELSE <<Events(active)>>,
         rest = IF kind = "tumbling_time" THEN <<>> ELSE active
  PROVE  Going(kind, size, se, q, rest, t, send, ou, r)
<1> DEFINE none == <<>>
<1>1. /\ Sorted(b, t) /\ b \in Seq(Stored) /\ (Tumbles(kind) <=> kind = "tumbling_time")
      /\ kind # "tumbling" /\ kind # "sliding"
  BY DEF Going, Buffered, TimeWindow, Tumbles
<1>2. PICK k : EndOf(active, b, k)
  BY <1>1, RecentEnd
<1>3. Going(kind, size, se, q, active, t, none, ou, r)
  BY <1>2, GoingEnd
<1>4. CASE active = <<>>
  <2>1. send = none /\ rest = none
    BY <1>4
  <2>2. Going(kind, size, se, q, none, t, none, ou, r)
    BY GoingDown
  <2> HIDE DEF none
  <2> QED
    BY <2>1, <2>2
<1>5. CASE active # <<>>
  <2> DEFINE one == <<Events(active)>>
  <2>1. Sized(kind, size, Events(active))
    BY <1>1 DEF Sized
  <2>2. /\ Buffered(se, active, r) /\ Sorted(active, t) /\ r \in Nat /\ active \in Seq(Stored)
    BY <1>2, <1>3 DEF Going, Waits, TimeWindow, EndOf
  <2>3. /\ Buffered(se, rest, r) /\ (TimeWindow(kind) => Sorted(rest, t))
        /\ Len(rest) <= Len(active) /\ (Tumbles(kind) => Len(rest) = 0)
    <3>1. CASE kind = "tumbling_time"
      <4>1. rest = none /\ Len(none) = 0 /\ none \in Seq(Stored) /\ Len(active) \in Nat
        BY <2>2, <3>1
      <4> HIDE DEF none
      <4>2. Len(rest) = 0 /\ rest \in Seq(Stored)
        BY <4>1
      <4> DEFINE n == Len(rest)
      <4>3. n = 0 /\ r \in Nat
        BY <2>2, <4>2
      <4> HIDE DEF n
      <4>4. n <= r /\ \A i : i \notin 1..n
        BY <4>3
      <4>5. Buffered(se, rest, r) /\ Sorted(rest, t)
        BY <4>2, <4>4 DEF Buffered, Sorted, n
      <4> QED
        BY <4>1, <4>2, <4>5
    <3>2. CASE kind # "tumbling_time"
      <4>1. rest = active /\ Len(active) \in Nat
        BY <2>2, <3>2
      <4> QED
        BY <1>1, <2>2, <3>2, <4>1
    <3> QED
      BY <3>1, <3>2
  <2>4. Going(kind, size, se, q, rest, t, one, ou, r)
    BY <1>3, <1>5, <2>1, <2>3, GoingWindow
  <2>5. send = one
    BY <1>5
  <2> HIDE DEF one
  <2> QED
    BY <2>4, <2>5
<1> QED
  BY <1>4, <1>5

(* A lone operator when the program starts. *)
LEMMA LoneInit ==
  ASSUME NEW o, Lone(o), Kind(o) \in Solo, Init
  PROVE  /\ LoneType(o) /\ sent = <<>> /\ out = <<>> /\ now = 0
         /\ \A c \in Channels(program) : chan[c] = <<>>
         /\ task[o].buf = <<>> /\ task[o].pend = <<>> /\ taken[o] = <<>>
<1> DEFINE mark == IF Timed(Kind(o)) THEN 0 ELSE 0
           due == IF TimeWindow(Kind(o)) THEN 0 ELSE 0
           top == Top(Kind(o))
           w == [at |-> top, pend |-> <<>>, buf |-> <<>>, mark |-> mark, due |-> due,
                 until |-> 0, backoff |-> 1]
<1>1. Ops = {o}
  BY DEF Lone
<1>2. Fresh(Kind(o), 0, 1) = w
  BY Zenon DEF Fresh
<1>3. top \in {"top", "wait"} /\ mark \in Nat /\ due \in Nat
  BY DEF Top
<1> HIDE DEF top, mark, due
<1>4. w \in Works /\ w.at = top /\ w.buf = <<>> /\ w.pend = <<>>
  BY <1>3 DEF Works
<1> HIDE DEF w
<1>5. task = [x \in {o} |-> Fresh(Kind(x), 0, 1)]
  BY <1>1 DEF Init
<1>6. task[o] = w /\ task \in [{o} -> Works]
  BY <1>2, <1>4, <1>5
<1>7. Busy(task[o])
  BY <1>3, <1>4, <1>6 DEF Busy
<1>8. /\ chan \in [Channels(program) -> Seq(Single)] /\ \A c \in Channels(program) : chan[c] = <<>>
  BY DEF Init
<1>9. fly \in [{o} -> {{}}] /\ taken \in [{o} -> Seq(Stored)] /\ taken[o] = <<>>
  BY <1>1 DEF Init
<1>10. /\ now = 0 /\ panics = 0 /\ sent = <<>> /\ out = <<>>
  BY DEF Init
<1>11. sent \in Seq([e : Event, c : Channels(program)]) /\ DOMAIN sent = {}
  BY <1>10
<1>12. out \in Seq([from : {o}, msg : Seq(Event)])
  BY <1>10
<1>13. now \in Nat /\ panics \in Nat
  BY <1>10
<1>14. \A i \in DOMAIN sent : sent[i].e.n = i
  BY <1>11
<1> QED
  BY <1>4, <1>6, <1>7, <1>8, <1>9, <1>10, <1>11, <1>12, <1>13, <1>14 DEF LoneType

-----------------------------------------------------------------------------
(* A message is received, and the buffer is a new window when it is full. *)
LEMMA TightNew ==
  ASSUME NEW size \in Nat \ {0}, NEW n \in 0..size, NEW S, NEW r \in Nat, Tight(size, n, S, r)
  PROVE  /\ n + 1 < size => Tight(size, n + 1, S, r + 1)
         /\ \A m : First(m) = (r - n) + 1 /\ First(m) \in Nat /\ Final(m) = r + 1 /\ Len(m) = n + 1
                    /\ size <= n + 1 => Tight(size, size, S \cup {m}, r + 1)
<1>1. \A m \in S : First(m) \in Nat /\ Final(m) \in Nat /\ Final(m) <= r
  BY DEF Tight
<1>2. n + 1 < size => Tight(size, n + 1, S, r + 1)
  BY <1>1 DEF Tight
<1> SUFFICES ASSUME NEW m, First(m) = (r - n) + 1, First(m) \in Nat, Final(m) = r + 1,
                    Len(m) = n + 1, size <= n + 1
             PROVE  Tight(size, size, S \cup {m}, r + 1)
  BY <1>2
<1>3. ~ReachesInto(m, m) /\ \A w \in S : ~ReachesInto(m, w)
  BY <1>1 DEF ReachesInto
<1>4. Len(m) = IF \E w \in S : ReachesInto(w, m) THEN size + 1 ELSE size
  <2>1. CASE n < size
    <3>1. \A w \in S : Final(w) <= r - n
      BY <2>1 DEF Tight
    <3>2. \A w \in S : ~ReachesInto(w, m)
      BY <1>1, <3>1 DEF ReachesInto
    <3> QED
      BY <2>1, <3>2
  <2>2. CASE n = size
    <3>1. PICK w \in S : Final(w) = r
      BY <2>2 DEF Tight
    <3>2. ReachesInto(w, m)
      BY <2>2, <3>1 DEF ReachesInto
    <3> QED
      BY <2>2, <3>2
  <2> QED
    BY <2>1, <2>2
<1>5. Exact(size, S \cup {m})
  BY <1>3, <1>4 DEF Tight, Exact
<1>6. \A w \in S \cup {m} : First(w) \in Nat /\ Final(w) \in Nat /\ Final(w) <= r + 1
  BY <1>1
<1> QED
  BY <1>5, <1>6 DEF Tight

(* What waits to be sent reaches into nothing that is out. *)
LEMMA ExactOut ==
  ASSUME NEW size, NEW se, NEW q, NEW b, NEW t, NEW p, NEW ou, NEW r, NEW n,
         Going("sliding", size, se, q, b, t, p, ou, r), Tight(size, n, Shown(ou, p), r)
  PROVE  Exact(size, Shown(ou, <<>>))
<1> DEFINE S == {ou[i].msg : i \in DOMAIN ou}
<1>1. Shown(ou, <<>>) = S
  BY DEF Shown, ToSet, Range
<1>2. CASE p = <<>>
  BY <1>2 DEF Tight
<1>3. CASE p # <<>>
  <2>1. p = <<p[1]>> /\ \A i \in DOMAIN ou : Precedes("sliding", ou[i].msg, p[1])
    BY <1>3 DEF Going, NextUp
  <2>2. ToSet(p) = {p[1]}
    <3> DEFINE m == p[1]
    <3>1. p = <<m>>
      BY <2>1
    <3> HIDE DEF m
    <3> QED
      BY <3>1 DEF ToSet, Range
  <2>3. Shown(ou, p) = S \cup {p[1]}
    BY <2>2 DEF Shown
  <2>4. \A m \in S : Final(m) <= Final(p[1])
    BY <2>1 DEF Precedes
  <2> HIDE DEF S
  <2>5. \A m \in S \cup {p[1]} : First(m) \in Nat /\ Final(m) \in Nat
    BY <2>3 DEF Tight
  <2>6. \A m \in S : ~ReachesInto(p[1], m)
    BY <2>4, <2>5 DEF ReachesInto
  <2> QED
    BY <1>1, <2>3, <2>6 DEF Tight, Exact
<1> QED
  BY <1>2, <1>3

(* It is so after a step whose outcome is in order. *)
LEMMA FlowBy ==
  ASSUME NEW o, UNCHANGED program, NEW q, chan'[Inlet(o)] = q, NEW b, task'[o].buf = b,
         NEW p, task'[o].pend = p, NEW ou, out' = ou, NEW se, sent' = se, NEW t, now' = t, NEW r,
         Going(Kind(o), program[o].size, se, q, b, t, p, ou, r), Room(Kind(o), program[o].size, b)
  PROVE  Flow(o)'
<1>1. q \in Seq(Single) /\ r \in Nat /\ r + Len(q) = Len(se)
  BY DEF Going, Waits
<1>2. r = Len(se) - Len(q)
  <2>1. Len(q) \in Nat
    BY <1>1
  <2> QED
    BY <1>1, <2>1
<1>3. Kind(o)' = Kind(o) /\ Inlet(o)' = Inlet(o)
  BY DEF Kind, Inlet
<1> DEFINE k == Kind(o)
           s == program[o].size
<1>4. Going(k, s, se, q, b, t, p, ou, Len(se) - Len(q)) /\ Room(k, s, b)
  BY <1>2
<1>5. (program[o].size)' = s /\ Kind(o)' = k
  BY <1>3
<1> HIDE DEF k, s
<1> QED
  BY <1>3, <1>4, <1>5 DEF Flow

(* What holds of a lone window. *)
LEMMA FlowIs ==
  ASSUME NEW o, WindowInv(o)
  PROVE  LET q == chan[Inlet(o)]
             r == Len(sent) - Len(q)
         IN  /\ Going(Kind(o), program[o].size, sent, q, task[o].buf, now, task[o].pend, out, r)
             /\ Room(Kind(o), program[o].size, task[o].buf)
             /\ Inlet(o) \in Channels(program) /\ now \in Nat /\ program[o].size \in Nat
             /\ Kind(o) \in {"tumbling", "sliding"} => program[o].size # 0
             /\ Ports(Kind(o)) = {"input"} /\ Channels(program) = {Inlet(o)}
             /\ chan \in [Channels(program) -> Seq(Single)]
             /\ task[o] \in Works /\ Kind(o) \in Windows
<1>1. LoneType(o) /\ Kind(o) \in Windows /\ Flow(o)
  BY DEF WindowInv
<1>2. Channels(program) = {<<o, port>> : port \in Ports(Kind(o))} /\ Ports(Kind(o)) = {"input"}
  BY <1>1, LoneChannels
<1> QED
  BY <1>1, <1>2 DEF LoneType, Lone, Flow, Inlet

(* What is sent is one more. *)
LEMMA SentGrows ==
  ASSUME NEW o, LoneType(o), NEW c \in Channels(program), NEW e \in Event, e.n = Len(sent) + 1
  PROVE  Grown(sent, Append(sent, [e |-> e, c |-> c]), e)
<1> DEFINE x == [e |-> e, c |-> c]
           s2 == Append(sent, x)
<1>1. /\ sent \in Seq([e : Event, c : Channels(program)])
      /\ \A i \in DOMAIN sent : sent[i].e.n = i
  BY DEF LoneType
<1>2. x \in [e : Event, c : Channels(program)] /\ x.e = e
  OBVIOUS
<1> HIDE DEF x
<1>3. /\ Len(s2) = Len(sent) + 1 /\ Len(sent) \in Nat /\ s2[Len(sent) + 1] = x
      /\ \A i \in 1..Len(sent) : s2[i] = sent[i]
      /\ DOMAIN s2 = 1..Len(s2) /\ DOMAIN sent = 1..Len(sent)
  BY <1>1, <1>2
<1> HIDE DEF s2
<1>4. ASSUME NEW i \in 1..Len(sent) PROVE sent[i].e \in Event
  <2> DEFINE L == [e : Event, c : Channels(program)]
  <2>1. sent[i] \in L
    <3>1. sent \in Seq(L)
      BY <1>1
    <3> HIDE DEF L
    <3> QED
      BY <3>1
  <2> QED
    BY <2>1
<1>5. Numbered(sent)
  BY <1>1, <1>3, <1>4 DEF Numbered
<1>6. ASSUME NEW i \in DOMAIN s2 PROVE s2[i].e \in Event /\ s2[i].e.n = i
  <2>1. i \in 1..Len(sent) \/ i = Len(sent) + 1
    BY <1>3
  <2>2. CASE i \in 1..Len(sent)
    BY <1>1, <1>3, <1>4, <2>2
  <2>3. CASE i = Len(sent) + 1
    BY <1>2, <1>3, <2>3
  <2> QED
    BY <2>1, <2>2, <2>3
<1>7. Numbered(s2)
  BY <1>3, <1>6 DEF Numbered
<1>8. Grown(sent, s2, e)
  BY <1>2, <1>3, <1>5, <1>7 DEF Grown
<1> QED
  BY <1>8 DEF s2, x

(* An event is sent to it. *)
LEMMA FlowEmit ==
  ASSUME NEW o, WindowInv(o), Emit
  PROVE  Flow(o)'
<1> DEFINE q == chan[Inlet(o)]
           b == task[o].buf
           p == task[o].pend
           r == Len(sent) - Len(q)
           k == Kind(o)
           size == program[o].size
<1>1. /\ Going(k, size, sent, q, b, now, p, out, r) /\ Room(k, size, b)
      /\ Channels(program) = {Inlet(o)} /\ chan \in [Channels(program) -> Seq(Single)]
  BY FlowIs
<1>2. PICK c \in Channels(program), e \in Event :
           /\ e.n = Len(sent) + 1
           /\ chan' = [chan EXCEPT ![c] = Append(chan[c], <<e>>)]
           /\ sent' = Append(sent, [e |-> e, c |-> c])
           /\ UNCHANGED <<program, task, fly, now, panics, out, taken>>
  BY LoneEmit DEF WindowInv
<1>3. c = Inlet(o)
  BY <1>1
<1> DEFINE q2 == Append(q, <<e>>)
           x == [e |-> e, c |-> c]
           s2 == Append(sent, x)
<1>4. chan'[Inlet(o)] = q2
  BY <1>1, <1>2, <1>3
<1>5. Grown(sent, s2, e)
  BY <1>2, SentGrows DEF WindowInv
<1>6. sent' = s2 /\ UNCHANGED program /\ task'[o].buf = b /\ task'[o].pend = p /\ out' = out
      /\ now' = now
  BY <1>2
<1> HIDE DEF q, b, p, r, k, size, s2, x
<1>7. Going(k, size, s2, q2, b, now, p, out, r)
  BY <1>1, <1>5, GoingEmit
<1> HIDE DEF q2
<1> QED
  BY <1>1, <1>4, <1>6, <1>7, FlowBy DEF k, size

(* A list of one. *)
LEMMA OneIs ==
  ASSUME NEW p, p = <<p[1]>>
  PROVE  Len(p) = 1 /\ p # <<>> /\ Head(p) = p[1] /\ Tail(p) = <<>>
<1> DEFINE m == p[1]
<1>1. p = <<m>>
  OBVIOUS
<1> HIDE DEF m
<1>2. Len(p) = 1 /\ p # <<>> /\ Head(p) = m /\ Tail(p) = <<>>
  BY <1>1
<1> QED
  BY <1>2 DEF m

(* What a window that counts makes of a message. *)
LEMMA CountIt ==
  ASSUME NEW o, Kind(o) \in {"tumbling", "sliding"}, NEW b, NEW m
  PROVE  LET w == Process(o, b, "input", m)
             all == Append(b, Untimed("input", m))
             size == program[o].size
         IN  IF Len(all) < size THEN w.send = <<>> /\ w.buf = all
             ELSE /\ w.send = <<Events(all)>>
                  /\ w.buf = IF Kind(o) = "tumbling" THEN <<>>
                             ELSE IF Len(all) > size THEN Tail(all) ELSE all
<1> DEFINE all == Append(b, Untimed("input", m))
           w == Process(o, b, "input", m)
           cut == CASE Kind(o) = "tumbling" -> <<>>
                    [] Kind(o) = "sliding" /\ Len(all) > program[o].size -> Tail(all)
                    [] OTHER -> all
           one == <<Events(all)>>
<1>1. w = CountWindow(o, b, "input", m)
  BY ProcessIs
<1>2. w = IF Len(all) < program[o].size THEN [send |-> <<>>, buf |-> all]
          ELSE [send |-> one, buf |-> cut]
  BY <1>1 DEF CountWindow
<1> HIDE DEF all, w, one
<1>3. cut = IF Kind(o) = "tumbling" THEN <<>>
            ELSE IF Len(all) > program[o].size THEN Tail(all) ELSE all
  OBVIOUS
<1> HIDE DEF cut
<1>4. IF Len(all) < program[o].size THEN w.send = <<>> /\ w.buf = all
      ELSE w.send = one /\ w.buf = cut
  BY <1>2
<1> QED
  BY <1>3, <1>4 DEF all, w, one

(* A lone window receives. *)
LEMMA FlowReceive ==
  ASSUME NEW o, WindowInv(o), Receive(o, "input")
  PROVE  Flow(o)'
<1> DEFINE c == Inlet(o)
           q == chan[c]
           b == task[o].buf
           p == task[o].pend
           r == Len(sent) - Len(q)
           k == Kind(o)
           size == program[o].size
           m == Head(q)
           w == Process(o, b, "input", m)
           send == w.send
           rest == w.buf
           q2 == Tail(q)
           r2 == r + 1
           t == now
           se == sent
           ou == out
<1>1. /\ Going(k, size, se, q, b, t, p, ou, r) /\ Room(k, size, b)
      /\ Ports(k) = {"input"} /\ chan \in [Channels(program) -> Seq(Single)]
      /\ t \in Nat /\ size \in Nat /\ k \in Windows /\ c \in Channels(program)
      /\ b \in Seq(Stored) /\ (k \in {"tumbling", "sliding"} => size # 0)
  BY FlowIs DEF Works
<1>2. /\ q # <<>> /\ chan' = [chan EXCEPT ![c] = q2]
      /\ UNCHANGED <<program, fly, now, panics, sent, out>>
      /\ task'[o] = [at |-> After(o, send), pend |-> send, buf |-> rest, mark |-> task[o].mark,
                     due |-> task[o].due, until |-> task[o].until, backoff |-> task[o].backoff]
  BY <1>1, LoneReceive DEF WindowInv, Inlet
<1>3. chan'[c] = q2 /\ task'[o].buf = rest /\ task'[o].pend = send
  BY <1>1, <1>2
<1>4. q \in Seq(Single) /\ m \in Single
  <2>1. q \in Seq(Single)
    BY <1>1
  <2> HIDE DEF q
  <2> QED
    BY <1>2, <2>1
<1> DEFINE x == Untimed("input", m)
           y == Entry("input", m)
<1>5. /\ x \in Stored /\ y \in Stored /\ x.msg = m /\ y.msg = m /\ y.t = t
  BY <1>1, <1>4 DEF Untimed, Entry, Stored
<1>6. ASSUME k \in {"tumbling", "sliding"}
      PROVE  Going(k, size, se, q2, rest, t, send, ou, r2) /\ Room(k, size, rest)
  <2> DEFINE all == Append(b, x)
  <2>2. IF Len(all) < size THEN send = <<>> /\ rest = all
        ELSE /\ send = <<Events(all)>>
             /\ rest = IF k = "tumbling" THEN <<>> ELSE IF Len(all) > size THEN Tail(all) ELSE all
    BY <1>6, CountIt
  <2>3. x.msg = Head(q) /\ all = Append(b, x)
    BY <1>5
  <2> HIDE DEF q, b, p, r, k, size, x, y, w, send, rest, c, all, m, t, se, ou
  <2>4. size \in Nat \ {0}
    BY <1>1, <1>6
  <2>5. Going(k, size, se, Tail(q), rest, t, send, ou, r + 1) /\ Room(k, size, rest)
    BY <1>1, <1>2, <1>5, <1>6, <2>2, <2>3, <2>4, GoingCount
  <2> QED
    BY <2>5
<1>7. ASSUME TimeWindow(k)
      PROVE  Going(k, size, se, q2, rest, t, send, ou, r2) /\ Room(k, size, rest)
  <2> DEFINE all == Append(b, y)
  <2>1. w = Buffer(o, b, "input", m)
    BY <1>7, ProcessIs
  <2>2. send = <<>> /\ rest = all
    BY <2>1 DEF Buffer
  <2>3. y.msg = Head(q)
    BY <1>5
  <2>4. k # "tumbling" /\ k # "sliding"
    BY <1>7 DEF TimeWindow
  <2> HIDE DEF q, b, p, r, k, size, x, y, w, send, rest, c, m, t, se, ou
  <2>5. Going(k, size, se, Tail(q), Append(b, y), t, <<>>, ou, r + 1)
    BY <1>1, <1>2, <1>5, <2>3, GoingKeep
  <2> QED
    BY <2>2, <2>4, <2>5 DEF Room
<1>8. Going(k, size, se, q2, rest, t, send, ou, r2) /\ Room(k, size, rest)
  <2>1. k \in {"tumbling", "sliding"} \/ TimeWindow(k)
    BY <1>1 DEF Windows, TimeWindow
  <2> HIDE DEF q, b, p, r, k, size, x, y, w, send, rest, c, m, t, se, ou
  <2> QED
    BY <1>6, <1>7, <2>1
<1>9. /\ UNCHANGED program /\ chan'[Inlet(o)] = q2 /\ task'[o].buf = rest /\ task'[o].pend = send
      /\ out' = ou /\ sent' = se /\ now' = t
  BY <1>2, <1>3
<1> HIDE DEF q, b, p, r, k, size, x, y, w, send, rest, c, m, t, q2, r2, se, ou
<1> QED
  BY <1>8, <1>9, FlowBy DEF k, size

(* ... looks at its clock, *)
LEMMA FlowTick ==
  ASSUME NEW o, WindowInv(o), Tick(o)
  PROVE  Flow(o)'
<1> DEFINE q == chan[Inlet(o)]
           b == task[o].buf
           p == task[o].pend
           r == Len(sent) - Len(q)
           k == Kind(o)
           size == program[o].size
           mark == task[o].mark
           active == Recent(b, mark, size)
           send == IF active = <<>> THEN <<>> ELSE <<Events(active)>>
           rest == IF k = "tumbling_time" THEN <<>> ELSE active
           t == now
           se == sent
           ou == out
<1>1. /\ Going(k, size, se, q, b, t, p, ou, r)
      /\ t \in Nat /\ size \in Nat /\ mark \in Nat
  BY FlowIs DEF Works
<1>2. /\ TimeWindow(k) /\ UNCHANGED <<program, chan, fly, now, panics, sent, out, taken>>
      /\ task'[o] = [at |-> After(o, send), pend |-> send, buf |-> rest, mark |-> mark,
                     due |-> task[o].due + 1, until |-> task[o].until,
                     backoff |-> task[o].backoff]
  BY LoneTick DEF WindowInv
<1>3. /\ UNCHANGED program /\ chan'[Inlet(o)] = q /\ task'[o].buf = rest /\ task'[o].pend = send
      /\ out' = ou /\ sent' = se /\ now' = t
  BY <1>2
<1>4. k \in {"tumbling_time", "sliding_time"} /\ k # "tumbling" /\ k # "sliding"
  BY <1>2 DEF TimeWindow
<1>5. /\ active = Recent(b, mark, size) /\ send = IF active = <<>> THEN <<>> ELSE <<Events(active)>>
      /\ rest = IF k = "tumbling_time" THEN <<>> ELSE active
  OBVIOUS
<1> HIDE DEF q, b, p, r, k, size, mark, active, send, rest, t, se, ou
<1>6. Going(k, size, se, q, rest, t, send, ou, r)
  BY <1>1, <1>4, <1>5, GoingTick
<1>7. Room(k, size, rest)
  BY <1>4 DEF Room
<1> QED
  BY <1>3, <1>6, <1>7, FlowBy DEF k, size

(* ... sends, *)
LEMMA FlowSend ==
  ASSUME NEW o, WindowInv(o), Send(o)
  PROVE  Flow(o)'
<1> DEFINE q == chan[Inlet(o)]
           b == task[o].buf
           p == task[o].pend
           r == Len(sent) - Len(q)
           k == Kind(o)
           size == program[o].size
           x == [from |-> o, msg |-> Head(p)]
           p2 == Tail(p)
           t == now
           se == sent
           o2 == Append(out, x)
           L == [from : {o}, msg : Seq(Event)]
<1>1. /\ Going(k, size, se, q, b, t, p, out, r) /\ Room(k, size, b)
      /\ p \in Seq(Seq(Event))
  BY FlowIs DEF Works
<1>2. /\ task[o].at = "send" /\ UNCHANGED <<program, chan, fly, now, panics, sent, taken>>
      /\ out' = o2
      /\ task'[o] = [at |-> After(o, p2), pend |-> p2, buf |-> b, mark |-> task[o].mark,
                     due |-> task[o].due, until |-> task[o].until, backoff |-> task[o].backoff]
  BY LoneSend DEF WindowInv
<1>3. /\ UNCHANGED program /\ chan'[Inlet(o)] = q /\ task'[o].buf = b /\ task'[o].pend = p2
      /\ out' = o2 /\ sent' = se /\ now' = t
  BY <1>2
<1>4. p # <<>> /\ out \in Seq(L)
  BY <1>2 DEF WindowInv, LoneType, Busy
<1>5. x \in L /\ x.msg = Head(p)
  <2>1. Head(p) \in Seq(Event)
    <3> HIDE DEF p
    <3> QED
      BY <1>1, <1>4
  <2> QED
    BY <2>1
<1> HIDE DEF q, b, p, r, k, size, x, t, se, L
<1>6. Going(k, size, se, q, b, t, p2, o2, r)
  BY <1>1, <1>4, <1>5, GoingSend
<1> HIDE DEF p2, o2
<1> QED
  BY <1>1, <1>3, <1>6, FlowBy DEF k, size

(* ... panics, or is started again. *)
LEMMA FlowDown ==
  ASSUME NEW o, WindowInv(o), UNCHANGED <<program, now, sent, out>>,
         task'[o].buf = <<>>, task'[o].pend = <<>>,
         \/ chan' = chan
         \/ chan[Inlet(o)] # <<>> /\ chan' = [chan EXCEPT ![Inlet(o)] = Tail(chan[Inlet(o)])]
  PROVE  Flow(o)'
<1> DEFINE q == chan[Inlet(o)]
           b == task[o].buf
           p == task[o].pend
           r == Len(sent) - Len(q)
           r2 == r + 1
           q2 == Tail(q)
           k == Kind(o)
           size == program[o].size
           t == now
           se == sent
           ou == out
           none == <<>>
<1>1. /\ Going(k, size, se, q, b, t, p, ou, r) /\ size \in Nat
      /\ k \in {"tumbling", "sliding"} => size # 0
      /\ chan \in [Channels(program) -> Seq(Single)] /\ Inlet(o) \in Channels(program)
  BY FlowIs
<1>2. /\ UNCHANGED program /\ task'[o].buf = none /\ task'[o].pend = none
      /\ out' = ou /\ sent' = se /\ now' = t
  OBVIOUS
<1>3. chan'[Inlet(o)] = q \/ (q # none /\ chan'[Inlet(o)] = q2)
  BY <1>1
<1>4. Room(k, size, none)
  <2>1. Len(none) = 0
    OBVIOUS
  <2> HIDE DEF none, size
  <2> QED
    BY <1>1, <2>1 DEF Room
<1> HIDE DEF q, b, p, r, k, size, t, se, ou
<1>5. Going(k, size, se, q, none, t, none, ou, r)
  BY <1>1, GoingDown
<1>6. q # none => Going(k, size, se, q2, none, t, none, ou, r2)
  BY <1>1, GoingDown
<1> HIDE DEF none, q2, r2
<1>7. CASE chan'[Inlet(o)] = q
  BY <1>2, <1>4, <1>5, <1>7, FlowBy DEF k, size
<1>8. CASE q # none /\ chan'[Inlet(o)] = q2
  BY <1>2, <1>4, <1>6, <1>8, FlowBy DEF k, size
<1> QED
  BY <1>3, <1>7, <1>8

(* ... and every step of a sliding one that counts keeps them exact. *)
LEMMA TidyKept ==
  ASSUME NEW o, WindowInv(o), [Next]_vars
  PROVE  Tidy(o)'
<1> DEFINE c == Inlet(o)
           q == chan[c]
           b == task[o].buf
           p == task[o].pend
           r == Len(sent) - Len(q)
           size == program[o].size
           n == Len(b)
           S == Shown(out, p)
           none == <<>>
           TightAfter == Tight(size, Len(task'[o].buf), Shown(out', task'[o].pend),
                               Len(sent') - Len(chan'[c]))
<1>1. Kind(o)' = Kind(o) /\ Inlet(o)' = c /\ (program[o].size)' = size
  BY ProgramStays DEF Kind, Inlet
<1> SUFFICES ASSUME Kind(o) = "sliding" PROVE TightAfter
  BY <1>1 DEF Tidy
<1>2. /\ Going("sliding", size, sent, q, b, now, p, out, r) /\ n <= size /\ size \in Nat \ {0}
      /\ Ports(Kind(o)) = {"input"} /\ Channels(program) = {c}
      /\ chan \in [Channels(program) -> Seq(Single)]
  BY FlowIs DEF Room
<1>3. LoneType(o) /\ Tight(size, n, S, r) /\ Busy(task[o])
  BY DEF WindowInv, Tidy, LoneType
<1>4. Numbered(sent) /\ r \in Nat /\ b \in Seq(Stored) /\ q \in Seq(Single)
  BY <1>2 DEF Going, Waits, Buffered
<1>5. /\ Len(sent) \in Nat /\ Len(q) \in Nat /\ n \in 0..size
      /\ q # none => Len(sent) - Len(Tail(q)) = r + 1
  <2> DEFINE N == Len(sent)
  <2>1. N \in Nat /\ n <= size /\ size \in Nat
    BY <1>2, <1>4 DEF Numbered
  <2> HIDE DEF q, b, N, size
  <2>2. Len(q) \in Nat /\ n \in Nat /\ (q # none => Len(Tail(q)) = Len(q) - 1)
    BY <1>4
  <2>3. N - Len(q) + 1 = N - (Len(q) - 1) /\ n \in 0..size
    BY <2>1, <2>2
  <2> QED
    BY <2>1, <2>2, <2>3 DEF N
<1>6. ASSUME UNCHANGED <<sent, out>>, task'[o].buf = none, task'[o].pend = none,
             chan'[c] = q \/ (q # none /\ chan'[c] = Tail(q))
      PROVE  TightAfter
  <2> DEFINE r2 == Len(sent') - Len(chan'[c])
             T == Shown(out, none)
  <2>1. Exact(size, T) /\ T \subseteq S
    BY <1>2, <1>3, ExactOut DEF Shown, ToSet, Range
  <2>2. r2 = r \/ r2 = r + 1
    BY <1>5, <1>6
  <2> HIDE DEF r2, T, S, r
  <2>3. Tight(size, 0, T, r2)
    BY <1>2, <1>3, <1>4, <2>1, <2>2 DEF Tight
  <2>4. Len(none) = 0
    OBVIOUS
  <2> QED
    BY <1>6, <2>3, <2>4 DEF T, r2
<1>7. ASSUME Receive(o, "input") PROVE TightAfter
  <2> DEFINE x == Untimed("input", Head(q))
             all == Append(b, x)
             m == Events(all)
             r2 == r + 1
             send == task'[o].pend
             rest == task'[o].buf
             w == Process(o, b, "input", Head(q))
  <2>0. /\ q # none /\ chan' = [chan EXCEPT ![c] = Tail(q)] /\ task[o].at = "wait"
        /\ UNCHANGED <<sent, out>>
        /\ task'[o] = [at |-> After(o, w.send), pend |-> w.send, buf |-> w.buf,
                       mark |-> task[o].mark, due |-> task[o].due,
                       until |-> task[o].until, backoff |-> task[o].backoff]
    BY <1>2, <1>3, <1>7, LoneReceive DEF Inlet
  <2>1. /\ q # none /\ chan'[c] = Tail(q) /\ p = none /\ UNCHANGED <<sent, out>>
        /\ rest = w.buf /\ send = w.send
    BY <1>2, <1>3, <2>0 DEF Busy
  <2>2. IF Len(all) < size THEN send = <<>> /\ rest = all
        ELSE send = <<m>> /\ rest = IF Len(all) > size THEN Tail(all) ELSE all
    BY <2>1, CountIt
  <2>3. x \in Stored /\ x.msg = Head(q)
    <3> HIDE DEF q
    <3>1. Head(q) \in Single
      BY <1>4, <2>1
    <3> QED
      BY <3>1 DEF Untimed, Stored
  <2>4. Going("sliding", size, sent, Tail(q), all, now, none, out, r2)
    BY <1>2, <2>1, <2>3, GoingKeep, <1>3 DEF LoneType, TimeWindow
  <2>5. Len(all) = n + 1 /\ all # none /\ Len(Tail(all)) = n
    BY <1>4, <2>3
  <2>6. First(m) = (r - n) + 1 /\ First(m) \in Nat /\ Final(m) = r + 1 /\ Len(m) = n + 1
    <3>0. Numbered(sent) /\ Buffered(sent, all, r2) /\ Waits(sent, Tail(q), r2)
      BY <2>4 DEF Going
    <3>1. r2 <= Len(sent) /\ r2 \in Nat
      <4>1. Tail(q) \in Seq(Single) /\ r2 \in Nat /\ r2 + Len(Tail(q)) = Len(sent)
        BY <3>0 DEF Waits
      <4> HIDE DEF r2, q
      <4>2. Len(Tail(q)) \in Nat
        BY <4>1
      <4> QED
        BY <4>1, <4>2
    <3>2. From(sent, m, (r2 - Len(all)) + 1) /\ Len(m) = Len(all)
      BY <3>0, <3>1, BufferFrom
    <3> HIDE DEF m, all, r2, n
    <3>3. /\ First(m) = (r2 - Len(all)) + 1 /\ Final(m) = (((r2 - Len(all)) + 1) + Len(m)) - 1
          /\ (r2 - Len(all)) + 1 \in Nat \ {0}
      <4>1. Len(m) # 0
        BY <1>5, <2>5, <3>2
      <4> QED
        BY <3>0, <3>2, <4>1, FromNumbers
    <3>4. r2 = r + 1 /\ Len(all) = n + 1 /\ n \in Nat /\ r \in Nat
      BY <1>4, <1>5, <2>5 DEF r2
    <3> HIDE DEF r
    <3> QED
      BY <3>2, <3>3, <3>4
  <2>7. Len(sent') - Len(chan'[c]) = r2 /\ out' = out
    BY <1>5, <2>1
  <2>8. Shown(out, none) = S /\ Shown(out, <<m>>) = S \cup {m}
    BY <2>1 DEF Shown, ToSet, Range
  <2> HIDE DEF m, all, S, r, q, r2, send, rest, n, size, x
  <2>9. CASE n + 1 < size
    <3>1. Tight(size, n + 1, S, r + 1)
      BY <1>2, <1>3, <1>4, <1>5, <2>9, TightNew
    <3>2. send = none /\ Len(rest) = n + 1
      BY <2>2, <2>5, <2>9
    <3> QED
      BY <2>7, <2>8, <3>1, <3>2 DEF r2, send, rest
  <2>10. CASE ~(n + 1 < size)
    <3>1. Tight(size, size, S \cup {m}, r + 1)
      BY <1>2, <1>3, <1>4, <1>5, <2>6, <2>10, TightNew
    <3>2. send = <<m>> /\ Len(rest) = size
      BY <1>2, <1>5, <2>2, <2>5, <2>10
    <3> QED
      BY <2>7, <2>8, <3>1, <3>2 DEF r2, send, rest
  <2> QED
    BY <2>9, <2>10
<1>8. CASE Send(o)
  <2> DEFINE m == p[1]
             L == [from : {o}, msg : Seq(Event)]
             x == [from |-> o, msg |-> Head(p)]
             o2 == Append(out, x)
             p2 == Tail(p)
             at == After(o, p2)
  <2>0. /\ task[o].at = "send" /\ UNCHANGED <<sent, chan>> /\ out' = o2
        /\ task'[o].buf = b /\ task'[o].pend = Tail(p)
    <3>1. /\ task[o].at = "send" /\ UNCHANGED <<sent, chan>> /\ out' = o2
          /\ task'[o] = [at |-> at, pend |-> p2, buf |-> b, mark |-> task[o].mark,
                         due |-> task[o].due, until |-> task[o].until, backoff |-> task[o].backoff]
      BY <1>3, <1>8, LoneSend
    <3> HIDE DEF at, p2, b
    <3>2. task'[o].buf = b /\ task'[o].pend = p2
      BY <3>1
    <3> QED
      BY <3>1, <3>2 DEF p2
  <2>1. p # none /\ out \in Seq(L)
    BY <1>3, <2>0 DEF Busy, LoneType
  <2>2. p = <<m>> /\ m \in Seq(Event)
    BY <1>2, <2>1 DEF Going, NextUp, IsWindow, From
  <2>3. Head(p) = m /\ Tail(p) = none
    BY <2>2, OneIs
  <2>4. x \in L /\ x.msg = m
    BY <2>2, <2>3
  <2>5. ToSet(p) = {m} /\ ToSet(none) = {}
    <3> HIDE DEF m
    <3> QED
      BY <2>2 DEF ToSet, Range
  <2>6. /\ DOMAIN o2 = 1..(Len(out) + 1) /\ o2[Len(out) + 1] = x /\ Len(out) \in Nat
        /\ DOMAIN out = 1..Len(out) /\ \A i \in 1..Len(out) : o2[i] = out[i]
    <3> HIDE DEF x, L
    <3> QED
      BY <2>1, <2>4
  <2> HIDE DEF m, x, o2, L, p, none
  <2>7. {o2[i].msg : i \in DOMAIN o2} = {out[i].msg : i \in DOMAIN out} \cup {m}
    <3> DEFINE N == Len(out)
    <3>1. /\ 1..(N + 1) = 1..N \cup {N + 1} /\ DOMAIN o2 = 1..(N + 1) /\ o2[N + 1].msg = m
          /\ DOMAIN out = 1..N /\ \A i \in 1..N : o2[i] = out[i]
      BY <2>4, <2>6
    <3> HIDE DEF N
    <3> QED
      BY <3>1
  <2>8. Shown(o2, none) = Shown(out, p)
    BY <2>5, <2>7 DEF Shown
  <2> QED
    BY <1>3, <2>0, <2>3, <2>8 DEF p
<1>9. CASE Emit
  <2>1. PICK d \in Channels(program), e \in Event :
             /\ chan' = [chan EXCEPT ![d] = Append(chan[d], <<e>>)]
             /\ sent' = Append(sent, [e |-> e, c |-> d]) /\ UNCHANGED <<program, task, out>>
    BY <1>3, <1>9, LoneEmit
  <2>2. Len(chan'[c]) = Len(q) + 1
    BY <1>2, <1>4, <2>1
  <2>3. Len(sent') = Len(sent) + 1
    BY <1>3, <2>1 DEF LoneType
  <2>4. Len(sent') - Len(chan'[c]) = r
    BY <1>5, <2>2, <2>3
  <2> QED
    BY <1>3, <2>1, <2>4
<1>10. CASE UNCHANGED vars \/ Second
  BY <1>3, <1>10 DEF vars, Second
<1>11. CASE Begin(o)
  <2> DEFINE w == IF Kind(o) = "join" THEN Recent(b, now, program[o].size) ELSE b
  <2>1. /\ UNCHANGED <<chan, sent, out>>
        /\ task'[o] = [at |-> "wait", pend |-> p, buf |-> w, mark |-> now, due |-> task[o].due,
                       until |-> task[o].until, backoff |-> task[o].backoff]
    BY <1>3, <1>11, LoneBegin
  <2>2. w = b
    OBVIOUS
  <2> HIDE DEF w
  <2> QED
    BY <1>3, <2>1, <2>2
<1>12. ASSUME ReceivePanics(o, "input") PROVE TightAfter
  <2>1. /\ q # none /\ chan' = [chan EXCEPT ![c] = Tail(q)] /\ UNCHANGED <<sent, out>> /\ Down(o)
    BY <1>2, <1>3, <1>12, LonePanics DEF Inlet
  <2>2. task'[o].buf = none /\ task'[o].pend = none
    BY <1>3, <2>1, LoneDown
  <2>3. chan'[c] = Tail(q)
    BY <1>2, <2>1
  <2> QED
    BY <1>6, <2>1, <2>2, <2>3
<1>13. CASE SendPanics(o)
  BY <1>3, <1>6, <1>13, LoneSendPanics, LoneDown
<1>14. CASE Restart(o)
  BY <1>3, <1>6, <1>14, LoneRestart
<1>15. ~Tick(o)
  BY <1>3, LoneTick DEF TimeWindow
<1> QED
  BY <1>2, <1>3, <1>7, <1>8, <1>9, <1>10, <1>11, <1>12, <1>13, <1>14, <1>15, LoneNext

(* So every step of it keeps the windows in order. *)
LEMMA WindowKept ==
  ASSUME NEW o, WindowInv(o), [Next]_vars
  PROVE  WindowInv(o)'
<1>1. LoneType(o) /\ Kind(o) \in Windows
  BY DEF WindowInv
<1>2. LoneType(o)'
  BY <1>1, LoneTypeKept
<1>3. UNCHANGED program
  BY ProgramStays
<1>4. (Kind(o) \in Windows)'
  BY <1>1, <1>3 DEF Kind
<1>5. Ports(Kind(o)) = {"input"} /\ now \in Nat
  BY FlowIs
<1>6. Flow(o)'
  <2>1. CASE Emit
    BY <2>1, FlowEmit
  <2>2. CASE Second
    <3> DEFINE q == chan[Inlet(o)]
               b == task[o].buf
               p == task[o].pend
               r == Len(sent) - Len(q)
               t == now
               t2 == now + 1
               se == sent
               ou == out
               k == Kind(o)
               size == program[o].size
    <3>1. Going(k, size, se, q, b, t, p, ou, r) /\ Room(k, size, b) /\ t \in Nat
      BY FlowIs
    <3>2. /\ UNCHANGED program /\ chan'[Inlet(o)] = q /\ task'[o].buf = b
          /\ task'[o].pend = p /\ out' = ou /\ sent' = se /\ now' = t2
      BY <2>2 DEF Second
    <3>3. t2 \in Nat /\ t <= t2
      BY <3>1
    <3> HIDE DEF q, b, p, r, t, se, ou, k, size, t2
    <3>4. Going(k, size, se, q, b, t2, p, ou, r)
      BY <3>1, <3>3, GoingClock
    <3> QED
      BY <3>1, <3>2, <3>4, FlowBy DEF k, size
  <2>3. CASE Begin(o)
    <3>1. /\ UNCHANGED <<program, chan, fly, now, panics, sent, out, taken>>
          /\ task'[o].pend = task[o].pend /\ task'[o].buf = task[o].buf
      <4> DEFINE w == IF Kind(o) = "join" THEN Recent(task[o].buf, now, program[o].size)
                      ELSE task[o].buf
      <4>1. w = task[o].buf
        BY <1>1 DEF Windows
      <4>2. /\ UNCHANGED <<program, chan, fly, now, panics, sent, out, taken>>
            /\ task'[o] = [at |-> "wait", pend |-> task[o].pend, buf |-> w,
                           mark |-> now, due |-> task[o].due, until |-> task[o].until,
                           backoff |-> task[o].backoff]
        BY <1>1, <2>3, LoneBegin
      <4> HIDE DEF w
      <4> QED
        BY <4>1, <4>2
    <3> QED
      BY <3>1 DEF WindowInv, Flow, Inlet, Kind
  <2>4. CASE Send(o)
    BY <2>4, FlowSend
  <2>5. CASE Tick(o)
    BY <2>5, FlowTick
  <2>6. CASE Restart(o)
    BY <1>1, <2>6, LoneRestart, FlowDown
  <2>7. CASE SendPanics(o)
    BY <1>1, <2>7, LoneSendPanics, LoneDown, FlowDown
  <2>8. ASSUME NEW port \in Ports(Kind(o)), Receive(o, port) PROVE Flow(o)'
    <3>1. port = "input"
      BY <1>5
    <3>2. Receive(o, "input")
      BY <2>8, <3>1
    <3> QED
      BY <3>2, FlowReceive
  <2>9. ASSUME NEW port \in Ports(Kind(o)), ReceivePanics(o, port) PROVE Flow(o)'
    <3>1. <<o, port>> = Inlet(o)
      BY <1>5 DEF Inlet
    <3>2. /\ chan[Inlet(o)] # <<>> /\ Down(o)
          /\ chan' = [chan EXCEPT ![Inlet(o)] = Tail(chan[Inlet(o)])]
          /\ UNCHANGED <<program, fly, now, sent, out>>
      BY <1>1, <2>9, <3>1, LonePanics
    <3>3. task'[o].pend = <<>> /\ task'[o].buf = <<>>
      BY <1>1, <3>2, LoneDown
    <3> QED
      BY <3>2, <3>3, FlowDown
  <2>10. CASE UNCHANGED vars
    BY <2>10 DEF vars, WindowInv, Flow, Inlet, Kind
  <2> QED
    BY <1>1, <2>1, <2>2, <2>3, <2>4, <2>5, <2>6, <2>7, <2>8, <2>9, <2>10, LoneNext
<1> QED
  BY <1>2, <1>4, <1>6, TidyKept DEF WindowInv

(* What comes out of a lone window goes forward. *)
LEMMA WindowsSay ==
  ASSUME NEW o, WindowInv(o)
  PROVE  WindowsAdvance
<1> DEFINE k == Kind(o)
           size == program[o].size
           q == chan[Inlet(o)]
           r == Len(sent) - Len(q)
           n == Len(task[o].buf)
<1>1. /\ Numbered(sent) /\ OutInOrder(k, size, sent, out, r, n)
  BY FlowIs DEF Going
<1>2. out \in Seq([from : {o}, msg : Seq(Event)])
  BY DEF WindowInv, LoneType
<1> DEFINE Goes(m, p, i) ==
             /\ \A x \in 1..Len(m) : m[x].n = First(m) + x - 1
             /\ p.kind = "tumbling" => Len(m) = p.size
             /\ p.kind = "sliding" =>
                  Len(m) = IF \E j \in DOMAIN out : ReachesInto(out[j].msg, m) THEN p.size + 1 ELSE p.size
             /\ \A j \in 1..i - 1 :
                  /\ First(out[j].msg) <= First(m) /\ Final(out[j].msg) <= Final(m)
                  /\ p.kind \in {"tumbling", "tumbling_time"} => Final(out[j].msg) < First(m)
<1> SUFFICES ASSUME NEW i \in DOMAIN out PROVE Goes(out[i].msg, program[out[i].from], i)
  BY DEF WindowsAdvance
<1> DEFINE m == out[i].msg
           p == program[out[i].from]
<1>3. out[i].from = o
  <2>1. \A j \in DOMAIN out : out[j] \in [from : {o}, msg : Seq(Event)]
    <3> DEFINE L == [from : {o}, msg : Seq(Event)]
    <3>1. out \in Seq(L)
      BY <1>2
    <3> HIDE DEF L
    <3>2. \A j \in DOMAIN out : out[j] \in L
      BY <3>1
    <3> QED
      BY <3>2 DEF L
  <2> QED
    BY <2>1
<1>4. IsWindow(k, size, sent, m)
  BY <1>1 DEF OutInOrder
<1>5. \A x \in 1..Len(m) : m[x].n = First(m) + x - 1
  <2>1. \A x \in 1..Len(m) : m[x].n = (First(m) + x) - 1 /\ First(m) \in Nat
    BY <1>1, <1>4, WindowNumbers
  <2> QED
    BY <2>1
<1>6. /\ k = "tumbling" => Len(m) = size
      /\ k = "sliding" =>
           Len(m) = IF \E j \in DOMAIN out : ReachesInto(out[j].msg, m) THEN size + 1 ELSE size
  <2>1. ASSUME k = "sliding" PROVE Exact(size, Shown(out, <<>>))
    BY <2>1, FlowIs, ExactOut DEF WindowInv, Tidy
  <2>2. Shown(out, <<>>) = {out[j].msg : j \in DOMAIN out}
    BY DEF Shown, ToSet, Range
  <2> QED
    BY <1>4, <2>1, <2>2 DEF IsWindow, Sized, Exact
<1>7. ASSUME NEW j \in 1..i - 1
      PROVE  /\ First(out[j].msg) <= First(m) /\ Final(out[j].msg) <= Final(m)
             /\ k \in {"tumbling", "tumbling_time"} => Final(out[j].msg) < First(m)
  <2>1. j \in DOMAIN out /\ j < i
    BY <1>2
  <2>2. Precedes(k, out[j].msg, m)
    BY <1>1, <2>1 DEF OutInOrder
  <2> QED
    BY <2>2 DEF Precedes, Tumbles
<1>8. p.kind = k /\ p.size = size
  BY <1>3 DEF Kind
<1> HIDE DEF k, size, m, p
<1>9. Goes(m, p, i)
  BY <1>5, <1>6, <1>7, <1>8
<1> QED
  BY <1>9 DEF m, p

(* It is so when the program starts. *)
LEMMA WindowInit ==
  ASSUME NEW o, Lone(o), Kind(o) \in Windows, Init
  PROVE  WindowInv(o)
<1> DEFINE k == Kind(o)
           size == program[o].size
           none == <<>>
<1>1. /\ LoneType(o) /\ sent = <<>> /\ out = <<>> /\ now = 0
      /\ \A c \in Channels(program) : chan[c] = <<>>
      /\ task[o].buf = <<>> /\ task[o].pend = <<>>
  BY LoneInit DEF Solo
<1>2. Inlet(o) \in Channels(program) /\ size \in Nat
      /\ (k \in {"tumbling", "sliding"} => size # 0)
  <2>1. Channels(program) = {<<o, port>> : port \in Ports(Kind(o))} /\ Ports(Kind(o)) = {"input"}
    BY <1>1, LoneChannels
  <2> QED
    BY <2>1 DEF Inlet, Lone
<1>3. /\ none \in Seq(Single) /\ none \in Seq(Stored) /\ Len(none) = 0 /\ DOMAIN none = {}
  OBVIOUS
<1>4. sent = none /\ out = none /\ chan[Inlet(o)] = none /\ task[o].buf = none
      /\ task[o].pend = none
  BY <1>1, <1>2
<1> HIDE DEF none, size, k
<1> DEFINE zero == Len(none)
<1>5. Numbered(none) /\ Waits(none, none, zero) /\ Buffered(none, none, zero) /\ Sorted(none, now)
  BY <1>3 DEF Numbered, Waits, Buffered, Sorted
<1>6. /\ OutInOrder(k, size, none, none, zero, zero)
      /\ NextUp(k, size, none, none, none, zero, zero)
  BY <1>3 DEF OutInOrder, NextUp
<1>7. Going(k, size, none, none, none, now, none, none, zero)
  BY <1>5, <1>6 DEF Going
<1>8. zero = Len(none) - Len(none)
  BY <1>3
<1>9. Room(k, size, none)
  BY <1>2, <1>3 DEF Room
<1> HIDE DEF zero
<1>10. Flow(o)
  BY <1>4, <1>7, <1>8, <1>9 DEF Flow, k, size
<1>11. Tidy(o)
  <2> SUFFICES ASSUME Kind(o) = "sliding"
               PROVE  Tight(size, Len(none), Shown(none, none), Len(none) - Len(none))
    BY <1>4 DEF Tidy, size
  <2>1. Shown(none, none) = {} /\ size # 0
    BY <1>2, <1>3 DEF Shown, ToSet, Range, k
  <2> QED
    BY <1>3, <2>1 DEF Tight, Exact
<1> QED
  BY <1>1, <1>10, <1>11 DEF WindowInv

(* A window that runs alone. *)
LoneWindow == \E o : Lone(o) /\ Kind(o) \in Windows

(* The windows of an operator that runs alone, between those who emit and    *)
(* the service at its end, go forward, panics and restarts or not: stretches *)
(* of events without a gap. One that counts has as many events as            *)
(* configured, or, if it slides and an earlier one reaches into it, exactly  *)
(* one more, which is more than ROADMAP_CEP.md:107 and stream.rs:815 say.    *)
(* (Behind another operator the events of a window are not all that were     *)
(* sent.)                                                                    *)
THEOREM WindowsGoForward == Spec /\ LoneWindow => []WindowsAdvance
<1> DEFINE I == \E o : WindowInv(o)
<1>1. Init /\ LoneWindow => I
  <2> SUFFICES ASSUME Init, NEW o, Lone(o), Kind(o) \in Windows PROVE WindowInv(o)
    BY DEF LoneWindow
  <2> QED
    BY WindowInit
<1>2. I /\ [Next]_vars => I'
  BY WindowKept
<1>3. I => WindowsAdvance
  BY WindowsSay
<1> HIDE DEF I
<1> QED
  BY <1>1, <1>2, <1>3, PTL DEF Spec

-----------------------------------------------------------------------------
(* What a panic loses. A set is no larger than the list of its elements. *)
LEMMA ListSize ==
  ASSUME NEW n \in Nat, NEW f
  PROVE  IsFiniteSet({f[i] : i \in 1..n}) /\ Cardinality({f[i] : i \in 1..n}) <= n
<1> DEFINE g == [i \in 1..n |-> f[i]]
           S == 1..n
           T == {f[i] : i \in 1..n}
<1>1. IsFiniteSet(S) /\ Cardinality(S) = n
  <2>1. 1 \in Int /\ n \in Int
    OBVIOUS
  <2>2. IsFiniteSet(1..n) /\ Cardinality(1..n) = IF 1 > n THEN 0 ELSE n - 1 + 1
    BY <2>1, FS_Interval
  <2> QED
    BY <2>2
<1>2. g \in Surjection(S, T)
  BY DEF Surjection
<1> HIDE DEF g, S, T
<1>3. IsFiniteSet(T) /\ Cardinality(T) <= Cardinality(S)
  BY <1>1, <1>2, FS_Surjection
<1> QED
  BY <1>1, <1>3 DEF T

(* A window that counts loses nothing as it receives, *)
LEMMA KeepCount ==
  ASSUME NEW size \in Nat \ {0}, NEW q \in Seq(Single), q # <<>>, NEW b \in Seq(Stored),
         NEW ou, NEW x \in Stored, x.msg = Head(q), NEW all, all = Append(b, x),
         NEW send, NEW rest,
         \/ send = <<>> /\ rest = all
         \/ send = <<Events(all)>>,
         NEW e, Has(q, <<>>, b, ou, e)
  PROVE  Has(Tail(q), send, rest, ou, e)
<1>1. /\ all \in Seq(Stored) /\ Len(all) = Len(b) + 1 /\ Len(b) \in Nat /\ all[Len(all)] = x
      /\ \A i \in 1..Len(b) : all[i] = b[i]
  OBVIOUS
<1>2. /\ Len(q) \in Nat \ {0} /\ Len(Tail(q)) = Len(q) - 1 /\ Head(q) = q[1]
      /\ \A i \in 1..(Len(q) - 1) : Tail(q)[i] = q[i + 1]
  OBVIOUS
<1>3. \/ \E i \in 1..Len(Tail(q)) : Tail(q)[i] = <<e>>
      \/ \E j \in 1..Len(all) : all[j].msg = <<e>>
      \/ Seen(ou, e)
  <2>1. CASE \E i \in 1..Len(q) : q[i] = <<e>>
    <3>1. PICK i \in 1..Len(q) : q[i] = <<e>>
      BY <2>1
    <3>2. CASE i = 1
      <4>1. all[Len(all)].msg = <<e>> /\ Len(all) \in 1..Len(all)
        BY <1>1, <1>2, <3>1, <3>2
      <4> QED
        BY <4>1
    <3>3. CASE i # 1
      <4>1. i - 1 \in 1..Len(Tail(q)) /\ i - 1 \in 1..(Len(q) - 1) /\ (i - 1) + 1 = i
        BY <1>2, <3>3
      <4>2. Tail(q)[i - 1] = q[i]
        BY <1>2, <4>1
      <4> QED
        BY <3>1, <4>1, <4>2
    <3> QED
      BY <3>2, <3>3
  <2>2. CASE \E i \in 1..Len(b) : b[i].msg = <<e>>
    <3>1. \A i \in 1..Len(b) : i \in 1..Len(all)
      BY <1>1
    <3> QED
      BY <1>1, <2>2, <3>1
  <2>3. CASE \E i \in DOMAIN ou : \E k \in 1..Len(ou[i].msg) : ou[i].msg[k] = e
    BY <2>3 DEF Seen
  <2>4. ~(\E i \in 1..Len(<<>>) : \E k \in 1..Len(<<>>[i]) : <<>>[i][k] = e)
    <3> DEFINE none == <<>>
    <3>1. 1..Len(none) = {}
      OBVIOUS
    <3> HIDE DEF none
    <3>2. ~(\E i \in 1..Len(none) : \E k \in 1..Len(none[i]) : none[i][k] = e)
      BY <3>1
    <3> QED
      BY <3>2 DEF none
  <2> QED
    BY <2>1, <2>2, <2>3, <2>4 DEF Has
<1>4. CASE \E j \in 1..Len(all) : all[j].msg = <<e>>
  <2>1. PICK j \in 1..Len(all) : all[j].msg = <<e>>
    BY <1>4
  <2>2. CASE rest = all
    BY <2>1, <2>2 DEF Has
  <2>3. CASE send = <<Events(all)>>
    <3> DEFINE m == Events(all)
    <3>1. Len(m) = Len(all) /\ m[j] = all[j].msg[1]
      BY <1>1, EventsAre
    <3>2. m[j] = e /\ j \in 1..Len(m)
      BY <2>1, <3>1
    <3> HIDE DEF m
    <3>3. Len(send) = 1 /\ send[1] = m
      BY <2>3 DEF m
    <3>4. 1 \in 1..Len(send)
      BY <3>3
    <3> QED
      BY <3>2, <3>3, <3>4, Zenon DEF Has
  <2> QED
    BY <2>2, <2>3
<1> QED
  BY <1>3, <1>4 DEF Has, Seen

(* ... and as it sends. *)
LEMMA KeepSend ==
  ASSUME NEW q, NEW p, p = <<p[1]>>, NEW b, NEW L, NEW ou \in Seq(L), NEW x \in L,
         x.msg = Head(p), NEW e, Has(q, p, b, ou, e)
  PROVE  Has(q, Tail(p), b, Append(ou, x), e)
<1> DEFINE m == p[1]
           o2 == Append(ou, x)
<1>1. Head(p) = m /\ Len(p) = 1
  OBVIOUS
<1>2. /\ DOMAIN o2 = 1..Len(o2) /\ Len(o2) = Len(ou) + 1 /\ o2[Len(o2)] = x /\ Len(ou) \in Nat
      /\ DOMAIN ou = 1..Len(ou) /\ \A i \in DOMAIN ou : o2[i] = ou[i]
  OBVIOUS
<1> HIDE DEF m, o2
<1>3. Len(o2) \in DOMAIN o2 /\ \A i \in DOMAIN ou : i \in DOMAIN o2
  BY <1>2
<1>4. CASE \E i \in 1..Len(p) : \E k \in 1..Len(p[i]) : p[i][k] = e
  <2>1. \E k \in 1..Len(m) : m[k] = e
    BY <1>1, <1>4 DEF m
  <2> QED
    BY <1>1, <1>2, <1>3, <2>1 DEF Has, o2
<1>5. CASE \E i \in DOMAIN ou : \E k \in 1..Len(ou[i].msg) : ou[i].msg[k] = e
  BY <1>2, <1>3, <1>5 DEF Has, o2
<1> QED
  BY <1>4, <1>5 DEF Has

(* What it held before it panicked on a message. *)
LEMMA LossReceive ==
  ASSUME NEW kind \in {"tumbling", "sliding"}, NEW size \in Nat \ {0}, NEW q \in Seq(Single),
         q # <<>>, NEW b \in Seq(Stored), NEW ou, Room(kind, size, b),
         Slid(kind, size, <<>>, b, ou)
  PROVE  \E D : /\ IsFiniteSet(D) /\ Cardinality(D) <= size
                /\ \A e : Has(q, <<>>, b, ou, e) => e \in D \/ Has(Tail(q), <<>>, <<>>, ou, e)
<1> DEFINE x == [t |-> 0, port |-> "input", msg |-> Head(q)]
           all == Append(b, x)
           f == [i \in 1..Len(all) |-> all[i].msg[1]]
           none == <<>>
<1>1. Head(q) \in Single
  OBVIOUS
<1>2. x \in Stored /\ x.msg = Head(q)
  BY <1>1 DEF Stored
<1> HIDE DEF x
<1>3. /\ all \in Seq(Stored) /\ Len(all) = Len(b) + 1 /\ Len(b) \in Nat /\ all[Len(all)] = x
      /\ \A i \in 1..Len(b) : all[i] = b[i]
  BY <1>2
<1>4. ASSUME NEW e, Has(q, none, b, ou, e)
      PROVE  (\E j \in 1..Len(all) : all[j].msg = <<e>>) \/ Has(Tail(q), none, none, ou, e)
  <2> HIDE DEF all
  <2>1. Has(Tail(q), none, all, ou, e)
    BY <1>2, <1>4, KeepCount DEF all
  <2> HIDE DEF none
  <2> QED
    BY <2>1 DEF Has
<1>5. ASSUME NEW e, NEW j \in 1..Len(all), all[j].msg = <<e>> PROVE e = f[j]
  BY <1>5
<1> HIDE DEF all, f, none
<1>6. CASE Len(all) <= size
  <2> DEFINE D == {f[i] : i \in 1..Len(all)}
  <2>0. Len(all) \in Nat
    BY <1>3
  <2>1. IsFiniteSet(D) /\ Cardinality(D) <= Len(all) /\ Len(all) \in Nat
    BY <2>0, ListSize
  <2>2. Cardinality(D) \in Nat
    BY <2>1, FS_CardinalityType
  <2>3. \A e : Has(q, none, b, ou, e) => e \in D \/ Has(Tail(q), none, none, ou, e)
    BY <1>4, <1>5
  <2> HIDE DEF D
  <2>4. Cardinality(D) <= size
    BY <1>6, <2>1, <2>2
  <2> QED
    BY <2>1, <2>3, <2>4 DEF none
<1>7. CASE ~(Len(all) <= size)
  <2> DEFINE D == {f[Len(all)]}
  <2>1. IsFiniteSet(D) /\ Cardinality(D) = 1
    BY FS_Singleton
  <2>2. kind = "sliding" /\ Len(b) = size
    BY <1>3, <1>7 DEF Room
  <2>3. \A i \in 1..Len(b) : Seen(ou, b[i].msg[1])
    BY <2>2 DEF Slid, none
  <2>4. ASSUME NEW e, Has(q, none, b, ou, e)
        PROVE  e \in D \/ Has(Tail(q), none, none, ou, e)
    <3>1. CASE \E j \in 1..Len(all) : all[j].msg = <<e>>
      <4>1. PICK j \in 1..Len(all) : all[j].msg = <<e>>
        BY <3>1
      <4>2. CASE j = Len(all)
        BY <1>5, <4>1, <4>2
      <4>3. CASE j # Len(all)
        <5>1. j \in 1..Len(b)
          BY <1>3, <4>3
        <5>2. b[j].msg = <<e>>
          BY <1>3, <4>1, <5>1
        <5>3. Seen(ou, e)
          BY <2>3, <5>1, <5>2
        <5> QED
          BY <5>3 DEF Seen, Has
      <4> QED
        BY <4>2, <4>3
    <3> QED
      BY <1>4, <2>4, <3>1
  <2> HIDE DEF D
  <2>5. Cardinality(D) <= size
    BY <2>1
  <2> QED
    BY <2>1, <2>4, <2>5 DEF none
<1> QED
  BY <1>3, <1>6, <1>7

(* ... and before one as it sends. *)
LEMMA LossSend ==
  ASSUME NEW kind \in {"tumbling", "sliding"}, NEW size \in Nat \ {0}, NEW q,
         NEW p, p = <<p[1]>>, p[1] \in Seq(Event), Sized(kind, size, p[1]),
         NEW b \in Seq(Stored), kind = "tumbling" => Len(b) = 0, NEW ou,
         Slid(kind, size, p, b, ou)
  PROVE  \E D : /\ IsFiniteSet(D) /\ Cardinality(D) <= size
                /\ \A e : Has(q, p, b, ou, e) => e \in D \/ Has(q, <<>>, <<>>, ou, e)
<1> DEFINE m == p[1]
           none == <<>>
<1>1. Len(p) = 1 /\ p # none
  BY OneIs
<1>2. m \in Seq(Event) /\ Len(m) \in Nat
  OBVIOUS
<1>3. ASSUME NEW e, Has(q, p, b, ou, e)
      PROVE  (\E k \in 1..Len(m) : m[k] = e) \/ Has(q, none, none, ou, e)
  <2>1. CASE \E i \in 1..Len(p) : \E k \in 1..Len(p[i]) : p[i][k] = e
    BY <1>1, <2>1
  <2>2. CASE \E i \in 1..Len(b) : b[i].msg = <<e>>
    <3>1. PICK i \in 1..Len(b) : b[i].msg = <<e>>
      BY <2>2
    <3>2. kind = "sliding"
      <4>1. Len(b) # 0
        BY <3>1
      <4> QED
        BY <4>1
    <3>3. \E k \in 1..Len(p[1]) : p[1][k] = b[i].msg[1]
      BY <1>1, <3>2 DEF Slid
    <3> QED
      BY <3>1, <3>3
  <2> HIDE DEF none, m
  <2> QED
    BY <1>3, <2>1, <2>2 DEF Has
<1> HIDE DEF none, m
<1>4. CASE Len(m) <= size
  <2> DEFINE D == {m[i] : i \in 1..Len(m)}
  <2>1. IsFiniteSet(D) /\ Cardinality(D) <= Len(m)
    BY <1>2, ListSize
  <2>2. Cardinality(D) \in Nat
    BY <2>1, FS_CardinalityType
  <2>3. \A e : Has(q, p, b, ou, e) => e \in D \/ Has(q, none, none, ou, e)
    BY <1>3
  <2> HIDE DEF D
  <2>4. Cardinality(D) <= size
    BY <1>2, <1>4, <2>1, <2>2
  <2> QED
    BY <2>1, <2>3, <2>4 DEF none
<1>5. CASE ~(Len(m) <= size)
  <2> DEFINE D == {m[Len(m)]}
  <2>1. IsFiniteSet(D) /\ Cardinality(D) = 1
    BY FS_Singleton
  <2>2. kind = "sliding" /\ Len(m) # size
    BY <1>2, <1>5 DEF Sized, m
  <2>3. \A k \in 1..(Len(m) - 1) : Seen(ou, m[k])
    BY <1>1, <2>2 DEF Slid, m, none
  <2>4. ASSUME NEW e, Has(q, p, b, ou, e) PROVE e \in D \/ Has(q, none, none, ou, e)
    <3>1. CASE \E k \in 1..Len(m) : m[k] = e
      <4>1. PICK k \in 1..Len(m) : m[k] = e
        BY <3>1
      <4>2. k = Len(m) \/ k \in 1..(Len(m) - 1)
        BY <1>2
      <4>3. k \in 1..(Len(m) - 1) => Seen(ou, e)
        BY <2>3, <4>1
      <4> QED
        BY <4>1, <4>2, <4>3 DEF Seen, Has
    <3> QED
      BY <1>3, <2>4, <3>1
  <2> HIDE DEF D
  <2>5. Cardinality(D) <= size
    BY <2>1
  <2> QED
    BY <2>1, <2>4, <2>5 DEF none
<1> QED
  BY <1>2, <1>4, <1>5

(* What a sliding window holds has been in a window, once it is full. *)
LEMMA SlidCount ==
  ASSUME NEW kind \in {"tumbling", "sliding"}, NEW size \in Nat \ {0}, NEW b \in Seq(Stored),
         Room(kind, size, b), NEW ou, NEW x \in Stored, NEW all, all = Append(b, x),
         NEW send, NEW rest,
         IF Len(all) < size THEN send = <<>> /\ rest = all
         ELSE /\ send = <<Events(all)>>
              /\ rest = IF kind = "tumbling" THEN <<>>
                        ELSE IF Len(all) > size THEN Tail(all) ELSE all,
         Slid(kind, size, <<>>, b, ou)
  PROVE  Slid(kind, size, send, rest, ou)
<1> SUFFICES ASSUME kind = "sliding"
             PROVE  /\ send = <<>> /\ Len(rest) = size =>
                         \A i \in 1..Len(rest) : Seen(ou, rest[i].msg[1])
                    /\ send # <<>> =>
                         /\ Len(rest) = size
                         /\ \A i \in 1..Len(rest) :
                              \E k \in 1..Len(send[1]) : send[1][k] = rest[i].msg[1]
                         /\ Len(send[1]) # size =>
                              \A k \in 1..(Len(send[1]) - 1) : Seen(ou, send[1][k])
  BY Zenon DEF Slid
<1>1. /\ all \in Seq(Stored) /\ Len(all) = Len(b) + 1 /\ Len(b) \in Nat /\ Len(b) <= size
      /\ \A i \in 1..Len(b) : all[i] = b[i]
  BY DEF Room
<1>2. CASE Len(all) < size
  BY <1>1, <1>2
<1>3. CASE ~(Len(all) < size)
  <2> DEFINE m == Events(all)
  <2>1. Len(m) = Len(all) /\ \A i \in 1..Len(all) : m[i] = all[i].msg[1]
    BY <1>1, EventsAre
  <2>2. send = <<m>> /\ rest = IF Len(all) > size THEN Tail(all) ELSE all
    BY <1>3
  <2> HIDE DEF m
  <2>3. send[1] = m /\ send # <<>>
    BY <2>2
  <2>4. CASE Len(all) > size
    <3>1. /\ rest = Tail(all) /\ Len(rest) = Len(all) - 1 /\ Len(all) = size + 1 /\ Len(b) = size
          /\ \A i \in 1..Len(rest) : rest[i] = all[i + 1] /\ i + 1 \in 1..Len(all)
      BY <1>1, <2>2, <2>4
    <3>2. \A i \in 1..Len(rest) : m[i + 1] = rest[i].msg[1] /\ i + 1 \in 1..Len(m)
      BY <2>1, <3>1
    <3>3. \A i \in 1..Len(b) : Seen(ou, b[i].msg[1])
      BY <3>1 DEF Slid
    <3>4. ASSUME NEW k \in 1..(Len(m) - 1) PROVE Seen(ou, m[k])
      <4>1. k \in 1..Len(b) /\ k \in 1..Len(all)
        BY <1>1, <2>1
      <4>2. m[k] = b[k].msg[1]
        BY <1>1, <2>1, <4>1
      <4> QED
        BY <3>3, <4>1, <4>2
    <3>5. Len(rest) = size
      BY <1>1, <3>1
    <3> QED
      BY <2>3, <3>2, <3>4, <3>5
  <2>5. CASE ~(Len(all) > size)
    <3>1. rest = all /\ Len(rest) = size /\ Len(m) = size
      BY <1>1, <1>3, <2>1, <2>2, <2>5
    <3>2. \A i \in 1..Len(rest) : \E k \in 1..Len(m) : m[k] = rest[i].msg[1]
      BY <2>1, <3>1
    <3> QED
      BY <2>3, <3>1, <3>2
  <2> QED
    BY <2>4, <2>5
<1> QED
  BY <1>2, <1>3

(* ... and is in one when that one is sent. *)
LEMMA SlidSend ==
  ASSUME NEW kind, NEW size, NEW p, p = <<p[1]>>, NEW b, NEW L, NEW ou \in Seq(L), NEW x \in L,
         x.msg = Head(p), Slid(kind, size, p, b, ou)
  PROVE  Slid(kind, size, Tail(p), b, Append(ou, x))
<1> DEFINE m == p[1]
           o2 == Append(ou, x)
           none == <<>>
<1>1. Head(p) = m /\ p # none /\ Tail(p) = none
  BY OneIs
<1>2. DOMAIN o2 = 1..Len(o2) /\ Len(o2) = Len(ou) + 1 /\ o2[Len(o2)] = x /\ Len(ou) \in Nat
  OBVIOUS
<1> HIDE DEF o2
<1>3. Len(o2) \in DOMAIN o2
  BY <1>2
<1>4. \A e : (\E k \in 1..Len(m) : m[k] = e) => Seen(o2, e)
  BY <1>1, <1>2, <1>3 DEF Seen
<1>5. kind = "sliding" => \A i \in 1..Len(b) : \E k \in 1..Len(m) : m[k] = b[i].msg[1]
  BY <1>1 DEF Slid
<1>6. kind = "sliding" => \A i \in 1..Len(b) : Seen(o2, b[i].msg[1])
  BY <1>4, <1>5
<1> HIDE DEF none, m
<1>7. Slid(kind, size, none, b, o2)
  BY <1>6 DEF Slid, none
<1> QED
  BY <1>1, <1>7 DEF o2

(* A window that holds nothing has nothing to have sent. *)
LEMMA SlidNew ==
  ASSUME NEW kind, NEW size \in Nat \ {0}, NEW ou
  PROVE  Slid(kind, size, <<>>, <<>>, ou)
<1> DEFINE none == <<>>
<1>1. Len(none) = 0
  OBVIOUS
<1> HIDE DEF none
<1>2. Slid(kind, size, none, none, ou)
  BY <1>1 DEF Slid, none
<1> QED
  BY <1>2 DEF none

(* The events of a list of messages of one. *)
LEMMA OnesIn ==
  ASSUME NEW q \in Seq(Single)
  PROVE  \A e : (\E m \in ToSet(q) : e \in ToSet(m)) <=> \E i \in 1..Len(q) : q[i] = <<e>>
<1> SUFFICES ASSUME NEW e
             PROVE  (\E m \in ToSet(q) : e \in ToSet(m)) <=> \E i \in 1..Len(q) : q[i] = <<e>>
  OBVIOUS
<1>1. ToSet(q) = {q[i] : i \in 1..Len(q)}
  BY DEF ToSet
<1>2. ASSUME NEW m \in Single PROVE e \in ToSet(m) <=> m = <<e>>
  <2>1. PICK d \in Event : m = <<d>>
    BY DEF Single
  <2>2. ToSet(m) = {d}
    BY <2>1 DEF ToSet
  <2> QED
    BY <2>1, <2>2
<1>3. \A i \in 1..Len(q) : q[i] \in Single
  OBVIOUS
<1> DEFINE one == <<e>>
<1>4. \A i \in 1..Len(q) : e \in ToSet(q[i]) <=> q[i] = one
  BY <1>2, <1>3
<1> HIDE DEF one
<1>5. (\E m \in ToSet(q) : e \in ToSet(m)) <=> \E i \in 1..Len(q) : e \in ToSet(q[i])
  BY <1>1
<1> QED
  BY <1>4, <1>5 DEF one

(* What a lone window lost. *)
LostIs(o) ==
    LoneType(o) /\ Kind(o) \in Windows =>
      Lost = {e \in SentEvents : ~Has(chan[Inlet(o)], task[o].pend, task[o].buf, out, e)}

(* It is so in every state. *)
LEMMA LostAre == ASSUME NEW o PROVE LostIs(o)
<1> SUFFICES ASSUME LoneType(o), Kind(o) \in Windows
    PROVE Lost = {e \in SentEvents : ~Has(chan[Inlet(o)], task[o].pend, task[o].buf, out, e)}
  BY DEF LostIs
<1> DEFINE q == chan[Inlet(o)]
           p == task[o].pend
           b == task[o].buf
           L == [from : {o}, msg : Seq(Event)]
<1>1. /\ Channels(program) = {Inlet(o)} /\ chan \in [Channels(program) -> Seq(Single)]
      /\ Ops = {o} /\ fly[o] = {} /\ p \in Seq(Seq(Event)) /\ b \in Seq(Stored)
      /\ out \in Seq(L)
  <2>1. Channels(program) = {<<o, port>> : port \in Ports(Kind(o))} /\ Ports(Kind(o)) = {"input"}
    BY LoneChannels
  <2>2. Channels(program) = {Inlet(o)}
    BY <2>1 DEF Inlet
  <2> QED
    BY <2>2 DEF LoneType, Lone, Works
<1>2. q \in Seq(Single) /\ DOMAIN chan = {Inlet(o)}
  BY <1>1
<1>3. Messages = ToSet(q) \cup ToSet(p)
                   \cup {x.msg : x \in ToSet(b)} \cup {x.msg : x \in ToSet(out)}
  <2> DEFINE G(x) == ToSet(task[x].pend) \cup fly[x] \cup {y.msg : y \in ToSet(task[x].buf)}
             C(c) == ToSet(chan[c])
             R == {x.msg : x \in ToSet(out)}
             B == {x.msg : x \in ToSet(b)}
             P == ToSet(p)
             U == UNION {C(c) : c \in DOMAIN chan}
             V == UNION {G(x) : x \in Ops}
  <2>1. Messages = U \cup V \cup R
    BY DEF Messages
  <2>2. G(o) = P \cup B /\ C(Inlet(o)) = ToSet(q)
    BY <1>1
  <2> HIDE DEF G, C, p, q, b, R, B, P
  <2>3. U = C(Inlet(o)) /\ V = G(o)
    BY <1>1, <1>2
  <2> HIDE DEF U, V
  <2>4. Messages = ToSet(q) \cup P \cup B \cup R
    BY <2>1, <2>2, <2>3
  <2> QED
    BY <2>4 DEF P, B, R
<1>4. "filter" \notin Kinds
  BY <1>1 DEF Kinds, Windows
<1> HIDE DEF q, p, b
<1>5. \A e : (\E m \in ToSet(q) : e \in ToSet(m)) <=> \E i \in 1..Len(q) : q[i] = <<e>>
  BY <1>2, OnesIn
<1>6. \A e : (\E m \in ToSet(p) : e \in ToSet(m))
               <=> \E i \in 1..Len(p) : \E k \in 1..Len(p[i]) : p[i][k] = e
  <2>1. \A i \in 1..Len(p) : DOMAIN p[i] = 1..Len(p[i])
    <3>1. \A i \in 1..Len(p) : p[i] \in Seq(Event)
      BY <1>1
    <3>2. \A m \in Seq(Event) : DOMAIN m = 1..Len(m)
      OBVIOUS
    <3> QED
      BY <3>1, <3>2
  <2>2. DOMAIN p = 1..Len(p)
    BY <1>1
  <2> QED
    BY <2>1, <2>2 DEF ToSet
<1>7. \A e : (\E m \in {x.msg : x \in ToSet(b)} : e \in ToSet(m))
               <=> \E i \in 1..Len(b) : b[i].msg = <<e>>
  <2> DEFINE r == [i \in 1..Len(b) |-> b[i].msg]
  <2>1. Len(b) \in Nat /\ \A i \in 1..Len(b) : b[i].msg \in Single
    BY <1>1, StoredIs
  <2>2. r \in Seq(Single) /\ Len(r) = Len(b) /\ \A i \in 1..Len(b) : r[i] = b[i].msg
    BY <2>1
  <2>3. ToSet(r) = {x.msg : x \in ToSet(b)}
    <3>1. ToSet(b) = {b[i] : i \in 1..Len(b)}
      BY <1>1 DEF ToSet
    <3>2. ToSet(r) = {r[i] : i \in 1..Len(b)}
      BY <2>2 DEF ToSet
    <3> HIDE DEF r
    <3> QED
      BY <2>2, <3>1, <3>2
  <2> HIDE DEF r
  <2>4. \A e : (\E m \in ToSet(r) : e \in ToSet(m)) <=> \E i \in 1..Len(r) : r[i] = <<e>>
    BY <2>2, OnesIn
  <2> QED
    BY <2>2, <2>3, <2>4
<1>8. \A e : (\E m \in {x.msg : x \in ToSet(out)} : e \in ToSet(m))
               <=> \E i \in DOMAIN out : \E k \in 1..Len(out[i].msg) : out[i].msg[k] = e
  <2>1. \A i \in DOMAIN out : out[i] \in L
    <3> HIDE DEF L
    <3> QED
      BY <1>1
  <2>2. \A i \in DOMAIN out : DOMAIN out[i].msg = 1..Len(out[i].msg)
    <3>1. \A i \in DOMAIN out : out[i].msg \in Seq(Event)
      BY <2>1
    <3>2. \A m \in Seq(Event) : DOMAIN m = 1..Len(m)
      OBVIOUS
    <3> QED
      BY <3>1, <3>2
  <2> QED
    BY <2>2 DEF ToSet
<1>9. \A e : (\E m \in Messages : e \in ToSet(m)) <=> Has(q, p, b, out, e)
  <2> DEFINE M1 == ToSet(q)
             M2 == ToSet(p)
             M3 == {x.msg : x \in ToSet(b)}
             M4 == {x.msg : x \in ToSet(out)}
  <2>1. Messages = M1 \cup M2 \cup M3 \cup M4
    BY <1>3
  <2> HIDE DEF M1, M2, M3, M4
  <2>2. \A e : (\E m \in Messages : e \in ToSet(m)) <=>
                 \/ \E m \in M1 : e \in ToSet(m)
                 \/ \E m \in M2 : e \in ToSet(m)
                 \/ \E m \in M3 : e \in ToSet(m)
                 \/ \E m \in M4 : e \in ToSet(m)
    BY <2>1
  <2> QED
    BY <1>5, <1>6, <1>7, <1>8, <2>2 DEF M1, M2, M3, M4, Has
<1>10. Lost = {e \in SentEvents : ~(\E m \in Messages : e \in ToSet(m))}
  BY <1>4 DEF Lost, Dropped
<1> QED
  BY <1>9, <1>10 DEF q, p, b

(* ... and has lost after a step. *)
LEMMA LostNext == ASSUME NEW o PROVE LostIs(o)'
<1>1. LostIs(o)
  BY LostAre
<1> QED
  BY <1>1, PTL

(* It loses no more than D in a step. *)
LEMMA LostStep ==
  ASSUME NEW o, LoneType(o) /\ Kind(o) \in Windows, (LoneType(o) /\ Kind(o) \in Windows)',
         NEW q, chan[Inlet(o)] = q, NEW p, task[o].pend = p, NEW b, task[o].buf = b,
         NEW q2, chan'[Inlet(o)] = q2, NEW p2, task'[o].pend = p2, NEW b2, task'[o].buf = b2,
         NEW o2, out' = o2, NEW D, IsFiniteSet(D), IsFiniteSet(Lost),
         \A e \in SentEvents' : e \in SentEvents \/ Has(q2, p2, b2, o2, e),
         \A e : Has(q, p, b, out, e) => e \in D \/ Has(q2, p2, b2, o2, e)
  PROVE  /\ IsFiniteSet(Lost') /\ Cardinality(Lost') \in Nat /\ Cardinality(Lost) \in Nat
         /\ Cardinality(D) \in Nat /\ Cardinality(Lost') <= Cardinality(Lost) + Cardinality(D)
<1>1. Lost = {e \in SentEvents : ~Has(q, p, b, out, e)}
  BY LostAre DEF LostIs
<1>2. Lost' = {e \in SentEvents' : ~Has(q2, p2, b2, o2, e)}
  <2>1. Lost' = {e \in SentEvents' : ~Has(chan[Inlet(o)], task[o].pend, task[o].buf, out, e)'}
    BY LostNext DEF LostIs
  <2>2. Inlet(o)' = Inlet(o)
    BY DEF Inlet
  <2>3. \A e : Has(chan[Inlet(o)], task[o].pend, task[o].buf, out, e)' <=> Has(q2, p2, b2, o2, e)
    BY <2>2 DEF Has
  <2> QED
    BY <2>1, <2>3
<1>3. Lost' \subseteq Lost \cup D
  BY <1>1, <1>2
<1> DEFINE S == Lost
           T == Lost'
<1>4. T \subseteq S \cup D /\ IsFiniteSet(S)
  BY <1>3
<1> HIDE DEF S, T
<1>5. /\ IsFiniteSet(T) /\ Cardinality(T) \in Nat /\ Cardinality(S) \in Nat
      /\ Cardinality(D) \in Nat /\ Cardinality(T) <= Cardinality(S) + Cardinality(D)
  BY <1>4, GrowsBy
<1> QED
  BY <1>5 DEF S, T

(* A lone window that counts and what it lost. *)
Counts == {"tumbling", "sliding"}
LossInv(o) ==
    /\ WindowInv(o) /\ Kind(o) \in Counts
    /\ Slid(Kind(o), program[o].size, task[o].pend, task[o].buf, out)
    /\ task[o].at = "down" => task[o].buf = <<>>
    /\ IsFiniteSet(Lost) /\ Cardinality(Lost) <= panics * program[o].size

(* What it holds. *)
LEMMA CountIs ==
  ASSUME NEW o, LossInv(o)
  PROVE  LET q == chan[Inlet(o)]  b == task[o].buf  p == task[o].pend
             k == Kind(o)  size == program[o].size
         IN  /\ q \in Seq(Single) /\ b \in Seq(Stored) /\ size \in Nat \ {0} /\ k \in Counts
             /\ Room(k, size, b) /\ Slid(k, size, p, b, out)
             /\ p # <<>> => /\ p = <<p[1]>> /\ p[1] \in Seq(Event) /\ Sized(k, size, p[1])
                            /\ k = "tumbling" => Len(b) = 0
             /\ task[o].at # "send" => p = <<>>
             /\ panics \in Nat
             /\ LoneType(o) /\ k \in Windows
<1> DEFINE q == chan[Inlet(o)]
           b == task[o].buf
           p == task[o].pend
           r == Len(sent) - Len(q)
           k == Kind(o)
           size == program[o].size
<1>1. WindowInv(o) /\ k \in Counts /\ Slid(k, size, p, b, out)
  BY DEF LossInv
<1>2. /\ Going(k, size, sent, q, b, now, p, out, r) /\ Room(k, size, b) /\ size \in Nat \ {0}
      /\ Inlet(o) \in Channels(program) /\ chan \in [Channels(program) -> Seq(Single)]
      /\ task[o] \in Works
  BY <1>1, FlowIs DEF Counts
<1>3. LoneType(o) /\ panics \in Nat /\ Busy(task[o]) /\ k \in Windows
  BY <1>1 DEF WindowInv, LoneType
<1>4. q \in Seq(Single) /\ b \in Seq(Stored) /\ p \in Seq(Seq(Event))
  BY <1>2 DEF Works
<1>5. task[o].at # "send" => p = <<>>
  BY <1>3 DEF Busy
<1> HIDE DEF q, b, p, r, k, size
<1>6. p # <<>> => /\ p = <<p[1]>> /\ IsWindow(k, size, sent, p[1])
                  /\ (Tumbles(k) => Len(b) = 0)
  BY <1>2 DEF Going, NextUp
<1>7. ASSUME p # <<>> PROVE /\ p[1] \in Seq(Event) /\ Sized(k, size, p[1])
                            /\ (k = "tumbling" => Len(b) = 0)
  <2>1. IsWindow(k, size, sent, p[1])
    BY <1>6, <1>7
  <2> QED
    BY <1>6, <1>7, <2>1 DEF IsWindow, From, Tumbles
<1> QED
  BY <1>1, <1>2, <1>3, <1>4, <1>5, <1>6, <1>7 DEF q, b, p, k, size

(* A step that loses at most D, and as many as the panics allow. *)
LEMMA LossBy ==
  ASSUME NEW o, LossInv(o), WindowInv(o)', UNCHANGED program,
         NEW q2, chan'[Inlet(o)] = q2, NEW p2, task'[o].pend = p2, NEW b2, task'[o].buf = b2,
         NEW o2, out' = o2, Slid(Kind(o), program[o].size, p2, b2, o2),
         task'[o].at = "down" => b2 = <<>>,
         \A e \in SentEvents' : e \in SentEvents \/ Has(q2, p2, b2, o2, e),
         NEW D, IsFiniteSet(D),
         \A e : Has(chan[Inlet(o)], task[o].pend, task[o].buf, out, e)
                  => e \in D \/ Has(q2, p2, b2, o2, e),
         \/ D = {} /\ panics' = panics
         \/ Cardinality(D) <= program[o].size /\ panics' = panics + 1
  PROVE  LossInv(o)'
<1> DEFINE q == chan[Inlet(o)]
           b == task[o].buf
           p == task[o].pend
           size == program[o].size
           before == Cardinality(Lost)
           after == Cardinality(Lost')
           d == Cardinality(D)
<1>1. LoneType(o) /\ Kind(o) \in Windows /\ (LoneType(o) /\ Kind(o) \in Windows)'
  BY CountIs DEF WindowInv
<1>2. IsFiniteSet(Lost) /\ before <= panics * size /\ size \in Nat /\ panics \in Nat
  BY CountIs DEF LossInv
<1>3. q = chan[Inlet(o)] /\ p = task[o].pend /\ b = task[o].buf
      /\ \A e : Has(q, p, b, out, e) => e \in D \/ Has(q2, p2, b2, o2, e)
  OBVIOUS
<1> HIDE DEF q, p, b
<1>4. /\ IsFiniteSet(Lost') /\ after \in Nat /\ before \in Nat /\ d \in Nat /\ after <= before + d
  BY <1>1, <1>2, <1>3, LostStep
<1>5. D = {} => d = 0
  BY FS_EmptySet
<1> HIDE DEF before, after, d, size
<1>6. after <= panics' * size
  <2>1. CASE D = {} /\ panics' = panics
    BY <1>2, <1>4, <1>5, <2>1
  <2>2. CASE d <= size /\ panics' = panics + 1
    <3>1. (panics + 1) * size = panics * size + size
      BY <1>2
    <3> DEFINE most == panics * size
    <3>2. most \in Nat
      BY <1>2
    <3>3. before <= most
      BY <1>2
    <3> HIDE DEF most
    <3>4. after <= most + size
      BY <1>2, <1>4, <2>2, <3>2, <3>3
    <3> QED
      BY <2>2, <3>1, <3>4 DEF most
  <2> QED
    BY <2>1, <2>2 DEF d, size
<1>7. Kind(o)' = Kind(o) /\ (program[o].size)' = program[o].size /\ Kind(o) \in Counts
  BY CountIs DEF Kind
<1> QED
  BY <1>4, <1>6, <1>7 DEF LossInv, after, size

(* Nothing more is lost of what stays where it was. *)
LEMMA LossStays ==
  ASSUME NEW o, LossInv(o), WindowInv(o)', UNCHANGED <<program, sent, out, panics>>,
         chan'[Inlet(o)] = chan[Inlet(o)], task'[o].pend = task[o].pend,
         task'[o].buf = task[o].buf,
         task'[o].at = "down" => task[o].buf = <<>>
  PROVE  LossInv(o)'
<1> DEFINE q == chan[Inlet(o)]
           b == task[o].buf
           p == task[o].pend
           ou == out
           D == {}
<1>1. /\ chan'[Inlet(o)] = q /\ task'[o].pend = p /\ task'[o].buf = b /\ out' = ou
      /\ \A e : Has(chan[Inlet(o)], task[o].pend, task[o].buf, out, e) => Has(q, p, b, ou, e)
      /\ task'[o].at = "down" => b = <<>>
  OBVIOUS
<1>2. SentEvents' = SentEvents
  BY DEF SentEvents
<1>3. Slid(Kind(o), program[o].size, p, b, ou)
  BY DEF LossInv
<1>4. IsFiniteSet(D) /\ D = {} /\ panics' = panics
  BY FS_EmptySet
<1> HIDE DEF q, b, p, ou, D
<1> QED
  BY <1>1, <1>2, <1>3, <1>4, LossBy

(* A panic. *)
LEMMA LossDown ==
  ASSUME NEW o, LossInv(o), WindowInv(o)', UNCHANGED <<program, sent, out>>,
         NEW q2, chan'[Inlet(o)] = q2, task'[o].pend = <<>>, task'[o].buf = <<>>,
         NEW D, IsFiniteSet(D),
         \A e : Has(chan[Inlet(o)], task[o].pend, task[o].buf, out, e)
                  => e \in D \/ Has(q2, <<>>, <<>>, out, e),
         \/ D = {} /\ panics' = panics
         \/ Cardinality(D) <= program[o].size /\ panics' = panics + 1
  PROVE  LossInv(o)'
<1> DEFINE none == <<>>
           ou == out
           k == Kind(o)
           size == program[o].size
<1>1. SentEvents' = SentEvents
  BY DEF SentEvents
<1>2. /\ task'[o].pend = none /\ task'[o].buf = none /\ out' = ou
      /\ \A e : Has(chan[Inlet(o)], task[o].pend, task[o].buf, out, e)
                  => e \in D \/ Has(q2, none, none, ou, e)
      /\ task'[o].at = "down" => none = <<>>
  OBVIOUS
<1>3. size \in Nat \ {0}
  BY CountIs
<1>4. Slid(k, size, none, none, ou)
  <2> HIDE DEF k, size, ou
  <2> QED
    BY <1>3, SlidNew
<1> HIDE DEF none, ou
<1> QED
  BY <1>1, <1>2, <1>4, LossBy

(* An event more is sent. *)
LEMMA LossEmit ==
  ASSUME NEW o, LossInv(o), WindowInv(o)', Emit
  PROVE  LossInv(o)'
<1> DEFINE q == chan[Inlet(o)]
           b == task[o].buf
           p == task[o].pend
           ou == out
           D == {}
           k == Kind(o)
           size == program[o].size
<1>1. /\ q \in Seq(Single) /\ Slid(k, size, p, b, ou)
      /\ LoneType(o) /\ k \in Windows
  BY CountIs
<1>2. /\ Channels(program) = {Inlet(o)} /\ chan \in [Channels(program) -> Seq(Single)]
  BY FlowIs DEF LossInv
<1>3. PICK c \in Channels(program), e \in Event :
           /\ e.n = Len(sent) + 1
           /\ chan' = [chan EXCEPT ![c] = Append(chan[c], <<e>>)]
           /\ sent' = Append(sent, [e |-> e, c |-> c])
           /\ UNCHANGED <<program, task, fly, now, panics, out, taken>>
  BY <1>1, LoneEmit
<1> DEFINE m == <<e>>
           q2 == Append(q, m)
           x == [e |-> e, c |-> c]
<1>4. c = Inlet(o) /\ chan'[Inlet(o)] = q2
  BY <1>2, <1>3
<1>5. m \in Single
  BY DEF Single
<1> HIDE DEF m, q, b, p, ou, D, k, size
<1>6. /\ Len(q2) = Len(q) + 1 /\ Len(q) \in Nat /\ q2[Len(q2)] = m
      /\ \A i \in 1..Len(q) : q2[i] = q[i]
  BY <1>1, <1>5
<1> HIDE DEF q2
<1>7. /\ \A i \in 1..Len(q) : i \in 1..Len(q2)
      /\ Len(q2) \in 1..Len(q2)
  BY <1>6
<1>8. ASSUME NEW d, Has(q, p, b, ou, d) PROVE Has(q2, p, b, ou, d)
  BY <1>6, <1>7, <1>8 DEF Has
<1>9. ASSUME NEW d \in SentEvents' PROVE d \in SentEvents \/ Has(q2, p, b, ou, d)
  <2>1. sent \in Seq([e : Event, c : Channels(program)])
    BY <1>1 DEF LoneType
  <2>2. x \in [e : Event, c : Channels(program)] /\ x.e = e /\ sent' = Append(sent, x)
    BY <1>3
  <2> HIDE DEF x
  <2>3. /\ DOMAIN sent' = 1..(Len(sent) + 1) /\ DOMAIN sent = 1..Len(sent) /\ Len(sent) \in Nat
        /\ sent'[Len(sent) + 1] = x /\ \A i \in 1..Len(sent) : sent'[i] = sent[i]
    BY <2>1, <2>2
  <2>4. PICK i \in DOMAIN sent' : d = sent'[i].e
    BY DEF SentEvents
  <2>5. CASE i \in 1..Len(sent)
    BY <2>3, <2>4, <2>5 DEF SentEvents
  <2>6. CASE i = Len(sent) + 1
    <3>1. d = e
      BY <2>2, <2>3, <2>4, <2>6
    <3>2. q2[Len(q2)] = <<d>>
      BY <1>6, <3>1 DEF m
    <3> QED
      BY <1>7, <3>2 DEF Has
  <2> QED
    BY <2>3, <2>4, <2>5, <2>6
<1>10. /\ UNCHANGED program /\ task'[o].pend = p /\ task'[o].buf = b /\ out' = ou
       /\ (task'[o].at = "down" => b = <<>>) /\ panics' = panics
       /\ \A d : Has(chan[Inlet(o)], task[o].pend, task[o].buf, out, d) => Has(q, p, b, ou, d)
  BY <1>3 DEF p, b, ou, q, LossInv
<1>11. IsFiniteSet(D) /\ D = {}
  BY FS_EmptySet DEF D
<1>12. \A d : Has(chan[Inlet(o)], task[o].pend, task[o].buf, out, d) => Has(q2, p, b, ou, d)
  BY <1>8, <1>10
<1> QED
  BY <1>1, <1>4, <1>9, <1>10, <1>11, <1>12, LossBy DEF k, size

(* A message is received. *)
LEMMA LossReceives ==
  ASSUME NEW o, LossInv(o), WindowInv(o)', Receive(o, "input"), Ports(Kind(o)) = {"input"}
  PROVE  LossInv(o)'
<1> DEFINE c == Inlet(o)
           q == chan[c]
           b == task[o].buf
           p == task[o].pend
           k == Kind(o)
           size == program[o].size
           m == Head(q)
           w == Process(o, b, "input", m)
           send == w.send
           rest == w.buf
           q2 == Tail(q)
           ou == out
           D == {}
           x == Untimed("input", m)
           all == Append(b, x)
           none == <<>>
           at == After(o, send)
<1>1. /\ q \in Seq(Single) /\ b \in Seq(Stored) /\ size \in Nat \ {0} /\ k \in Counts
      /\ Room(k, size, b) /\ Slid(k, size, p, b, ou) /\ (task[o].at # "send" => p = none)
      /\ LoneType(o)
  BY CountIs
<1>2. /\ q # <<>> /\ chan' = [chan EXCEPT ![c] = q2] /\ task[o].at = "wait"
      /\ UNCHANGED <<program, fly, now, panics, sent, out>> /\ c \in Channels(program)
      /\ task'[o] = [at |-> at, pend |-> send, buf |-> rest, mark |-> task[o].mark,
                     due |-> task[o].due, until |-> task[o].until, backoff |-> task[o].backoff]
  BY <1>1, LoneReceive DEF Inlet
<1>3. chan'[c] = q2
  BY <1>1, <1>2 DEF LoneType
<1>4. task'[o].buf = rest /\ task'[o].pend = send /\ task'[o].at # "down"
  <2>1. at # "down"
    BY DEF After, Top
  <2> HIDE DEF at, send, rest
  <2> QED
    BY <1>2, <2>1
<1>5. p = none
  BY <1>1, <1>2
<1>6. m \in Single
  <2> HIDE DEF q
  <2> QED
    BY <1>1, <1>2
<1>7. x \in Stored /\ x.msg = m
  BY <1>6 DEF Untimed, Stored
<1>8. IF Len(all) < size THEN send = <<>> /\ rest = all
      ELSE /\ send = <<Events(all)>>
           /\ rest = IF k = "tumbling" THEN <<>> ELSE IF Len(all) > size THEN Tail(all) ELSE all
  BY <1>1, CountIt DEF Counts
<1>9. k \in {"tumbling", "sliding"} /\ all = Append(b, x) /\ q # <<>> /\ x.msg = Head(q)
      /\ Slid(k, size, none, b, ou)
  BY <1>1, <1>2, <1>5, <1>7 DEF Counts
<1>10. /\ UNCHANGED program /\ task'[o].pend = send /\ task'[o].buf = rest /\ out' = ou
       /\ chan'[Inlet(o)] = q2 /\ SentEvents' = SentEvents /\ panics' = panics
       /\ (task'[o].at = "down" => rest = <<>>)
       /\ \A d : Has(chan[Inlet(o)], task[o].pend, task[o].buf, out, d) => Has(q, p, b, ou, d)
  BY <1>2, <1>3, <1>4 DEF SentEvents
<1>11. IsFiniteSet(D) /\ D = {}
  BY FS_EmptySet
<1>12. q2 = Tail(q)
  OBVIOUS
<1> HIDE DEF c, q, b, p, k, size, m, w, send, rest, q2, ou, D, x, all, at
<1>13. ASSUME NEW d, Has(q, p, b, ou, d) PROVE Has(q2, send, rest, ou, d)
  <2>1. Has(q, <<>>, b, ou, d)
    BY <1>5, <1>13
  <2>2. \/ send = <<>> /\ rest = all
        \/ send = <<Events(all)>>
    BY <1>8
  <2>3. Has(Tail(q), send, rest, ou, d)
    BY <1>1, <1>7, <1>9, <2>1, <2>2, KeepCount
  <2> QED
    BY <1>12, <2>3
<1>14. Slid(k, size, send, rest, ou)
  BY <1>1, <1>7, <1>8, <1>9, SlidCount
<1>15. \A d : Has(chan[Inlet(o)], task[o].pend, task[o].buf, out, d) => Has(q2, send, rest, ou, d)
  BY <1>10, <1>13
<1> HIDE DEF none
<1> QED
  BY <1>10, <1>11, <1>14, <1>15, LossBy DEF k, size

(* A window is sent. *)
LEMMA LossSends ==
  ASSUME NEW o, LossInv(o), WindowInv(o)', Send(o)
  PROVE  LossInv(o)'
<1> DEFINE q == chan[Inlet(o)]
           b == task[o].buf
           p == task[o].pend
           k == Kind(o)
           size == program[o].size
           x == [from |-> o, msg |-> Head(p)]
           p2 == Tail(p)
           o2 == Append(out, x)
           L == [from : {o}, msg : Seq(Event)]
           D == {}
           at == After(o, p2)
<1>1. /\ Slid(k, size, p, b, out) /\ LoneType(o)
      /\ (p # <<>> => p = <<p[1]>> /\ p[1] \in Seq(Event))
  BY CountIs
<1>2. /\ task[o].at = "send" /\ UNCHANGED <<program, chan, fly, now, panics, sent, taken>>
      /\ out' = o2
      /\ task'[o] = [at |-> at, pend |-> p2, buf |-> b, mark |-> task[o].mark,
                     due |-> task[o].due, until |-> task[o].until, backoff |-> task[o].backoff]
  BY <1>1, LoneSend
<1>3. p # <<>> /\ out \in Seq(L)
  BY <1>1, <1>2 DEF LoneType, Busy
<1>4. p = <<p[1]>> /\ p[1] \in Seq(Event)
  BY <1>1, <1>3
<1>5. Head(p) = p[1]
  BY <1>4, OneIs
<1>6. x \in L /\ x.msg = Head(p)
  BY <1>4, <1>5
<1>7. task'[o].at # "down"
  <2>1. at # "down"
    BY DEF After, Top
  <2> HIDE DEF at, p2, b
  <2> QED
    BY <1>2, <2>1
<1>8. /\ UNCHANGED program /\ task'[o].pend = p2 /\ task'[o].buf = b /\ out' = o2
      /\ chan'[Inlet(o)] = q /\ SentEvents' = SentEvents /\ panics' = panics
      /\ (task'[o].at = "down" => b = <<>>)
      /\ \A d : Has(chan[Inlet(o)], task[o].pend, task[o].buf, out, d) => Has(q, p, b, out, d)
  BY <1>2, <1>7 DEF SentEvents
<1>9. IsFiniteSet(D) /\ D = {}
  BY FS_EmptySet
<1> HIDE DEF q, b, p, k, size, x, L, D, at
<1>10. \A d : Has(q, p, b, out, d) => Has(q, p2, b, o2, d)
  BY <1>3, <1>4, <1>6, KeepSend
<1>11. Slid(k, size, p2, b, o2)
  BY <1>1, <1>3, <1>4, <1>6, SlidSend
<1> HIDE DEF p2, o2
<1>12. \A d : Has(chan[Inlet(o)], task[o].pend, task[o].buf, out, d) => Has(q, p2, b, o2, d)
  BY <1>8, <1>10
<1> QED
  BY <1>8, <1>9, <1>11, <1>12, LossBy DEF k, size

(* So every step of it keeps within the bound. *)
LEMMA LossKept ==
  ASSUME NEW o, LossInv(o), [Next]_vars
  PROVE  LossInv(o)'
<1> DEFINE q == chan[Inlet(o)]
           b == task[o].buf
           p == task[o].pend
           ou == out
           k == Kind(o)
           size == program[o].size
<1>1. WindowInv(o) /\ WindowInv(o)'
  BY WindowKept DEF LossInv
<1>2. /\ q \in Seq(Single) /\ b \in Seq(Stored) /\ size \in Nat \ {0} /\ k \in Counts
      /\ Room(k, size, b) /\ Slid(k, size, p, b, ou)
      /\ (p # <<>> => /\ p = <<p[1]>> /\ p[1] \in Seq(Event) /\ Sized(k, size, p[1])
                      /\ k = "tumbling" => Len(b) = 0)
      /\ (task[o].at # "send" => p = <<>>) /\ LoneType(o) /\ (task[o].at = "down" => b = <<>>)
  BY CountIs DEF LossInv
<1>3. Ports(k) = {"input"} /\ Inlet(o) \in Channels(program)
      /\ chan \in [Channels(program) -> Seq(Single)]
  BY <1>1, FlowIs
<1>4. CASE Emit
  BY <1>1, <1>4, LossEmit
<1>5. CASE Second
  BY <1>1, <1>2, <1>5, LossStays DEF Second
<1>6. CASE Begin(o)
  <2> DEFINE w == IF Kind(o) = "join" THEN Recent(task[o].buf, now, program[o].size)
                  ELSE task[o].buf
  <2>1. w = task[o].buf
    BY <1>2 DEF Counts
  <2>2. /\ UNCHANGED <<program, chan, fly, now, panics, sent, out, taken>>
        /\ task'[o] = [at |-> "wait", pend |-> task[o].pend, buf |-> w,
                       mark |-> now, due |-> task[o].due, until |-> task[o].until,
                       backoff |-> task[o].backoff]
    BY <1>2, <1>6, LoneBegin
  <2> HIDE DEF w
  <2>3. task'[o].pend = task[o].pend /\ task'[o].buf = task[o].buf /\ task'[o].at # "down"
    BY <2>1, <2>2
  <2> QED
    BY <1>1, <2>2, <2>3, LossStays
<1>7. CASE Send(o)
  BY <1>1, <1>7, LossSends
<1>8. CASE Tick(o)
  BY <1>2, <1>8 DEF Tick, TimeWindow, Counts
<1>9. CASE Restart(o)
  <2>1. /\ task[o].at = "down" /\ UNCHANGED <<program, chan, fly, now, panics, sent, out, taken>>
        /\ task'[o].pend = <<>> /\ task'[o].buf = <<>>
    BY <1>2, <1>9, LoneRestart
  <2>2. task[o].pend = <<>> /\ task[o].buf = <<>>
    BY <1>2, <2>1
  <2> QED
    BY <1>1, <2>1, <2>2, LossStays
<1>10. CASE SendPanics(o)
  <2>1. /\ task[o].at = "send" /\ Down(o) /\ panics' = panics + 1
        /\ UNCHANGED <<program, chan, fly, now, sent, out>>
    BY <1>2, <1>10, LoneSendPanics
  <2>2. task'[o].pend = <<>> /\ task'[o].buf = <<>>
    BY <1>2, <2>1, LoneDown
  <2>3. p # <<>>
    BY <1>2, <2>1 DEF LoneType, Busy
  <2>4. chan'[Inlet(o)] = q
    BY <2>1
  <2>5. \A e : Has(chan[Inlet(o)], task[o].pend, task[o].buf, out, e) => Has(q, p, b, ou, e)
    OBVIOUS
  <2>6. \A e : Has(q, <<>>, <<>>, ou, e) => Has(q, <<>>, <<>>, out, e)
    OBVIOUS
  <2> HIDE DEF q, b, p, ou, k, size
  <2>7. PICK D : /\ IsFiniteSet(D) /\ Cardinality(D) <= size
                 /\ \A e : Has(q, p, b, ou, e) => e \in D \/ Has(q, <<>>, <<>>, ou, e)
    BY <1>2, <2>3, LossSend DEF Counts
  <2>8. \A e : Has(chan[Inlet(o)], task[o].pend, task[o].buf, out, e)
                 => e \in D \/ Has(q, <<>>, <<>>, out, e)
    BY <2>5, <2>6, <2>7
  <2> QED
    BY <1>1, <2>1, <2>2, <2>4, <2>7, <2>8, LossDown DEF size
<1>11. ASSUME NEW port \in Ports(Kind(o)), Receive(o, port) PROVE LossInv(o)'
  <2>1. port = "input"
    BY <1>3
  <2>2. Receive(o, "input")
    BY <1>11, <2>1
  <2> QED
    BY <1>1, <1>3, <2>2, LossReceives
<1>12. ASSUME NEW port \in Ports(Kind(o)), ReceivePanics(o, port) PROVE LossInv(o)'
  <2> DEFINE q2 == Tail(q)
  <2>1. <<o, port>> = Inlet(o)
    BY <1>3 DEF Inlet
  <2>2. /\ task[o].at = "wait" /\ chan[Inlet(o)] # <<>> /\ Down(o) /\ panics' = panics + 1
        /\ chan' = [chan EXCEPT ![Inlet(o)] = Tail(chan[Inlet(o)])]
        /\ UNCHANGED <<program, fly, now, sent, out>>
    BY <1>2, <1>12, <2>1, LonePanics
  <2>3. task'[o].pend = <<>> /\ task'[o].buf = <<>>
    BY <1>2, <2>2, LoneDown
  <2>4. chan'[Inlet(o)] = q2 /\ q # <<>>
    BY <1>3, <2>2
  <2>5. p = <<>>
    BY <1>2, <2>2
  <2>6. \A e : Has(chan[Inlet(o)], task[o].pend, task[o].buf, out, e) => Has(q, p, b, ou, e)
    OBVIOUS
  <2>7. \A e : Has(Tail(q), <<>>, <<>>, ou, e) => Has(q2, <<>>, <<>>, out, e)
    OBVIOUS
  <2> HIDE DEF q, b, p, ou, k, size, q2
  <2>8. Slid(k, size, <<>>, b, ou)
    BY <1>2, <2>5
  <2>9. PICK D : /\ IsFiniteSet(D) /\ Cardinality(D) <= size
                 /\ \A e : Has(q, <<>>, b, ou, e) => e \in D \/ Has(Tail(q), <<>>, <<>>, ou, e)
    BY <1>2, <2>4, <2>8, LossReceive DEF Counts
  <2>10. \A e : Has(chan[Inlet(o)], task[o].pend, task[o].buf, out, e)
                  => e \in D \/ Has(q2, <<>>, <<>>, out, e)
    BY <2>5, <2>6, <2>7, <2>9
  <2> QED
    BY <1>1, <2>2, <2>3, <2>4, <2>9, <2>10, LossDown DEF size
<1>13. CASE UNCHANGED vars
  BY <1>1, <1>2, <1>13, LossStays DEF vars
<1> HIDE DEF q, b, p, ou, k, size
<1> QED
  BY <1>2, <1>4, <1>5, <1>6, <1>7, <1>8, <1>9, <1>10, <1>11, <1>12, <1>13, LoneNext

(* It has lost nothing when the program starts. *)
LEMMA LossInit ==
  ASSUME NEW o, Lone(o), Kind(o) \in Counts, Init
  PROVE  LossInv(o)
<1> DEFINE k == Kind(o)
           size == program[o].size
           lost == Lost
<1>1. k \in Windows /\ k \in Solo
  BY DEF Counts, Windows, Solo
<1>2. /\ WindowInv(o) /\ sent = <<>> /\ out = <<>>
      /\ task[o].buf = <<>> /\ task[o].pend = <<>>
  BY <1>1, WindowInit, LoneInit
<1>3. Slid(k, size, <<>>, <<>>, out) /\ size \in Nat /\ panics = 0
  <2>1. size \in Nat \ {0} /\ panics = 0
    BY DEF Lone, Init, Counts
  <2> HIDE DEF k, size
  <2> QED
    BY <2>1, SlidNew
<1>4. lost = {}
  <2>1. SentEvents = {}
    BY <1>2 DEF SentEvents
  <2> QED
    BY <2>1 DEF Lost
<1>5. Slid(k, size, task[o].pend, task[o].buf, out)
  <2> DEFINE p == task[o].pend
             b == task[o].buf
             none == <<>>
  <2>1. p = none /\ b = none /\ Slid(k, size, none, none, out)
    BY <1>2, <1>3
  <2> HIDE DEF p, b, none, k, size
  <2>2. Slid(k, size, p, b, out)
    BY <2>1
  <2> QED
    BY <2>2 DEF p, b
<1>6. 0 <= panics * size
  <2> HIDE DEF size
  <2> QED
    BY <1>3
<1> HIDE DEF lost, size, k
<1>7. IsFiniteSet(lost) /\ Cardinality(lost) = 0
  BY <1>4, FS_EmptySet
<1>8. IsFiniteSet(lost) /\ Cardinality(lost) <= panics * size
  BY <1>6, <1>7
<1> QED
  BY <1>2, <1>5, <1>8 DEF LossInv, lost, size, k

(* What it says. *)
LEMMA LossSays ==
  ASSUME NEW o, LossInv(o)
  PROVE  LossBounded
<1> DEFINE size == program[o].size
           S == {1} \cup {size}
<1>1. /\ Ops = {o} /\ size \in Nat \ {0} /\ Kind(o) \in {"tumbling", "sliding"}
      /\ Cardinality(Lost) <= panics * size
  <2>1. LoneType(o) /\ Kind(o) \in Counts
    BY CountIs
  <2> QED
    BY <2>1 DEF LoneType, Lone, Counts, LossInv
<1>2. MostHeld = Max(S)
  <2>1. {x \in Ops : Kind(x) \in {"tumbling", "sliding"}} = {o}
    BY <1>1
  <2>2. {program[x].size : x \in {y \in Ops : Kind(y) \in {"tumbling", "sliding"}}} = {size}
    BY <2>1
  <2> QED
    BY <2>2 DEF MostHeld
<1> HIDE DEF size
<1>3. Max(S) = size
  <2>1. size \in S /\ \A y \in S : size >= y
    BY <1>1
  <2>2. Max(S) \in S /\ \A y \in S : Max(S) >= y
    BY <2>1 DEF Max
  <2>3. Max(S) \in Nat /\ size \in Nat
    BY <1>1, <2>2
  <2>4. Max(S) >= size /\ size >= Max(S)
    BY <2>1, <2>2
  <2> QED
    BY <2>3, <2>4
<1>4. Cardinality(Lost) <= panics * MostHeld
  BY <1>1, <1>2, <1>3
<1> QED
  BY <1>4 DEF LossBounded

(* A window that counts and runs alone. *)
LoneCounting == \E o : Lone(o) /\ Kind(o) \in Counts

(* A panic loses no more than one event, or than the window it was in, and   *)
(* nothing else is ever lost but what a filter drops: in every program of    *)
(* filters, maps and unions, and in that of one window that counts, of any   *)
(* size but 0. (Of other programs the property claims nothing, except of     *)
(* those that have such a window among other operators.)                     *)
THEOREM LossIsBounded == Spec /\ (Counting => LoneCounting) => []LossBounded
<1> DEFINE I == \E o : LossInv(o)
           N == ~Passing /\ ~Counting
<1>1. Init /\ Passing => PassingLoss
  BY PassingLossInit
<1>2. PassingLoss /\ [Next]_vars => PassingLoss'
  BY PassingLossKept
<1>3. PassingLoss => LossBounded
  BY PassingLossSays
<1>4. Init /\ LoneCounting => I
  <2> SUFFICES ASSUME Init, NEW o, Lone(o), Kind(o) \in Counts PROVE LossInv(o)
    BY DEF LoneCounting
  <2> QED
    BY LossInit
<1>5. I /\ [Next]_vars => I'
  BY LossKept
<1>6. I => LossBounded
  BY LossSays
<1>7. N /\ [Next]_vars => N'
  <2> SUFFICES ASSUME [Next]_vars PROVE Passing' = Passing /\ Counting' = Counting
    OBVIOUS
  <2>1. program' = program
    BY ProgramStays
  <2> QED
    BY <2>1 DEF Passing, Counting, Kinds, Kind, Ops
<1>8. N => LossBounded
  BY DEF LossBounded
<1>9. (Counting => LoneCounting) => Passing \/ LoneCounting \/ N
  OBVIOUS
<1> HIDE DEF I, N
<1> QED
  BY <1>1, <1>2, <1>3, <1>4, <1>5, <1>6, <1>7, <1>8, <1>9, PTL DEF Spec

-----------------------------------------------------------------------------
(* A pattern alone: a match is one in a longer list, whatever is received    *)
(* after it.                                                                 *)
LEMMA MatchGrows ==
  ASSUME NEW se, NEW s2, NEW r \in Nat, NEW r2 \in Nat, r <= r2,
         \A i \in 1..r : s2[i] = se[i], NEW m, IsMatch(se, m, r)
  PROVE  IsMatch(s2, m, r2)
<1>1. \A n \in 1..r2 : m[1].n < n /\ n < m[2].n => n \in 1..r
  BY DEF IsMatch
<1> QED
  BY <1>1 DEF IsMatch

(* What was sent stays sent. *)
LEMMA HoldsGrows ==
  ASSUME NEW se, NEW s2, NEW r \in Nat, \A i \in 1..r : s2[i] = se[i],
         NEW b, HoldsA(se, b, r)
  PROVE  HoldsA(s2, b, r)
BY DEF HoldsA

(* An event is sent. *)
LEMMA MatchEmit ==
  ASSUME NEW size, NEW se, NEW q, NEW b, NEW t, NEW p, NEW ou, NEW k, NEW r,
         Matching(size, se, q, b, t, p, ou, k, r), NEW s2, NEW e \in Event, Grown(se, s2, e)
  PROVE  Matching(size, s2, Append(q, <<e>>), b, t, p, ou, k, r)
<1>1. /\ Numbered(se) /\ Waits(se, q, r) /\ Buffered(se, k, r) /\ Sorted(k, t)
      /\ HoldsA(se, b, r) /\ MatchesOut(se, ou, r) /\ MatchNext(se, b, p, ou, r)
  BY DEF Matching
<1>2. r \in Nat /\ r <= Len(se) /\ \A i \in 1..r : s2[i] = se[i]
  <2>1. r \in Nat /\ r + Len(q) = Len(se) /\ q \in Seq(Single)
    BY <1>1 DEF Waits
  <2>2. Len(q) \in Nat
    BY <2>1
  <2>3. Len(se) \in Nat
    BY <1>1 DEF Numbered
  <2> QED
    BY <2>1, <2>2, <2>3 DEF Grown
<1>3. Waits(s2, Append(q, <<e>>), r)
  <2> DEFINE one == <<e>>
             z == Append(q, one)
  <2>1. one \in Single
    BY DEF Single
  <2>2. q \in Seq(Single) /\ r + Len(q) = Len(se) /\ Len(q) \in Nat
        /\ \A i \in 1..Len(q) : q[i] = <<se[r + i].e>>
    BY <1>1 DEF Waits
  <2>3. /\ z \in Seq(Single) /\ Len(z) = Len(q) + 1 /\ z[Len(z)] = one
        /\ \A i \in 1..Len(q) : z[i] = q[i]
    <3> HIDE DEF one
    <3> QED
      BY <2>1, <2>2
  <2>4. r + Len(z) = Len(s2)
    BY <1>2, <2>2, <2>3 DEF Grown
  <2> HIDE DEF z
  <2>5. ASSUME NEW i \in 1..Len(z) PROVE z[i] = <<s2[r + i].e>>
    <3>1. CASE i \in 1..Len(q)
      <4>1. r + i \in 1..Len(se)
        BY <1>2, <2>2, <3>1
      <4> QED
        BY <2>2, <2>3, <3>1, <4>1 DEF Grown
    <3>2. CASE i = Len(z)
      <4>1. r + i = Len(se) + 1
        BY <1>2, <2>2, <2>3, <3>2
      <4>2. s2[r + i].e = e
        BY <4>1 DEF Grown
      <4> QED
        BY <2>3, <3>2, <4>2
    <3> QED
      BY <2>2, <2>3, <3>1, <3>2
  <2> QED
    BY <1>2, <2>3, <2>4, <2>5 DEF Waits, z
<1>4. Buffered(s2, k, r)
  <2>1. \A i \in 1..Len(k) : (r - Len(k)) + i \in 1..r
    BY <1>1, <1>2 DEF Buffered
  <2> QED
    BY <1>1, <1>2, <2>1 DEF Buffered
<1>5. HoldsA(s2, b, r)
  BY <1>1, <1>2, HoldsGrows
<1>6. MatchesOut(s2, ou, r) /\ MatchNext(s2, b, p, ou, r)
  <2>1. \A m : IsMatch(se, m, r) => IsMatch(s2, m, r)
    BY <1>2, MatchGrows
  <2> QED
    BY <1>1, <2>1 DEF MatchesOut, MatchNext
<1> QED
  BY <1>1, <1>3, <1>4, <1>5, <1>6 DEF Matching, Grown

(* Time passes. *)
LEMMA MatchClock ==
  ASSUME NEW size, NEW se, NEW q, NEW b, NEW t \in Nat, NEW p, NEW ou, NEW k, NEW r,
         Matching(size, se, q, b, t, p, ou, k, r), NEW t2 \in Nat, t <= t2
  PROVE  Matching(size, se, q, b, t2, p, ou, k, r)
<1>1. k \in Seq(Stored) /\ Sorted(k, t)
  BY DEF Matching, Buffered
<1>2. \A i \in 1..Len(k) : k[i].t \in Nat
  BY <1>1, StoredIs
<1>3. Sorted(k, t2)
  BY <1>1, <1>2 DEF Sorted
<1> QED
  BY <1>3 DEF Matching

(* Nothing is left of a task that panicked, and maybe of what it received. *)
LEMMA MatchDown ==
  ASSUME NEW size, NEW se, NEW q, NEW b, NEW t, NEW p, NEW ou, NEW k, NEW r,
         Matching(size, se, q, b, t, p, ou, k, r)
  PROVE  /\ Matching(size, se, q, <<>>, t, <<>>, ou, <<>>, r)
         /\ q # <<>> => Matching(size, se, Tail(q), <<>>, t, <<>>, ou, <<>>, r + 1)
<1> DEFINE none == <<>>
<1>1. Numbered(se) /\ Waits(se, q, r) /\ MatchesOut(se, ou, r) /\ r \in Nat
  BY DEF Matching, Waits
<1>2. none \in Seq(Stored) /\ Len(none) = 0 /\ 1..Len(none) = {} /\ 1..(Len(none) - 1) = {}
  OBVIOUS
<1> HIDE DEF none
<1>3. ASSUME NEW r2 \in Nat
      PROVE  Buffered(se, none, r2) /\ Sorted(none, t) /\ HoldsA(se, none, r2)
             /\ MatchNext(se, none, none, ou, r2) /\ PairsInTime(size, none, ou, none)
             /\ AllMatched(size, none, ou, none) /\ LastA(none, none)
  <2>1. Buffered(se, none, r2) /\ Sorted(none, t)
    BY <1>2 DEF Buffered, Sorted
  <2>2. HoldsA(se, none, r2) /\ MatchNext(se, none, none, ou, r2)
    BY DEF HoldsA, MatchNext, none
  <2>3. PairsInTime(size, none, ou, none) /\ AllMatched(size, none, ou, none)
    BY <1>2 DEF PairsInTime, AllMatched
  <2>4. LastA(none, none)
    BY <1>2 DEF LastA, none
  <2> QED
    BY <2>1, <2>2, <2>3, <2>4
<1>4. Matching(size, se, q, none, t, none, ou, none, r)
  BY <1>1, <1>3 DEF Matching
<1>5. ASSUME q # <<>> PROVE Matching(size, se, Tail(q), none, t, none, ou, none, r + 1)
  <2>1. Waits(se, Tail(q), r + 1) /\ r + 1 \in Nat
    BY <1>1, <1>5, WaitsTail
  <2>2. \A m : IsMatch(se, m, r) => IsMatch(se, m, r + 1)
    <3>1. r <= r + 1 /\ r + 1 \in Nat
      BY <1>1
    <3> QED
      BY <1>1, <3>1, MatchGrows
  <2>3. MatchesOut(se, ou, r + 1)
    BY <1>1, <2>2 DEF MatchesOut
  <2> QED
    BY <1>1, <1>3, <2>1, <2>3 DEF Matching
<1> QED
  BY <1>4, <1>5 DEF none

(* A match is sent. *)
LEMMA MatchSend ==
  ASSUME NEW size, NEW se, NEW q, NEW b, NEW t, NEW p, NEW L, NEW ou \in Seq(L), NEW k, NEW r,
         Matching(size, se, q, b, t, p, ou, k, r), p # <<>>, NEW x \in L, x.msg = Head(p)
  PROVE  Matching(size, se, q, b, t, Tail(p), Append(ou, x), k, r)
<1> DEFINE m == p[1]
           o2 == Append(ou, x)
           none == <<>>
<1>1. /\ p = <<p[1]>> /\ IsMatch(se, m, r) /\ After2(ou, m[1].n) /\ b = none
      /\ MatchesOut(se, ou, r) /\ PairsInTime(size, p, ou, k) /\ AllMatched(size, p, ou, k)
      /\ LastA(b, k)
  BY DEF Matching, MatchNext
<1>2. Head(p) = m /\ Tail(p) = none /\ Len(p) = 1
  BY <1>1, OneIs
<1>3. /\ DOMAIN o2 = 1..Len(o2) /\ Len(o2) = Len(ou) + 1 /\ o2[Len(o2)] = x /\ Len(ou) \in Nat
      /\ DOMAIN ou = 1..Len(ou) /\ \A i \in DOMAIN ou : o2[i] = ou[i]
  OBVIOUS
<1> HIDE DEF o2, m
<1>4. Len(o2) \in DOMAIN o2 /\ (\A i \in DOMAIN ou : i \in DOMAIN o2)
      /\ \A i \in DOMAIN o2 : i = Len(o2) \/ i \in DOMAIN ou
  BY <1>3
<1>5. x.msg = m
  BY <1>2
<1>6. MatchesOut(se, o2, r)
  <2>1. \A i \in DOMAIN o2 : IsMatch(se, o2[i].msg, r)
    BY <1>1, <1>3, <1>4, <1>5 DEF MatchesOut
  <2>2. ASSUME NEW i \in DOMAIN o2, NEW j \in DOMAIN o2, i < j
        PROVE  o2[i].msg[2].n < o2[j].msg[1].n
    <3>1. i \in DOMAIN ou
      BY <1>3, <2>2
    <3>2. CASE j = Len(o2)
      BY <1>1, <1>3, <1>5, <3>1, <3>2 DEF After2
    <3>3. CASE j \in DOMAIN ou
      BY <1>1, <1>3, <2>2, <3>1, <3>3 DEF MatchesOut
    <3> QED
      BY <1>4, <3>2, <3>3
  <2> QED
    BY <2>1, <2>2 DEF MatchesOut
<1>7. \A w : Sent(o2, none, w) <=> Sent(ou, p, w)
  <2>1. 1..Len(none) = {} /\ 1..Len(p) = {1}
    BY <1>2
  <2> HIDE DEF none
  <2>2. \A w : Sent(o2, none, w) <=> \E i \in DOMAIN o2 : o2[i].msg = w
    BY <2>1 DEF Sent
  <2>3. \A w : Sent(ou, p, w) <=> (\E i \in DOMAIN ou : ou[i].msg = w) \/ m = w
    BY <2>1 DEF Sent, m
  <2> QED
    BY <1>3, <1>4, <1>5, <2>2, <2>3
<1>8. PairsInTime(size, none, o2, k)
  BY <1>1, <1>7 DEF PairsInTime
<1>9. AllMatched(size, none, o2, k)
  BY <1>1, <1>7 DEF AllMatched
<1>10. MatchNext(se, b, none, o2, r)
  BY <1>1 DEF MatchNext
<1> HIDE DEF none
<1>11. Matching(size, se, q, b, t, none, o2, k, r)
  BY <1>6, <1>8, <1>9, <1>10 DEF Matching
<1> QED
  BY <1>2, <1>11 DEF o2, none

(* What was received is numbered. *)
LEMMA TakenNumbers ==
  ASSUME NEW se, NEW k, NEW r \in Nat, Numbered(se), Buffered(se, k, r), r <= Len(se)
  PROVE  /\ Len(k) \in Nat /\ Len(k) <= r /\ k \in Seq(Stored)
         /\ \A i \in 1..Len(k) :
              /\ k[i] \in Stored /\ k[i].t \in Nat /\ k[i].msg \in Single
              /\ k[i].msg = <<se[(r - Len(k)) + i].e>> /\ k[i].msg = <<k[i].msg[1]>>
              /\ k[i].msg[1].n = (r - Len(k)) + i /\ k[i].msg[1].n \in 1..r
              /\ k[i].msg[1] = se[k[i].msg[1].n].e
              /\ k[i].msg[1] \in Event
<1>1. k \in Seq(Stored) /\ Len(k) <= r /\ Len(k) \in Nat /\ Len(se) \in Nat
  BY DEF Buffered, Numbered
<1> SUFFICES ASSUME NEW i \in 1..Len(k)
             PROVE  /\ k[i] \in Stored /\ k[i].t \in Nat /\ k[i].msg \in Single
                    /\ k[i].msg = <<se[(r - Len(k)) + i].e>> /\ k[i].msg = <<k[i].msg[1]>>
                    /\ k[i].msg[1].n = (r - Len(k)) + i /\ k[i].msg[1].n \in 1..r
                    /\ k[i].msg[1] = se[k[i].msg[1].n].e
                    /\ k[i].msg[1] \in Event
  BY <1>1
<1> DEFINE n == (r - Len(k)) + i
<1>2. k[i] \in Stored /\ k[i].msg \in Single /\ k[i].t \in Nat
  BY <1>1, StoredIs
<1>3. k[i].msg = <<se[n].e>>
  BY DEF Buffered
<1>4. n \in 1..r /\ n \in DOMAIN se
  BY <1>1 DEF Numbered
<1> HIDE DEF n
<1>5. se[n].e.n = n /\ se[n].e \in Event
  BY <1>4 DEF Numbered
<1>6. k[i].msg[1] = se[n].e
  BY <1>3
<1> QED
  BY <1>2, <1>3, <1>4, <1>5, <1>6 DEF n

(* Two events make a message, which tells the events. *)
LEMMA PairIs ==
  ASSUME NEW x \in Single, NEW y \in Single
  PROVE  /\ x \o y = <<x[1], y[1]>> /\ x \o y \in Seq(Event) /\ Len(x \o y) = 2
         /\ (x \o y)[1] = x[1] /\ (x \o y)[2] = y[1]
<1> DEFINE z == x \o y
<1>1. x \in Seq(Event) /\ y \in Seq(Event) /\ Len(x) = 1 /\ Len(y) = 1
      /\ x[1] \in Event /\ y[1] \in Event
  BY SingleIs
<1>2. z \in Seq(Event) /\ Len(z) = 2 /\ z[1] = x[1] /\ z[2] = y[1]
  <2> HIDE DEF Event
  <2>1. x \in Seq(Event) /\ y \in Seq(Event)
    BY <1>1
  <2>2. z \in Seq(Event)
    BY <2>1
  <2>3. Len(z) = Len(x) + Len(y)
    BY <2>1
  <2>4. \A i \in 1..Len(x) : z[i] = x[i]
    BY <2>1
  <2>5. \A i \in 1..Len(y) : z[Len(x) + i] = y[i]
    BY <2>1
  <2> HIDE DEF z
  <2>6. z[1] = x[1] /\ z[1 + 1] = y[1]
    BY <1>1, <2>4, <2>5
  <2> QED
    BY <1>1, <2>2, <2>3, <2>6
<1> HIDE DEF z, Event
<1>3. z = <<z[1], z[2]>>
  BY <1>2
<1> QED
  BY <1>2, <1>3 DEF z

(* What is recent of a buffer of one. *)
LEMMA RecentOne ==
  ASSUME NEW b, b # <<>> => b = <<b[1]>> /\ b[1] \in Stored, NEW t, NEW size
  PROVE  Recent(b, t, size) = IF b # <<>> /\ Age(t, b[1]) <= size THEN b ELSE <<>>
<1> DEFINE S == {x \in ToSet(b) : Age(t, x) <= size}
           none == <<>>
           rest == Those(b, S)
<1>1. b \in Seq(Stored)
  <2>1. \A x \in Stored : <<x>> \in Seq(Stored)
    OBVIOUS
  <2>2. none \in Seq(Stored)
    OBVIOUS
  <2> QED
    BY <2>1, <2>2
<1>2. Recent(b, t, size) = rest
  BY DEF Recent
<1> HIDE DEF S
<1>3. ASSUME NEW k \in 0..Len(b), \A i \in 1..k : b[i] \notin S,
             \A i \in (k + 1)..Len(b) : b[i] \in S
      PROVE  /\ rest \in Seq(Stored) /\ Len(rest) = Len(b) - k
             /\ \A i \in 1..(Len(b) - k) : rest[i] = b[k + i]
  BY <1>1, <1>3, ThoseLastOnes
<1> HIDE DEF rest
<1>4. Len(b) \in Nat
  BY <1>1
<1>5. CASE b = none
  <2>1. Len(b) = 0
    BY <1>5
  <2> HIDE DEF none
  <2>2. 0 \in 0..Len(b) /\ (\A i \in 1..0 : b[i] \notin S) /\ \A i \in (0 + 1)..Len(b) : b[i] \in S
    BY <2>1
  <2>3. rest \in Seq(Stored) /\ Len(rest) = Len(b) - 0
    BY <1>3, <2>2
  <2>4. rest = <<>>
    BY <2>1, <2>3
  <2> QED
    BY <1>2, <1>5, <2>4 DEF none
<1>6. CASE b # none
  <2> DEFINE x == b[1]
  <2>1. b = <<x>> /\ x \in Stored
    BY <1>6
  <2>2. Len(b) = 1 /\ ToSet(b) = {x}
    BY <2>1, SetOfOne
  <2>3. x \in S <=> Age(t, x) <= size
    BY <2>2 DEF S
  <2>4. b[1] = x
    OBVIOUS
  <2> HIDE DEF x, none
  <2>5. CASE x \in S
    <3>1. 0 \in 0..Len(b) /\ (\A i \in 1..0 : b[i] \notin S)
          /\ \A i \in (0 + 1)..Len(b) : b[i] \in S
      BY <2>2, <2>4, <2>5
    <3>2. rest \in Seq(Stored) /\ Len(rest) = Len(b) - 0
          /\ \A i \in 1..(Len(b) - 0) : rest[i] = b[0 + i]
      BY <1>3, <3>1
    <3>3. Len(rest) = 1 /\ rest[1] = x
      BY <2>2, <2>4, <3>2
    <3>4. rest = <<x>>
      BY <3>2, <3>3
    <3> QED
      BY <1>2, <1>6, <2>1, <2>3, <2>4, <2>5, <3>4 DEF none
  <2>6. CASE x \notin S
    <3>1. 1 \in 0..Len(b) /\ (\A i \in 1..1 : b[i] \notin S)
          /\ \A i \in (1 + 1)..Len(b) : b[i] \in S
      BY <2>2, <2>4, <2>6
    <3>2. rest \in Seq(Stored) /\ Len(rest) = Len(b) - 1
      BY <1>3, <3>1
    <3>3. rest = <<>>
      BY <2>2, <3>2
    <3> QED
      BY <1>2, <2>3, <2>4, <2>6, <3>3
  <2> QED
    BY <2>5, <2>6
<1> QED
  BY <1>5, <1>6

(* A message is received: k2 is what was received then. *)
Receives(se, q, t, k, r, x, k2) ==
    /\ q # <<>> /\ x \in Stored /\ x.msg = Head(q) /\ x.t = t /\ k2 = Append(k, x)

(* It is the next event, and nothing that came out has it. *)
NextOne(se, k, r, x, k2) ==
    /\ r \in Nat /\ r + 1 \in Nat /\ r + 1 <= Len(se) /\ Len(se) \in Nat
    /\ x.msg = <<se[r + 1].e>> /\ x.msg[1] = se[r + 1].e /\ x.msg[1].n = r + 1
    /\ x.msg[1] \in Event /\ x.msg \in Single /\ x.msg = <<x.msg[1]>>
    /\ Len(k) \in Nat /\ Len(k2) = Len(k) + 1 /\ k2[Len(k2)] = x
    /\ \A i \in 1..Len(k) : k2[i] = k[i]

LEMMA MatchMore ==
  ASSUME NEW size, NEW se, NEW q, NEW b, NEW t \in Nat, NEW p, NEW ou, NEW k, NEW r,
         Matching(size, se, q, b, t, p, ou, k, r), NEW x, NEW k2,
         Receives(se, q, t, k, r, x, k2)
  PROVE  /\ NextOne(se, k, r, x, k2)
         /\ Waits(se, Tail(q), r + 1) /\ Buffered(se, k2, r + 1) /\ Sorted(k2, t)
         /\ MatchesOut(se, ou, r + 1)
<1>1. /\ Numbered(se) /\ Waits(se, q, r) /\ Buffered(se, k, r) /\ Sorted(k, t)
      /\ MatchesOut(se, ou, r) /\ r \in Nat /\ Len(se) \in Nat
  BY DEF Matching, Waits, Numbered
<1>2. q # <<>> /\ x \in Stored /\ x.msg = Head(q) /\ x.t = t /\ k2 = Append(k, x)
  BY DEF Receives
<1>3. Waits(se, Tail(q), r + 1) /\ r + 1 <= Len(se) /\ Head(q) = <<se[r + 1].e>>
  BY <1>1, <1>2, WaitsTail
<1>4. /\ k \in Seq(Stored) /\ Len(k) <= r /\ Len(k) \in Nat
      /\ \A i \in 1..Len(k) : k[i].msg = <<se[(r - Len(k)) + i].e>>
  BY <1>1 DEF Buffered
<1>5. /\ k2 \in Seq(Stored) /\ Len(k2) = Len(k) + 1 /\ k2[Len(k2)] = x
      /\ \A i \in 1..Len(k) : k2[i] = k[i]
  BY <1>2, <1>4
<1>6. Buffered(se, k2, r + 1)
  <2>1. ASSUME NEW i \in 1..Len(k2) PROVE k2[i].msg = <<se[((r + 1) - Len(k2)) + i].e>>
    <3>1. (r + 1) - Len(k2) = r - Len(k)
      BY <1>1, <1>4, <1>5
    <3>2. CASE i = Len(k2)
      <4>1. (r - Len(k)) + i = r + 1
        BY <1>1, <1>4, <1>5, <3>2
      <4> QED
        BY <1>2, <1>3, <1>5, <3>1, <3>2, <4>1
    <3>3. CASE i # Len(k2)
      <4>1. i \in 1..Len(k)
        BY <1>4, <1>5, <3>3
      <4> QED
        BY <1>4, <1>5, <3>1, <4>1
    <3> QED
      BY <3>2, <3>3
  <2> QED
    BY <1>1, <1>4, <1>5, <2>1 DEF Buffered
<1>7. Sorted(k2, t)
  <2>1. \A i \in 1..Len(k) : k[i].t <= t /\ k[i].t \in Nat
    BY <1>1, <1>4, StoredIs DEF Sorted
  <2>2. \A i \in 1..Len(k2) : i \in 1..Len(k) \/ i = Len(k2)
    BY <1>4, <1>5
  <2>3. \A i \in 1..Len(k2) : k2[i].t <= t /\ k2[i].t \in Nat
    BY <1>2, <1>5, <2>1, <2>2
  <2>4. ASSUME NEW i \in 1..Len(k2), NEW j \in 1..Len(k2), i <= j PROVE k2[i].t <= k2[j].t
    <3>1. CASE j = Len(k2)
      BY <1>2, <1>5, <2>3, <3>1
    <3>2. CASE j \in 1..Len(k)
      <4>1. i \in 1..Len(k)
        BY <1>4, <2>4, <3>2
      <4> QED
        BY <1>1, <1>5, <2>4, <3>2, <4>1 DEF Sorted
    <3> QED
      BY <2>2, <3>1, <3>2
  <2> QED
    BY <2>3, <2>4 DEF Sorted
<1>8. MatchesOut(se, ou, r + 1)
  <2>1. \A m : IsMatch(se, m, r) => IsMatch(se, m, r + 1)
    <3>1. r <= r + 1 /\ r + 1 \in Nat
      BY <1>1
    <3> QED
      BY <1>1, <3>1, MatchGrows
  <2> QED
    BY <1>1, <2>1 DEF MatchesOut
<1>9. se[r + 1].e.n = r + 1 /\ se[r + 1].e \in Event
  <2>1. r + 1 \in DOMAIN se
    BY <1>1, <1>3 DEF Numbered
  <2> QED
    BY <1>1, <2>1 DEF Numbered
<1>10. x.msg = <<se[r + 1].e>> /\ x.msg[1] = se[r + 1].e /\ x.msg \in Single
  BY <1>2, <1>3, StoredIs
<1>11. NextOne(se, k, r, x, k2)
  BY <1>1, <1>3, <1>4, <1>5, <1>9, <1>10 DEF NextOne
<1> QED
  BY <1>3, <1>6, <1>7, <1>8, <1>11

(* ... so a pair of received events that came out is older. *)
LEMMA PairsOld ==
  ASSUME NEW size, NEW se, NEW q, NEW b, NEW t \in Nat, NEW p, NEW ou, NEW k, NEW r,
         Matching(size, se, q, b, t, p, ou, k, r), NEW x, NEW k2,
         Receives(se, q, t, k, r, x, k2),
         NEW i \in 1..Len(k2), NEW j \in 1..Len(k2), NEW c \in DOMAIN ou,
         ou[c].msg = k2[i].msg \o k2[j].msg
  PROVE  /\ i \in 1..Len(k) /\ j \in 1..Len(k) /\ k2[i] = k[i] /\ k2[j] = k[j]
         /\ k2[j].t - k2[i].t <= size
<1> DEFINE n == r + 1
           one == k2[i].msg
           two == k2[j].msg
<1>1. /\ r \in Nat /\ r + 1 \in Nat /\ r + 1 <= Len(se) /\ Buffered(se, k2, r + 1)
      /\ Len(k) \in Nat /\ Len(k2) = Len(k) + 1 /\ \A y \in 1..Len(k) : k2[y] = k[y]
  <2> HIDE DEF n, one, two
  <2>1. NextOne(se, k, r, x, k2) /\ Buffered(se, k2, r + 1)
    BY MatchMore
  <2> QED
    BY <2>1 DEF NextOne
<1>0. Numbered(se) /\ MatchesOut(se, ou, r) /\ PairsInTime(size, p, ou, k)
  BY DEF Matching
<1>9. n \in Nat /\ n <= Len(se) /\ Buffered(se, k2, n)
  BY <1>1
<1> HIDE DEF n
<1>10. \A y \in 1..Len(k2) : k2[y].msg \in Single /\ k2[y].msg[1].n = (n - Len(k2)) + y
  <2> HIDE DEF one, two
  <2> QED
    BY <1>0, <1>9, TakenNumbers
<1>2. /\ one \in Single /\ two \in Single
      /\ one[1].n = (n - Len(k2)) + i /\ two[1].n = (n - Len(k2)) + j
  BY <1>10
<1>3. ou[c].msg[1] = one[1] /\ ou[c].msg[2] = two[1]
  <2>1. ou[c].msg = one \o two
    OBVIOUS
  <2> HIDE DEF one, two
  <2> QED
    BY <1>2, <2>1, PairIs
<1>4. ou[c].msg[1].n \in 1..r /\ ou[c].msg[2].n \in 1..r
  BY <1>0 DEF MatchesOut, IsMatch
<1>5. i \in 1..Len(k) /\ j \in 1..Len(k)
  <2>1. (n - Len(k2)) + i <= r /\ (n - Len(k2)) + j <= r
    <3> HIDE DEF one, two
    <3> QED
      BY <1>2, <1>3, <1>4
  <2> HIDE DEF one, two
  <2> QED
    BY <1>1, <2>1 DEF n
<1>6. k2[i] = k[i] /\ k2[j] = k[j]
  BY <1>1, <1>5
<1>7. Sent(ou, p, k[i].msg \o k[j].msg)
  <2>1. ou[c].msg = k[i].msg \o k[j].msg
    BY <1>6
  <2> QED
    BY <2>1 DEF Sent
<1>8. k[j].t - k[i].t <= size
  BY <1>0, <1>5, <1>7, Zenon DEF PairsInTime
<1> QED
  BY <1>5, <1>6, <1>8

(* What is received is one more; a pair of what was received before is one   *)
(* that was in time, and matched if it had to be.                            *)
MatchedBefore(size, p, ou, k, k2) ==
    \A i \in 1..(Len(k) - 1) :
      Class(k2[i].msg) = "a" /\ Class(k2[i + 1].msg) = "b" /\ k2[i + 1].t - k2[i].t <= size
      => Sent(ou, p, k2[i].msg \o k2[i + 1].msg)

LEMMA OneMoreTaken ==
  ASSUME NEW size, NEW se, NEW q, NEW b, NEW t \in Nat, NEW p, NEW ou, NEW k, NEW r,
         Matching(size, se, q, b, t, p, ou, k, r), p = <<>>, NEW x, NEW k2,
         Receives(se, q, t, k, r, x, k2)
  PROVE  /\ PairsInTime(size, p, ou, k2)
         /\ \A p2 : MatchedBefore(size, p2, ou, k, k2)
<1>1. k \in Seq(Stored) /\ Sorted(k, t) /\ AllMatched(size, p, ou, k)
  BY DEF Matching, Buffered
<1>2. x \in Stored /\ k2 = Append(k, x)
  BY DEF Receives
<1>3. /\ Len(k) \in Nat /\ Len(k2) = Len(k) + 1 /\ k2[Len(k2)] = x
      /\ \A y \in 1..Len(k) : k2[y] = k[y]
  BY <1>1, <1>2
<1>5. \A p2, w : Sent(ou, p, w) => (\E c \in DOMAIN ou : ou[c].msg = w) /\ Sent(ou, p2, w)
  <2>1. 1..Len(p) = {}
    OBVIOUS
  <2> QED
    BY <2>1, Zenon DEF Sent
<1>6. PairsInTime(size, p, ou, k2)
  <2>1. ASSUME NEW i \in 1..Len(k2), NEW j \in 1..Len(k2), Sent(ou, p, k2[i].msg \o k2[j].msg)
        PROVE  k2[j].t - k2[i].t <= size
    <3>1. PICK c \in DOMAIN ou : ou[c].msg = k2[i].msg \o k2[j].msg
      BY <1>5, <2>1
    <3> QED
      BY <2>1, <3>1, PairsOld
  <2> QED
    BY <2>1, Zenon DEF PairsInTime
<1>7. ASSUME NEW p2, NEW i \in 1..(Len(k) - 1), Class(k2[i].msg) = "a",
             Class(k2[i + 1].msg) = "b", k2[i + 1].t - k2[i].t <= size
      PROVE  Sent(ou, p2, k2[i].msg \o k2[i + 1].msg)
  <2>1. i \in 1..Len(k) /\ i + 1 \in 1..Len(k)
    BY <1>3
  <2>2. k2[i] = k[i] /\ k2[i + 1] = k[i + 1]
    BY <1>3, <2>1
  <2>3. Sent(ou, p, k[i].msg \o k[i + 1].msg)
    BY <1>1, <1>7, <2>2 DEF AllMatched
  <2>4. Sent(ou, p2, k[i].msg \o k[i + 1].msg)
    BY <1>5, <2>3, Zenon
  <2> QED
    BY <2>2, <2>4
<1> QED
  BY <1>6, <1>7 DEF MatchedBefore

(* All that is to be sent again: the parts that a message received changes. *)
LEMMA MatchReceived ==
  ASSUME NEW size, NEW se, NEW q, NEW b, NEW t \in Nat, NEW p, NEW ou, NEW k, NEW r,
         Matching(size, se, q, b, t, p, ou, k, r), NEW x, NEW k2,
         Receives(se, q, t, k, r, x, k2), NEW b2, NEW p2,
         HoldsA(se, b2, r + 1), MatchNext(se, b2, p2, ou, r + 1),
         PairsInTime(size, p2, ou, k2), AllMatched(size, p2, ou, k2), LastA(b2, k2)
  PROVE  Matching(size, se, Tail(q), b2, t, p2, ou, k2, r + 1)
<1>1. Waits(se, Tail(q), r + 1) /\ Buffered(se, k2, r + 1) /\ Sorted(k2, t)
      /\ MatchesOut(se, ou, r + 1)
  BY MatchMore
<1>2. Numbered(se)
  BY DEF Matching
<1> QED
  BY <1>1, <1>2 DEF Matching

(* An A is held from now on, and the one before is forgotten. *)
LEMMA MatchFirst ==
  ASSUME NEW size, NEW se, NEW q, NEW b, NEW t \in Nat, NEW p, NEW ou, NEW k, NEW r,
         Matching(size, se, q, b, t, p, ou, k, r), p = <<>>, NEW x, NEW k2,
         Receives(se, q, t, k, r, x, k2), Class(x.msg) = "a"
  PROVE  Matching(size, se, Tail(q), <<x>>, t, p, ou, k2, r + 1)
<1> DEFINE b2 == <<x>>
           n == r + 1
<1>1. /\ r \in Nat /\ x.msg = <<se[r + 1].e>> /\ x.msg[1].n = r + 1 /\ MatchesOut(se, ou, r)
      /\ x.msg[1] \in Event
  <2> HIDE DEF b2, n
  <2>1. NextOne(se, k, r, x, k2)
    BY MatchMore
  <2>2. MatchesOut(se, ou, r)
    BY DEF Matching
  <2> QED
    BY <2>1, <2>2 DEF NextOne
<1>2. x \in Stored
  BY DEF Receives
<1>3. b2 = <<b2[1]>> /\ b2[1] = x
  OBVIOUS
<1>4. x.msg[1].class = "a"
  BY DEF Class
<1>5. Len(k) \in Nat /\ Len(k2) = Len(k) + 1 /\ k2[Len(k2)] = x
  <2>1. NextOne(se, k, r, x, k2)
    BY MatchMore
  <2> QED
    BY <2>1 DEF NextOne
<1>6. PairsInTime(size, p, ou, k2)
  BY OneMoreTaken
<1>7. MatchedBefore(size, p, ou, k, k2)
  BY OneMoreTaken
<1>8. HoldsA(se, b2, n)
  <2> HIDE DEF b2
  <2>1. n \in 1..n /\ \A i \in 1..n : ~(n < i)
    BY <1>1
  <2>2. b2[1].msg[1].n = n /\ b2[1].msg = <<se[n].e>>
    BY <1>1, <1>3
  <2> HIDE DEF n
  <2>3. b2[1].msg[1].n \in 1..n /\ b2[1].msg = <<se[b2[1].msg[1].n].e>>
        /\ \A i \in 1..n : b2[1].msg[1].n < i => se[i].e.class # "a"
    BY <2>1, <2>2
  <2>4. b2 = <<b2[1]>> /\ b2[1] \in Stored /\ b2[1].msg[1].class = "a"
    BY <1>2, <1>3, <1>4
  <2> QED
    BY <2>3, <2>4, Zenon DEF HoldsA
<1>9. MatchNext(se, b2, p, ou, n)
  <2> HIDE DEF b2
  <2>1. \A i \in DOMAIN ou : ou[i].msg[2].n \in 1..r
    BY <1>1 DEF MatchesOut, IsMatch
  <2>2. \A i \in DOMAIN ou : ou[i].msg[2].n < r + 1
    BY <1>1, <2>1
  <2>3. After2(ou, b2[1].msg[1].n)
    BY <1>1, <1>3, <2>2 DEF After2
  <2> QED
    BY <2>3 DEF MatchNext
<1>10. AllMatched(size, p, ou, k2)
  <2>1. ASSUME NEW i \in 1..(Len(k2) - 1), Class(k2[i + 1].msg) = "b"
        PROVE  i \in 1..(Len(k) - 1)
    <3>1. k2[i + 1] # x
      BY <2>1
    <3>2. i + 1 # Len(k2)
      BY <1>5, <3>1
    <3> QED
      BY <1>5, <3>2
  <2> QED
    BY <1>7, <2>1 DEF AllMatched, MatchedBefore
<1>11. LastA(b2, k2)
  <2> HIDE DEF b2
  <2>1. Len(k2) \in 1..Len(k2)
    BY <1>5
  <2> QED
    BY <1>3, <1>5, <2>1 DEF LastA
<1> HIDE DEF b2
<1>12. Matching(size, se, Tail(q), b2, t, p, ou, k2, r + 1)
  BY <1>6, <1>8, <1>9, <1>10, <1>11, MatchReceived
<1> QED
  BY <1>12 DEF b2

(* What is held was received in this life. *)
LEMMA HeldIsTaken ==
  ASSUME NEW size, NEW se, NEW q, NEW b, NEW t \in Nat, NEW p, NEW ou, NEW k, NEW r,
         Matching(size, se, q, b, t, p, ou, k, r), b # <<>>
  PROVE  /\ \E i \in 1..Len(k) : b[1] = k[i]
         /\ b[1] \in Stored /\ b[1].t \in Nat /\ b[1].t <= t
<1>1. k \in Seq(Stored) /\ Sorted(k, t) /\ LastA(b, k)
  BY DEF Matching, Buffered
<1>2. PICK i \in 1..Len(k) : b[1] = k[i]
  BY <1>1 DEF LastA
<1>3. k[i] \in Stored /\ k[i].t \in Nat /\ k[i].t <= t
  BY <1>1, StoredIs DEF Sorted
<1> QED
  BY <1>2, <1>3

(* Any other event leaves what is held, unless it is too old by now. *)
LEMMA MatchOther ==
  ASSUME NEW size, NEW se, NEW q, NEW b, NEW t \in Nat, NEW p, NEW ou, NEW k, NEW r,
         Matching(size, se, q, b, t, p, ou, k, r), p = <<>>, NEW x, NEW k2,
         Receives(se, q, t, k, r, x, k2), Class(x.msg) # "a", NEW b2,
         b2 = b \/ b2 = <<>>, size \in Nat,
         Class(x.msg) = "b" /\ b # <<>> => ~(Age(t, b[1]) <= size)
  PROVE  Matching(size, se, Tail(q), b2, t, p, ou, k2, r + 1)
<1> DEFINE n == r + 1
           none == <<>>
<1>1. NextOne(se, k, r, x, k2)
  BY MatchMore
<1>2. PairsInTime(size, p, ou, k2) /\ MatchedBefore(size, p, ou, k, k2)
  BY OneMoreTaken
<1>3. x \in Stored /\ x.t = t
  BY DEF Receives
<1>4. HoldsA(se, b, r) /\ MatchNext(se, b, p, ou, r) /\ LastA(b, k)
  BY DEF Matching
<1>5. /\ r \in Nat /\ Len(k) \in Nat /\ Len(k2) = Len(k) + 1 /\ k2[Len(k2)] = x
      /\ x.msg[1] = se[n].e /\ \A i \in 1..Len(k) : k2[i] = k[i]
  BY <1>1 DEF NextOne
<1>6. x.msg[1].class # "a"
  BY DEF Class
<1> HIDE DEF none
<1>7. b2 # none => b2 = b /\ b # none
  BY DEF none
<1>8. HoldsA(se, b2, n)
  <2>1. ASSUME b # none PROVE HoldsA(se, b, n)
    <3>1. /\ b = <<b[1]>> /\ b[1] \in Stored
          /\ b[1].msg[1].n \in 1..r /\ b[1].msg = <<se[b[1].msg[1].n].e>>
          /\ b[1].msg[1].class = "a"
          /\ \A i \in 1..r : b[1].msg[1].n < i => se[i].e.class # "a"
      BY <1>4, <2>1 DEF HoldsA, none
    <3>2. b[1].msg[1].n \in 1..n /\ \A i \in 1..n : i \in 1..r \/ i = n
      BY <1>5, <3>1
    <3>3. se[n].e.class # "a"
      BY <1>5, <1>6
    <3> HIDE DEF n
    <3>4. \A i \in 1..n : b[1].msg[1].n < i => se[i].e.class # "a"
      BY <3>1, <3>2, <3>3
    <3> QED
      BY <3>1, <3>2, <3>4, Zenon DEF HoldsA
  <2>2. HoldsA(se, none, n)
    BY DEF HoldsA, none
  <2> QED
    BY <1>7, <2>1, <2>2
<1>9. MatchNext(se, b2, p, ou, n)
  BY <1>4, <1>7 DEF MatchNext, none
<1>10. AllMatched(size, p, ou, k2)
  <2>1. ASSUME NEW i \in 1..(Len(k2) - 1), Class(k2[i].msg) = "a", Class(k2[i + 1].msg) = "b",
               k2[i + 1].t - k2[i].t <= size
        PROVE  i \in 1..(Len(k) - 1)
    <3> SUFFICES ASSUME i = Len(k) PROVE FALSE
      BY <1>5
    <3> DEFINE y == k[Len(k)]
    <3>1. k2[i] = y /\ k2[i + 1] = x /\ Len(k) # 0
      <4>1. i \in 1..Len(k) /\ i + 1 = Len(k2)
        BY <1>5
      <4> QED
        BY <1>5, <4>1
    <3> HIDE DEF y
    <3>2. Class(y.msg) = "a" /\ Class(x.msg) = "b" /\ x.t - y.t <= size
      BY <2>1, <3>1
    <3>3. b = <<y>>
      BY <1>4, <3>1, <3>2 DEF LastA, y
    <3>4. b # <<>> /\ b[1] = y
      BY <3>3
    <3>5. y.t \in Nat /\ y.t <= t
      BY <3>4, HeldIsTaken
    <3>6. Age(t, y) <= size
      BY <1>3, <3>2, <3>5 DEF Age
    <3> QED
      BY <3>2, <3>4, <3>6
  <2> QED
    BY <1>2, <2>1 DEF AllMatched, MatchedBefore
<1>11. LastA(b2, k2)
  <2>1. b2 # none => \E i \in 1..Len(k2) : b2[1] = k2[i]
    <3>1. ASSUME b2 # none PROVE \E i \in 1..Len(k2) : b2[1] = k2[i]
      <4>1. PICK i \in 1..Len(k) : b[1] = k[i]
        BY <1>7, <3>1, HeldIsTaken DEF none
      <4>2. i \in 1..Len(k2) /\ k2[i] = b[1] /\ b2 = b
        BY <1>5, <1>7, <3>1, <4>1
      <4> QED
        BY <4>2
    <3> QED
      BY <3>1
  <2> QED
    BY <1>5, <2>1 DEF LastA, none
<1> QED
  BY <1>2, <1>8, <1>9, <1>10, <1>11, MatchReceived

(* A B that comes in time makes a match with the A that is held, and uses it *)
(* up.                                                                       *)
LEMMA MatchSecond ==
  ASSUME NEW size, NEW se, NEW q, NEW b, NEW t \in Nat, NEW p, NEW ou, NEW k, NEW r,
         Matching(size, se, q, b, t, p, ou, k, r), p = <<>>, NEW x, NEW k2,
         Receives(se, q, t, k, r, x, k2), Class(x.msg) = "b", b # <<>>,
         size \in Nat, Age(t, b[1]) <= size
  PROVE  Matching(size, se, Tail(q), <<>>, t, <<b[1].msg \o x.msg>>, ou, k2, r + 1)
<1> DEFINE n == r + 1
           none == <<>>
           y == b[1]
           m == y.msg \o x.msg
           p2 == <<m>>
<1>1. NextOne(se, k, r, x, k2) /\ Buffered(se, k2, n)
  BY MatchMore
<1>2. PairsInTime(size, p, ou, k2) /\ MatchedBefore(size, p2, ou, k, k2)
  BY OneMoreTaken
<1>3. x \in Stored /\ x.t = t
  BY DEF Receives
<1>4. HoldsA(se, b, r) /\ MatchNext(se, b, p, ou, r) /\ LastA(b, k) /\ Numbered(se)
  BY DEF Matching
<1>5. /\ r \in Nat /\ n \in Nat /\ n <= Len(se)
      /\ Len(k) \in Nat /\ Len(k2) = Len(k) + 1 /\ k2[Len(k2)] = x
      /\ x.msg \in Single /\ x.msg[1] \in Event
      /\ x.msg[1] = se[n].e /\ x.msg[1].n = n /\ \A i \in 1..Len(k) : k2[i] = k[i]
  BY <1>1 DEF NextOne
<1>6. /\ b = <<y>> /\ y \in Stored
      /\ y.msg[1].n \in 1..r /\ y.msg = <<se[y.msg[1].n].e>> /\ y.msg[1].class = "a"
      /\ \A i \in 1..r : y.msg[1].n < i => se[i].e.class # "a"
  BY <1>4 DEF HoldsA
<1>7. After2(ou, y.msg[1].n)
  BY <1>4 DEF MatchNext
<1>8. (\E i \in 1..Len(k) : y = k[i]) /\ y.t \in Nat /\ y.t <= t
  BY HeldIsTaken
<1>9. x.msg[1].class = "b"
  BY DEF Class
<1>10. y.msg \in Single
  BY <1>6, StoredIs
<1>11. y.msg[1] = se[y.msg[1].n].e /\ y.msg[1] \in Event
  <2>1. y.msg[1] \in Event
    BY <1>10, SingleIs
  <2> QED
    BY <1>6, <2>1
<1>12. t - y.t <= size
  <2> HIDE DEF y
  <2>1. Age(t, y) <= size
    BY DEF y
  <2> QED
    BY <1>8, <2>1 DEF Age
<1> HIDE DEF none, y
<1>13. m = <<m[1], m[2]>> /\ m[1] = y.msg[1] /\ m[2] = x.msg[1]
  <2>1. m = <<y.msg[1], x.msg[1]>> /\ m[1] = y.msg[1] /\ m[2] = x.msg[1]
    BY <1>5, <1>10, PairIs
  <2> HIDE DEF m
  <2> QED
    BY <2>1
<1> HIDE DEF m
<1>14. p2 = <<p2[1]>> /\ p2[1] = m /\ Len(p2) = 1 /\ p2 # none
  BY DEF none
<1> HIDE DEF p2
<1>15. IsMatch(se, m, n)
  <2>1. y.msg[1].n \in 1..n /\ x.msg[1].n \in 1..n /\ y.msg[1].n < x.msg[1].n
    BY <1>5, <1>6
  <2>2. \A i \in 1..n : y.msg[1].n < i /\ i < x.msg[1].n => se[i].e.class # "a"
    <3>1. \A i \in 1..n : i < x.msg[1].n => i \in 1..r
      BY <1>5
    <3> QED
      BY <1>6, <3>1
  <2>3. x.msg[1] = se[x.msg[1].n].e
    BY <1>5
  <2> HIDE DEF n
  <2> QED
    BY <1>5, <1>6, <1>9, <1>11, <1>13, <2>1, <2>2, <2>3 DEF IsMatch
<1>16. MatchNext(se, none, p2, ou, n)
  <2>1. IsMatch(se, p2[1], n) /\ After2(ou, p2[1][1].n) /\ p2 = <<p2[1]>>
    BY <1>7, <1>13, <1>14, <1>15
  <2> QED
    BY <2>1 DEF MatchNext, none
<1>17. HoldsA(se, none, n)
  BY DEF HoldsA, none
<1>18. \A w : Sent(ou, p2, w) <=> (\E c \in DOMAIN ou : ou[c].msg = w) \/ w = m
  <2>1. 1..Len(p2) = {1}
    BY <1>14
  <2> QED
    BY <1>14, <2>1 DEF Sent
<1>19. \A i \in 1..Len(k2) : k2[i].msg \in Single /\ k2[i].msg[1].n = (n - Len(k2)) + i
  <2>1. n \in Nat /\ n <= Len(se) /\ Numbered(se) /\ Buffered(se, k2, n)
    BY <1>1, <1>4, <1>5
  <2> HIDE DEF n
  <2> QED
    BY <2>1, TakenNumbers
<1>20. PairsInTime(size, p2, ou, k2)
  <2>1. ASSUME NEW i \in 1..Len(k2), NEW j \in 1..Len(k2), Sent(ou, p2, k2[i].msg \o k2[j].msg)
        PROVE  k2[j].t - k2[i].t <= size
    <3> DEFINE w == k2[i].msg \o k2[j].msg
    <3>1. CASE \E c \in DOMAIN ou : ou[c].msg = w
      <4>1. Sent(ou, p, w)
        BY <3>1, Zenon DEF Sent
      <4> QED
        BY <1>2, <4>1, Zenon DEF PairsInTime
    <3>2. CASE w = m
      <4>1. w[1] = k2[i].msg[1] /\ w[2] = k2[j].msg[1]
        <5>1. k2[i].msg \in Single /\ k2[j].msg \in Single
          BY <1>19
        <5> QED
          BY <5>1, PairIs
      <4> HIDE DEF w
      <4>2. k2[i].msg[1].n = y.msg[1].n /\ k2[j].msg[1].n = n
        BY <1>5, <1>13, <3>2, <4>1
      <4>3. PICK h \in 1..Len(k) : y = k[h]
        BY <1>8
      <4>4. h \in 1..Len(k2) /\ k2[h] = y
        BY <1>5, <4>3
      <4>5. (n - Len(k2)) + i = (n - Len(k2)) + h /\ (n - Len(k2)) + j = n
        BY <1>19, <4>2, <4>4
      <4>6. i = h /\ j = Len(k2)
        <5>1. n \in Nat /\ Len(k2) \in Nat /\ i \in Nat /\ j \in Nat /\ h \in Nat
          BY <1>5, <4>3
        <5> HIDE DEF n
        <5> QED
          BY <4>5, <5>1
      <4>7. k2[i] = y /\ k2[j] = x
        BY <1>5, <4>4, <4>6
      <4> QED
        BY <1>3, <1>12, <4>7
    <3> QED
      BY <1>18, <2>1, <3>1, <3>2
  <2> QED
    BY <2>1, Zenon DEF PairsInTime
<1>21. AllMatched(size, p2, ou, k2)
  <2>1. ASSUME NEW i \in 1..(Len(k2) - 1), Class(k2[i].msg) = "a", Class(k2[i + 1].msg) = "b",
               k2[i + 1].t - k2[i].t <= size
        PROVE  Sent(ou, p2, k2[i].msg \o k2[i + 1].msg)
    <3>1. CASE i \in 1..(Len(k) - 1)
      BY <1>2, <2>1, <3>1 DEF MatchedBefore
    <3>2. CASE i = Len(k)
      <4> DEFINE z == k[Len(k)]
      <4>1. k2[i] = z /\ k2[i + 1] = x /\ Len(k) # 0
        <5>1. i \in 1..Len(k) /\ i + 1 = Len(k2)
          BY <1>5, <3>2
        <5> QED
          BY <1>5, <3>2, <5>1
      <4> HIDE DEF z
      <4>2. b = <<z>>
        BY <1>4, <2>1, <4>1 DEF LastA, z
      <4>3. z = y
        BY <4>2 DEF y
      <4>4. k2[i].msg \o k2[i + 1].msg = m
        BY <4>1, <4>3 DEF m
      <4> QED
        BY <1>18, <4>4
    <3> QED
      BY <1>5, <3>1, <3>2
  <2> QED
    BY <2>1 DEF AllMatched
<1>22. LastA(none, k2)
  <2>1. "a" # "b" /\ Class(k2[Len(k2)].msg) = "b"
    BY <1>5
  <2> QED
    BY <2>1 DEF LastA, none
<1>23. Matching(size, se, Tail(q), none, t, p2, ou, k2, n)
  BY <1>16, <1>17, <1>20, <1>21, <1>22, MatchReceived
<1> QED
  BY <1>23 DEF none, p2, m, y

(* A pattern alone matches exactly what it has to. *)
Match(o) ==
    /\ Matching(program[o].size, sent, chan[Inlet(o)], task[o].buf, now, task[o].pend, out,
                taken[o], Len(sent) - Len(chan[Inlet(o)]))
    /\ task[o].at = "down" => taken[o] = <<>>
PatternInv(o) == LoneType(o) /\ Kind(o) = "pattern" /\ Match(o)

(* It does so after a step whose outcome is right. *)
LEMMA MatchBy ==
  ASSUME NEW o, UNCHANGED program, NEW q, chan'[Inlet(o)] = q, NEW b, task'[o].buf = b,
         NEW p, task'[o].pend = p, NEW ou, out' = ou, NEW se, sent' = se, NEW t, now' = t, NEW r,
         NEW k, taken'[o] = k, task'[o].at = "down" => k = <<>>,
         Matching(program[o].size, se, q, b, t, p, ou, k, r)
  PROVE  Match(o)'
<1>1. q \in Seq(Single) /\ r \in Nat /\ r + Len(q) = Len(se)
  BY DEF Matching, Waits
<1>2. r = Len(se) - Len(q)
  <2>1. Len(q) \in Nat
    BY <1>1
  <2> QED
    BY <1>1, <2>1
<1>3. Inlet(o)' = Inlet(o)
  BY DEF Inlet
<1> DEFINE s == program[o].size
<1>4. Matching(s, se, q, b, t, p, ou, k, Len(se) - Len(q))
  BY <1>2
<1>5. (program[o].size)' = s
  OBVIOUS
<1> HIDE DEF s
<1> QED
  BY <1>3, <1>4, <1>5 DEF Match

(* What holds of a lone pattern. *)
LEMMA MatchIs ==
  ASSUME NEW o, PatternInv(o)
  PROVE  LET q == chan[Inlet(o)]
             r == Len(sent) - Len(q)
         IN  /\ Matching(program[o].size, sent, q, task[o].buf, now, task[o].pend, out,
                         taken[o], r)
             /\ Inlet(o) \in Channels(program) /\ now \in Nat /\ program[o].size \in Nat
             /\ Ports(Kind(o)) = {"input"} /\ Channels(program) = {Inlet(o)}
             /\ chan \in [Channels(program) -> Seq(Single)]
             /\ task[o] \in Works /\ Kind(o) = "pattern" /\ taken \in [{o} -> Seq(Stored)]
             /\ LoneType(o)
<1>1. LoneType(o) /\ Kind(o) = "pattern" /\ Match(o)
  BY DEF PatternInv
<1>2. Channels(program) = {<<o, port>> : port \in Ports(Kind(o))} /\ Ports(Kind(o)) = {"input"}
  BY <1>1, LoneChannels
<1> QED
  BY <1>1, <1>2 DEF LoneType, Lone, Match, Inlet

(* An event is sent to it. *)
LEMMA PatternEmit ==
  ASSUME NEW o, PatternInv(o), Emit
  PROVE  Match(o)'
<1> DEFINE q == chan[Inlet(o)]
           b == task[o].buf
           p == task[o].pend
           r == Len(sent) - Len(q)
           size == program[o].size
           k == taken[o]
<1>1. /\ Matching(size, sent, q, b, now, p, out, k, r) /\ LoneType(o)
      /\ Channels(program) = {Inlet(o)} /\ chan \in [Channels(program) -> Seq(Single)]
  BY MatchIs
<1>2. PICK c \in Channels(program), e \in Event :
           /\ e.n = Len(sent) + 1
           /\ chan' = [chan EXCEPT ![c] = Append(chan[c], <<e>>)]
           /\ sent' = Append(sent, [e |-> e, c |-> c])
           /\ UNCHANGED <<program, task, fly, now, panics, out, taken>>
  BY <1>1, LoneEmit
<1>3. c = Inlet(o)
  BY <1>1
<1> DEFINE q2 == Append(q, <<e>>)
           x == [e |-> e, c |-> c]
           s2 == Append(sent, x)
<1>4. chan'[Inlet(o)] = q2
  BY <1>1, <1>2, <1>3
<1>5. Grown(sent, s2, e)
  BY <1>1, <1>2, SentGrows
<1>6. sent' = s2 /\ UNCHANGED program /\ task'[o].buf = b /\ task'[o].pend = p /\ out' = out
      /\ now' = now /\ taken'[o] = k /\ (task'[o].at = "down" => k = <<>>)
  BY <1>2 DEF PatternInv, Match
<1> HIDE DEF q, b, p, r, k, size, s2, x
<1>7. Matching(size, s2, q2, b, now, p, out, k, r)
  BY <1>1, <1>5, MatchEmit
<1> HIDE DEF q2
<1> QED
  BY <1>4, <1>6, <1>7, MatchBy DEF size

(* A lone pattern receives. *)
LEMMA PatternReceive ==
  ASSUME NEW o, PatternInv(o), Receive(o, "input")
  PROVE  Match(o)'
<1> DEFINE c == Inlet(o)
           q == chan[c]
           b == task[o].buf
           p == task[o].pend
           r == Len(sent) - Len(q)
           size == program[o].size
           m == Head(q)
           w == Process(o, b, "input", m)
           send == w.send
           rest == w.buf
           q2 == Tail(q)
           r2 == r + 1
           t == now
           se == sent
           ou == out
           k == taken[o]
           x == Entry("input", m)
           k2 == Append(k, x)
           active == Recent(b, t, size)
<1>1. /\ Matching(size, se, q, b, t, p, ou, k, r)
      /\ chan \in [Channels(program) -> Seq(Single)]
      /\ t \in Nat /\ size \in Nat /\ Kind(o) = "pattern" /\ c \in Channels(program)
      /\ taken \in [{o} -> Seq(Stored)] /\ LoneType(o) /\ Ports(Kind(o)) = {"input"}
  BY MatchIs
<1>2. /\ q # <<>> /\ chan' = [chan EXCEPT ![c] = q2] /\ task[o].at = "wait"
      /\ UNCHANGED <<program, fly, now, panics, sent, out>>
      /\ task'[o] = [at |-> After(o, send), pend |-> send, buf |-> rest, mark |-> task[o].mark,
                     due |-> task[o].due, until |-> task[o].until, backoff |-> task[o].backoff]
      /\ taken' = [taken EXCEPT ![o] = IF Kind(o) \in {"join", "pattern"} THEN k2 ELSE k]
  BY <1>1, LoneReceive DEF Inlet
<1>3. /\ chan'[c] = q2 /\ task'[o].buf = rest /\ task'[o].pend = send
      /\ task'[o].at = After(o, send) /\ taken'[o] = k2
  BY <1>1, <1>2
<1>4. q \in Seq(Single) /\ m \in Single
  <2>1. q \in Seq(Single)
    BY <1>1
  <2> HIDE DEF q
  <2> QED
    BY <1>2, <2>1
<1>5. x \in Stored /\ x.msg = m /\ x.t = t
  BY <1>1, <1>4 DEF Entry, Stored
<1>6. Receives(se, q, t, k, r, x, k2)
  BY <1>2, <1>5 DEF Receives
<1>7. p = <<>>
  BY <1>1, <1>2 DEF LoneType, Busy
<1>8. task'[o].at # "down"
  BY <1>1, <1>3 DEF After, Top, ReadsClock, TimeWindow
<1>9. active = IF b # <<>> /\ Age(t, b[1]) <= size THEN b ELSE <<>>
  <2>1. b # <<>> => b = <<b[1]>> /\ b[1] \in Stored
    BY <1>1 DEF Matching, HoldsA
  <2> HIDE DEF b, t, size
  <2> QED
    BY <2>1, RecentOne
<1>10. w = CASE Class(m) = "a" -> [send |-> <<>>, buf |-> <<x>>]
             [] Class(m) = "b" /\ active # <<>> -> [send |-> <<active[1].msg \o m>>, buf |-> <<>>]
             [] OTHER -> [send |-> <<>>, buf |-> active]
  <2>1. w = Pattern(o, b, "input", m)
    BY <1>1, ProcessIs
  <2> QED
    BY <2>1 DEF Pattern
<1>11. Matching(size, se, q2, rest, t, send, ou, k2, r2)
  <2> HIDE DEF q, b, p, r, size, t, se, ou, k, x, k2, m, w, active
  <2>0. size \in Nat
    BY <1>1
  <2>1. CASE Class(m) = "a"
    <3>1. w = [send |-> <<>>, buf |-> <<x>>]
      BY <1>10, <2>1
    <3>2. send = p /\ rest = <<x>>
      BY <1>7, <3>1
    <3> HIDE DEF send, rest
    <3>3. Matching(size, se, q2, <<x>>, t, p, ou, k2, r2)
      BY <1>1, <1>5, <1>6, <1>7, <2>1, MatchFirst
    <3> QED
      BY <3>2, <3>3
  <2>2. CASE Class(m) = "b" /\ active # <<>>
    <3>1. w = [send |-> <<active[1].msg \o m>>, buf |-> <<>>]
      BY <1>10, <2>2
    <3>2. b # <<>> /\ Age(t, b[1]) <= size /\ active = b
      BY <1>9, <2>2
    <3>3. send = <<b[1].msg \o x.msg>> /\ rest = <<>>
      BY <1>5, <3>1, <3>2
    <3> HIDE DEF send, rest
    <3>4. Matching(size, se, q2, <<>>, t, <<b[1].msg \o x.msg>>, ou, k2, r2)
      BY <1>1, <1>5, <1>6, <1>7, <2>0, <2>2, <3>2, MatchSecond
    <3> QED
      BY <3>3, <3>4
  <2>3. CASE Class(m) # "a" /\ ~(Class(m) = "b" /\ active # <<>>)
    <3>1. w = [send |-> <<>>, buf |-> active]
      BY <1>10, <2>3
    <3>2. send = p /\ rest = active
      BY <1>7, <3>1
    <3> HIDE DEF send, rest
    <3>3. active = b \/ active = <<>>
      BY <1>9
    <3>4. Class(x.msg) = "b" /\ b # <<>> => ~(Age(t, b[1]) <= size)
      BY <1>5, <1>9, <2>3
    <3>5. Class(x.msg) # "a"
      BY <1>5, <2>3
    <3>6. Matching(size, se, q2, active, t, p, ou, k2, r2)
      BY <1>1, <1>6, <1>7, <2>0, <3>3, <3>4, <3>5, MatchOther
    <3> QED
      BY <3>2, <3>6
  <2> QED
    BY <2>1, <2>2, <2>3
<1>12. /\ UNCHANGED program /\ chan'[Inlet(o)] = q2 /\ task'[o].buf = rest /\ task'[o].pend = send
       /\ out' = ou /\ sent' = se /\ now' = t /\ taken'[o] = k2
       /\ (task'[o].at = "down" => k2 = <<>>)
  BY <1>2, <1>3, <1>8
<1> HIDE DEF q, b, p, r, k, k2, size, x, w, send, rest, c, m, t, q2, r2, se, ou, active
<1> QED
  BY <1>11, <1>12, MatchBy DEF size

(* ... sends, *)
LEMMA PatternSend ==
  ASSUME NEW o, PatternInv(o), Send(o)
  PROVE  Match(o)'
<1> DEFINE q == chan[Inlet(o)]
           b == task[o].buf
           p == task[o].pend
           r == Len(sent) - Len(q)
           size == program[o].size
           x == [from |-> o, msg |-> Head(p)]
           p2 == Tail(p)
           t == now
           se == sent
           k == taken[o]
           o2 == Append(out, x)
           L == [from : {o}, msg : Seq(Event)]
<1>1. /\ Matching(size, se, q, b, t, p, out, k, r) /\ LoneType(o) /\ Kind(o) = "pattern"
      /\ p \in Seq(Seq(Event))
  BY MatchIs DEF Works
<1>2. /\ task[o].at = "send" /\ UNCHANGED <<program, chan, fly, now, panics, sent, taken>>
      /\ out' = o2
      /\ task'[o] = [at |-> After(o, p2), pend |-> p2, buf |-> b, mark |-> task[o].mark,
                     due |-> task[o].due, until |-> task[o].until, backoff |-> task[o].backoff]
  BY <1>1, LoneSend
<1>3. /\ UNCHANGED program /\ chan'[Inlet(o)] = q /\ task'[o].buf = b /\ task'[o].pend = p2
      /\ out' = o2 /\ sent' = se /\ now' = t /\ taken'[o] = k /\ task'[o].at = After(o, p2)
  BY <1>2
<1>4. p # <<>> /\ out \in Seq(L)
  BY <1>1, <1>2 DEF LoneType, Busy
<1>5. x \in L /\ x.msg = Head(p)
  <2>1. Head(p) \in Seq(Event)
    <3> HIDE DEF p
    <3> QED
      BY <1>1, <1>4
  <2> QED
    BY <2>1
<1>6. task'[o].at = "down" => k = <<>>
  BY <1>1, <1>3 DEF After, Top, ReadsClock, TimeWindow
<1> HIDE DEF q, b, p, r, k, size, x, t, se, L
<1>7. Matching(size, se, q, b, t, p2, o2, k, r)
  BY <1>1, <1>4, <1>5, MatchSend
<1> HIDE DEF p2, o2
<1> QED
  BY <1>3, <1>6, <1>7, MatchBy DEF size

(* ... panics, or is started again with nothing. *)
LEMMA PatternDown ==
  ASSUME NEW o, PatternInv(o), UNCHANGED <<program, now, sent, out>>,
         task'[o].buf = <<>>, task'[o].pend = <<>>, taken'[o] = <<>>,
         \/ chan' = chan
         \/ chan[Inlet(o)] # <<>> /\ chan' = [chan EXCEPT ![Inlet(o)] = Tail(chan[Inlet(o)])]
  PROVE  Match(o)'
<1> DEFINE q == chan[Inlet(o)]
           b == task[o].buf
           p == task[o].pend
           r == Len(sent) - Len(q)
           r2 == r + 1
           q2 == Tail(q)
           size == program[o].size
           t == now
           se == sent
           ou == out
           k == taken[o]
           none == <<>>
<1>1. /\ Matching(size, se, q, b, t, p, ou, k, r)
      /\ chan \in [Channels(program) -> Seq(Single)] /\ Inlet(o) \in Channels(program)
  BY MatchIs
<1>2. /\ UNCHANGED program /\ task'[o].buf = none /\ task'[o].pend = none
      /\ out' = ou /\ sent' = se /\ now' = t /\ taken'[o] = none
      /\ (task'[o].at = "down" => none = <<>>)
  OBVIOUS
<1>3. chan'[Inlet(o)] = q \/ (q # none /\ chan'[Inlet(o)] = q2)
  BY <1>1
<1> HIDE DEF q, b, p, r, k, size, t, se, ou
<1>4. Matching(size, se, q, none, t, none, ou, none, r)
  BY <1>1, MatchDown
<1>5. q # none => Matching(size, se, q2, none, t, none, ou, none, r2)
  BY <1>1, MatchDown
<1> HIDE DEF none, q2, r2
<1>6. CASE chan'[Inlet(o)] = q
  BY <1>2, <1>4, <1>6, MatchBy DEF size
<1>7. CASE q # none /\ chan'[Inlet(o)] = q2
  BY <1>2, <1>5, <1>7, MatchBy DEF size
<1> QED
  BY <1>3, <1>6, <1>7

(* So every step of it keeps the matches right. *)
LEMMA PatternKept ==
  ASSUME NEW o, PatternInv(o), [Next]_vars
  PROVE  PatternInv(o)'
<1>1. LoneType(o) /\ Kind(o) = "pattern" /\ Match(o) /\ taken \in [{o} -> Seq(Stored)]
      /\ Ports(Kind(o)) = {"input"} /\ now \in Nat
  BY MatchIs DEF PatternInv
<1>2. LoneType(o)'
  BY <1>1, LoneTypeKept
<1>3. UNCHANGED program
  BY ProgramStays
<1>4. (Kind(o) = "pattern")'
  BY <1>1, <1>3 DEF Kind
<1>5. Match(o)'
  <2>1. CASE Emit
    BY <2>1, PatternEmit
  <2>2. CASE Second
    <3> DEFINE q == chan[Inlet(o)]
               b == task[o].buf
               p == task[o].pend
               r == Len(sent) - Len(q)
               t == now
               t2 == now + 1
               se == sent
               ou == out
               k == taken[o]
               size == program[o].size
    <3>1. Matching(size, se, q, b, t, p, ou, k, r) /\ t \in Nat
      BY MatchIs
    <3>2. /\ UNCHANGED program /\ chan'[Inlet(o)] = q /\ task'[o].buf = b
          /\ task'[o].pend = p /\ out' = ou /\ sent' = se /\ now' = t2 /\ taken'[o] = k
          /\ (task'[o].at = "down" => k = <<>>)
      BY <1>1, <2>2 DEF Second, Match
    <3>3. t2 \in Nat /\ t <= t2
      BY <3>1
    <3> HIDE DEF q, b, p, r, t, se, ou, k, size, t2
    <3>4. Matching(size, se, q, b, t2, p, ou, k, r)
      BY <3>1, <3>3, MatchClock
    <3> QED
      BY <3>2, <3>4, MatchBy DEF size
  <2>3. CASE Begin(o)
    <3>1. /\ UNCHANGED <<program, chan, fly, now, panics, sent, out, taken>>
          /\ task'[o].pend = task[o].pend /\ task'[o].buf = task[o].buf
          /\ task'[o].at # "down"
      <4> DEFINE w == IF Kind(o) = "join" THEN Recent(task[o].buf, now, program[o].size)
                      ELSE task[o].buf
      <4>1. w = task[o].buf
        BY <1>1
      <4>2. /\ UNCHANGED <<program, chan, fly, now, panics, sent, out, taken>>
            /\ task'[o] = [at |-> "wait", pend |-> task[o].pend, buf |-> w,
                           mark |-> now, due |-> task[o].due, until |-> task[o].until,
                           backoff |-> task[o].backoff]
        BY <1>1, <2>3, LoneBegin
      <4> HIDE DEF w
      <4> QED
        BY <4>1, <4>2
    <3> QED
      BY <1>1, <3>1 DEF Match, Inlet
  <2>4. CASE Send(o)
    BY <2>4, PatternSend
  <2>5. ~Tick(o)
    BY <1>1 DEF Tick, TimeWindow
  <2>6. CASE Restart(o)
    <3>1. /\ task[o].at = "down" /\ UNCHANGED <<program, chan, now, sent, out, taken>>
          /\ task'[o].pend = <<>> /\ task'[o].buf = <<>>
      BY <1>1, <2>6, LoneRestart
    <3>2. taken'[o] = <<>>
      BY <1>1, <3>1 DEF Match
    <3> QED
      BY <3>1, <3>2, PatternDown
  <2>7. CASE SendPanics(o)
    <3>1. Down(o) /\ UNCHANGED <<program, chan, now, sent, out>>
      BY <1>1, <2>7, LoneSendPanics
    <3>2. task'[o].pend = <<>> /\ task'[o].buf = <<>> /\ taken' = [taken EXCEPT ![o] = <<>>]
      BY <1>1, <3>1, LoneDown
    <3>3. taken'[o] = <<>>
      BY <1>1, <3>2
    <3> QED
      BY <3>1, <3>2, <3>3, PatternDown
  <2>8. ASSUME NEW port \in Ports(Kind(o)), Receive(o, port) PROVE Match(o)'
    <3>1. port = "input"
      BY <1>1
    <3>2. Receive(o, "input")
      BY <2>8, <3>1
    <3> QED
      BY <3>2, PatternReceive
  <2>9. ASSUME NEW port \in Ports(Kind(o)), ReceivePanics(o, port) PROVE Match(o)'
    <3>1. <<o, port>> = Inlet(o)
      BY <1>1 DEF Inlet
    <3>2. /\ chan[Inlet(o)] # <<>> /\ Down(o)
          /\ chan' = [chan EXCEPT ![Inlet(o)] = Tail(chan[Inlet(o)])]
          /\ UNCHANGED <<program, fly, now, sent, out>>
      BY <1>1, <2>9, <3>1, LonePanics
    <3>3. task'[o].pend = <<>> /\ task'[o].buf = <<>> /\ taken' = [taken EXCEPT ![o] = <<>>]
      BY <1>1, <3>2, LoneDown
    <3>4. taken'[o] = <<>>
      BY <1>1, <3>3
    <3> QED
      BY <3>2, <3>3, <3>4, PatternDown
  <2>10. CASE UNCHANGED vars
    BY <1>1, <2>10 DEF vars, Match, Inlet
  <2> QED
    BY <1>1, <2>1, <2>2, <2>3, <2>4, <2>5, <2>6, <2>7, <2>8, <2>9, <2>10, LoneNext
<1> QED
  BY <1>2, <1>4, <1>5 DEF PatternInv

(* It is so when the program starts. *)
LEMMA PatternInit ==
  ASSUME NEW o, Lone(o), Kind(o) = "pattern", Init
  PROVE  PatternInv(o)
<1> DEFINE size == program[o].size
           none == <<>>
           zero == Len(none)
<1>1. /\ LoneType(o) /\ sent = <<>> /\ out = <<>> /\ now = 0
      /\ \A c \in Channels(program) : chan[c] = <<>>
      /\ task[o].buf = <<>> /\ task[o].pend = <<>> /\ taken[o] = <<>>
  BY LoneInit DEF Solo
<1>2. Inlet(o) \in Channels(program)
  <2>1. Channels(program) = {<<o, port>> : port \in Ports(Kind(o))} /\ Ports(Kind(o)) = {"input"}
    BY <1>1, LoneChannels
  <2> QED
    BY <2>1 DEF Inlet, Lone
<1>3. /\ none \in Seq(Single) /\ none \in Seq(Stored) /\ zero = 0 /\ DOMAIN none = {}
      /\ 1..zero = {} /\ 1..(zero - 1) = {}
  OBVIOUS
<1>4. sent = none /\ out = none /\ chan[Inlet(o)] = none /\ task[o].buf = none
      /\ task[o].pend = none /\ taken[o] = none
  BY <1>1, <1>2
<1>5. HoldsA(none, none, zero) /\ MatchNext(none, none, none, none, zero) /\ LastA(none, none)
  <2>1. Len(none) = 0
    OBVIOUS
  <2> QED
    BY <2>1 DEF HoldsA, MatchNext, LastA
<1> HIDE DEF none, size
<1>6. Numbered(none) /\ Waits(none, none, zero) /\ Buffered(none, none, zero) /\ Sorted(none, now)
  BY <1>3 DEF Numbered, Waits, Buffered, Sorted
<1>7. MatchesOut(none, none, zero)
  BY <1>3 DEF MatchesOut
<1>8. PairsInTime(size, none, none, none) /\ AllMatched(size, none, none, none)
  BY <1>3 DEF PairsInTime, AllMatched
<1>9. Matching(size, none, none, none, now, none, none, none, zero)
  BY <1>5, <1>6, <1>7, <1>8 DEF Matching
<1>10. zero = Len(none) - Len(none)
  BY <1>3
<1> HIDE DEF zero
<1>11. Match(o)
  BY <1>4, <1>9, <1>10 DEF Match, size, none
<1> QED
  BY <1>1, <1>11 DEF PatternInv

(* All that comes out comes from it. *)
LEMMA AllResults ==
  ASSUME NEW o, LoneType(o)
  PROVE  Results(o) = out
<1> DEFINE L == [from : {o}, msg : Seq(Event)]
           S == {x \in ToSet(out) : x.from = o}
           rest == Those(out, S)
<1>1. out \in Seq(L)
  BY DEF LoneType
<1>2. \A x \in L : x.from = o
  OBVIOUS
<1> HIDE DEF L
<1>3. Len(out) \in Nat /\ \A i \in 1..Len(out) : i \in DOMAIN out /\ out[i] \in L
  BY <1>1
<1>4. \A i \in (0 + 1)..Len(out) : out[i] \in S
  BY <1>2, <1>3 DEF ToSet
<1> HIDE DEF S
<1>5. 0 \in 0..Len(out) /\ \A i \in 1..0 : out[i] \notin S
  BY <1>3
<1>6. /\ rest \in Seq(L) /\ Len(rest) = Len(out) - 0
      /\ \A i \in 1..(Len(out) - 0) : rest[i] = out[0 + i]
  BY <1>1, <1>4, <1>5, ThoseLastOnes
<1>7. Results(o) = rest
  BY DEF Results, S
<1> HIDE DEF rest
<1>8. Len(rest) = Len(out) /\ \A i \in 1..Len(out) : rest[i] = out[i]
  BY <1>3, <1>6
<1>9. rest = out
  BY <1>1, <1>6, <1>8
<1> QED
  BY <1>7, <1>9

(* What a lone operator emitted. *)
LEMMA EmittedAre ==
  ASSUME NEW o, LoneType(o)
  PROVE  \A m : m \in Emitted(o) <=> Sent(out, task[o].pend, m)
<1> DEFINE p == task[o].pend
           L == [from : {o}, msg : Seq(Event)]
<1>1. Results(o) = out
  BY AllResults
<1>2. p \in Seq(Seq(Event)) /\ out \in Seq(L)
  BY DEF LoneType, Works
<1>3. DOMAIN p = 1..Len(p)
  BY <1>2
<1>4. Emitted(o) = {x.msg : x \in ToSet(out)} \cup ToSet(p)
  BY <1>1 DEF Emitted
<1> HIDE DEF p
<1>5. \A m : m \in ToSet(p) <=> \E i \in 1..Len(p) : p[i] = m
  BY <1>3 DEF ToSet
<1>6. \A m : m \in {x.msg : x \in ToSet(out)} <=> \E i \in DOMAIN out : out[i].msg = m
  BY Zenon DEF ToSet
<1> QED
  BY <1>4, <1>5, <1>6 DEF Sent, p

(* One match comes before another. *)
EndsBefore(m, w) == m[2].n < w[1].n

(* Two matches that came out are one, or apart. *)
LEMMA MatchesApart ==
  ASSUME NEW se, NEW b, NEW p, NEW ou, NEW r \in Nat, MatchesOut(se, ou, r),
         MatchNext(se, b, p, ou, r), DOMAIN ou \subseteq Nat,
         NEW m, NEW w, Sent(ou, p, m), Sent(ou, p, w)
  PROVE  /\ IsMatch(se, m, r)
         /\ m = w \/ EndsBefore(m, w) \/ EndsBefore(w, m)
<1>1. ASSUME p # <<>>
      PROVE  /\ Len(p) = 1 /\ IsMatch(se, p[1], r)
             /\ \A i \in DOMAIN ou : EndsBefore(ou[i].msg, p[1])
  <2>1. p = <<p[1]>> /\ IsMatch(se, p[1], r) /\ After2(ou, p[1][1].n)
    BY <1>1 DEF MatchNext
  <2>2. Len(p) = 1
    BY <2>1, OneIs
  <2> QED
    BY <2>1, <2>2 DEF After2, EndsBefore
<1>2. ASSUME NEW v, Sent(ou, p, v)
      PROVE  (\E i \in DOMAIN ou : ou[i].msg = v) \/ (p # <<>> /\ v = p[1])
  <2>1. CASE p = <<>>
    <3>1. 1..Len(p) = {}
      BY <2>1
    <3> QED
      BY <1>2, <3>1, Zenon DEF Sent
  <2>2. CASE p # <<>>
    <3>1. Len(p) = 1
      BY <1>1, <2>2
    <3>2. 1..1 = {1}
      OBVIOUS
    <3>3. 1..Len(p) = {1}
      BY <3>1, <3>2
    <3> QED
      BY <1>2, <2>2, <3>3 DEF Sent
  <2> QED
    BY <2>1, <2>2
<1>3. IsMatch(se, m, r)
  BY <1>1, <1>2 DEF MatchesOut
<1>4. m = w \/ EndsBefore(m, w) \/ EndsBefore(w, m)
  <2>1. CASE \E i \in DOMAIN ou : ou[i].msg = m
    <3>1. PICK i \in DOMAIN ou : ou[i].msg = m
      BY <2>1
    <3>2. CASE \E j \in DOMAIN ou : ou[j].msg = w
      <4>1. PICK j \in DOMAIN ou : ou[j].msg = w
        BY <3>2
      <4>2. i = j \/ i < j \/ j < i
        <5>1. i \in Nat /\ j \in Nat
          OBVIOUS
        <5> QED
          BY <5>1
      <4>3. (i < j => EndsBefore(m, w)) /\ (j < i => EndsBefore(w, m))
        BY <3>1, <4>1 DEF MatchesOut, EndsBefore
      <4> QED
        BY <3>1, <4>1, <4>2, <4>3
    <3>3. CASE p # <<>> /\ w = p[1]
      BY <1>1, <3>1, <3>3
    <3> QED
      BY <1>2, <3>2, <3>3
  <2>2. CASE p # <<>> /\ m = p[1]
    <3>1. CASE \E j \in DOMAIN ou : ou[j].msg = w
      BY <1>1, <2>2, <3>1
    <3>2. CASE p # <<>> /\ w = p[1]
      BY <2>2, <3>2
    <3> QED
      BY <1>2, <3>1, <3>2
  <2> QED
    BY <1>2, <2>1, <2>2
<1> QED
  BY <1>3, <1>4

(* The events of a match. *)
LEMMA MatchHas ==
  ASSUME NEW se, NEW r \in Nat, NEW m, IsMatch(se, m, r)
  PROVE  /\ ToSet(m) = {m[1], m[2]} /\ First(m) = m[1].n /\ Final(m) = m[2].n
         /\ m[1].n \in 1..r /\ m[2].n \in 1..r /\ m[1].n < m[2].n
<1> DEFINE x == m[1]
           y == m[2]
<1>1. m = <<x, y>> /\ x.n \in 1..r /\ y.n \in 1..r /\ x.n < y.n
  BY DEF IsMatch
<1> HIDE DEF x, y
<1>2. Len(m) = 2 /\ DOMAIN m = {1, 2} /\ m[1] = x /\ m[2] = y
  BY <1>1
<1>3. ToSet(m) = {m[i] : i \in {1, 2}}
  BY <1>2 DEF ToSet
<1>4. ToSet(m) = {x, y}
  BY <1>2, <1>3
<1> QED
  BY <1>1, <1>2, <1>4 DEF First, Final

(* A match is what it should be. *)
MatchIsRight(o, m) ==
    /\ m[1].class = "a" /\ m[2].class = "b" /\ First(m) < Final(m)
    /\ \A e \in SentEvents : e.n > First(m) /\ e.n < Final(m) => e.class # "a"
    /\ \A w \in Emitted(o) : w # m => ToSet(w) \cap ToSet(m) = {}
    /\ \A x, y \in ToSet(taken[o]) : x.msg \o y.msg = m => y.t - x.t <= program[o].size

(* What a lone pattern emits is exact. *)
LEMMA PatternSays ==
  ASSUME NEW o, PatternInv(o)
  PROVE  PatternIsExact
<1> DEFINE size == program[o].size
           q == chan[Inlet(o)]
           r == Len(sent) - Len(q)
           p == task[o].pend
           b == task[o].buf
           k == taken[o]
           L == [from : {o}, msg : Seq(Event)]
<1>1. /\ Matching(size, sent, q, b, now, p, out, k, r) /\ LoneType(o) /\ Kind(o) = "pattern"
  BY MatchIs
<1>2. Ops = {o}
  BY <1>1 DEF LoneType, Lone
<1>3. /\ Numbered(sent) /\ MatchesOut(sent, out, r) /\ MatchNext(sent, b, p, out, r)
      /\ PairsInTime(size, p, out, k) /\ AllMatched(size, p, out, k)
      /\ Waits(sent, q, r) /\ Buffered(sent, k, r)
  BY <1>1 DEF Matching
<1>4. out \in Seq(L) /\ DOMAIN out \subseteq Nat
  <2>1. out \in Seq(L)
    BY <1>1 DEF LoneType
  <2> HIDE DEF L
  <2> QED
    BY <2>1
<1>5. \A m : m \in Emitted(o) <=> Sent(out, p, m)
  BY <1>1, EmittedAre
<1>6. Results(o) = out
  BY <1>1, AllResults
<1>7. r \in Nat
  BY <1>3 DEF Waits
<1>8. k \in Seq(Stored) /\ Len(k) \in Nat /\ DOMAIN k = 1..Len(k)
  BY <1>3 DEF Buffered
<1> HIDE DEF size, q, r, p, b, k
<1>9. ASSUME NEW m, NEW w, Sent(out, p, m), Sent(out, p, w)
      PROVE  IsMatch(sent, m, r) /\ (m = w \/ EndsBefore(m, w) \/ EndsBefore(w, m))
  BY <1>3, <1>4, <1>7, <1>9, MatchesApart
<1>10. ASSUME NEW m \in Emitted(o) PROVE MatchIsRight(o, m)
  <2>1. Sent(out, p, m)
    BY <1>5
  <2>2. IsMatch(sent, m, r)
    BY <1>9, <2>1
  <2>3. /\ ToSet(m) = {m[1], m[2]} /\ First(m) = m[1].n /\ Final(m) = m[2].n
        /\ m[1].n \in 1..r /\ m[2].n \in 1..r /\ m[1].n < m[2].n
    BY <1>7, <2>2, MatchHas
  <2>4. m[1].class = "a" /\ m[2].class = "b" /\ First(m) < Final(m)
    BY <2>2, <2>3 DEF IsMatch
  <2>5. ASSUME NEW e \in SentEvents, e.n > First(m), e.n < Final(m) PROVE e.class # "a"
    <3>1. PICK i \in DOMAIN sent : e = sent[i].e
      BY DEF SentEvents
    <3>2. e.n = i /\ i \in Nat
      <4>1. i \in Nat
        BY <1>1 DEF LoneType
      <4> QED
        BY <1>3, <3>1, <4>1 DEF Numbered
    <3>3. i \in 1..r /\ m[1].n < i /\ i < m[2].n
      BY <1>7, <2>3, <2>5, <3>2
    <3> QED
      BY <2>2, <3>1, <3>3 DEF IsMatch
  <2>6. ASSUME NEW w \in Emitted(o), w # m PROVE ToSet(w) \cap ToSet(m) = {}
    <3>1. Sent(out, p, w)
      BY <1>5
    <3>2. IsMatch(sent, w, r) /\ (EndsBefore(m, w) \/ EndsBefore(w, m))
      BY <1>9, <2>1, <2>6, <3>1
    <3>3. /\ ToSet(w) = {w[1], w[2]}
          /\ w[1].n \in 1..r /\ w[2].n \in 1..r /\ w[1].n < w[2].n
      BY <1>7, <3>2, MatchHas
    <3>4. m[1].n # w[1].n /\ m[1].n # w[2].n /\ m[2].n # w[1].n /\ m[2].n # w[2].n
      BY <1>7, <2>3, <3>2, <3>3 DEF EndsBefore
    <3> QED
      BY <2>3, <3>3, <3>4
  <2>7. ASSUME NEW x \in ToSet(taken[o]), NEW y \in ToSet(taken[o]), x.msg \o y.msg = m
        PROVE  y.t - x.t <= program[o].size
    <3>1. PICK i \in 1..Len(k) : x = k[i]
      BY <1>8 DEF ToSet, k
    <3>2. PICK j \in 1..Len(k) : y = k[j]
      BY <1>8 DEF ToSet, k
    <3>3. Sent(out, p, k[i].msg \o k[j].msg)
      BY <2>1, <2>7, <3>1, <3>2
    <3>4. k[j].t - k[i].t <= size
      BY <1>3, <3>3, Zenon DEF PairsInTime
    <3> QED
      BY <3>1, <3>2, <3>4 DEF size
  <2> QED
    BY <2>4, <2>5, <2>6, <2>7 DEF MatchIsRight
<1>11. OnceEach(o)
  <2>1. ASSUME NEW i \in DOMAIN out, NEW j \in DOMAIN out, out[i] = out[j] PROVE i = j
    <3>1. IsMatch(sent, out[i].msg, r)
      BY <1>3 DEF MatchesOut
    <3>2. out[i].msg[1].n \in Nat /\ out[i].msg[2].n \in Nat
          /\ out[i].msg[1].n < out[i].msg[2].n
      <4>1. out[i].msg[1].n \in 1..r /\ out[i].msg[2].n \in 1..r
            /\ out[i].msg[1].n < out[i].msg[2].n
        BY <3>1 DEF IsMatch
      <4> QED
        BY <1>7, <4>1
    <3>3. ~(i < j) /\ ~(j < i)
      BY <1>3, <2>1, <3>2 DEF MatchesOut
    <3>4. i \in Nat /\ j \in Nat
      BY <1>4
    <3> QED
      BY <3>3, <3>4
  <2>2. ASSUME NEW i \in DOMAIN out, NEW m \in ToSet(p) PROVE out[i].msg # m
    <3>1. p # <<>>
      BY <2>2 DEF ToSet
    <3>2. p = <<p[1]>> /\ After2(out, p[1][1].n) /\ IsMatch(sent, p[1], r)
      BY <1>3, <3>1 DEF MatchNext
    <3>3. m = p[1]
      <4> DEFINE v == p[1]
      <4>1. p = <<v>>
        BY <3>2
      <4> HIDE DEF v
      <4>2. ToSet(p) = {v}
        BY <4>1, SetOfOne
      <4> QED
        BY <2>2, <4>2 DEF v
    <3>4. m[1].n \in 1..r /\ m[2].n \in 1..r /\ m[1].n < m[2].n
      BY <1>7, <3>2, <3>3, MatchHas
    <3>5. out[i].msg[2].n < m[1].n
      BY <3>2, <3>3 DEF After2
    <3> QED
      BY <1>7, <3>4, <3>5
  <2>3. {x.msg : x \in ToSet(out)} \cap ToSet(p) = {}
    <3>1. ASSUME NEW x \in ToSet(out) PROVE \E i \in DOMAIN out : out[i] = x
      BY <3>1, Zenon DEF ToSet
    <3> QED
      BY <2>2, <3>1
  <2> QED
    BY <1>6, <2>1, <2>3 DEF OnceEach, p
<1>12. ASSUME NEW i \in 1..(Len(k) - 1), Class(k[i].msg) = "a", Class(k[i + 1].msg) = "b",
              k[i + 1].t - k[i].t <= size
       PROVE  k[i].msg \o k[i + 1].msg \in Emitted(o)
  BY <1>3, <1>5, <1>12 DEF AllMatched
<1>13. \A i \in 1..Len(taken[o]) - 1 :
         LET x == taken[o][i]  y == taken[o][i + 1] IN
         Class(x.msg) = "a" /\ Class(y.msg) = "b" /\ y.t - x.t <= program[o].size
           => x.msg \o y.msg \in Emitted(o)
  BY <1>12 DEF k, size
<1> QED
  BY <1>2, <1>10, <1>11, <1>13 DEF PatternIsExact, MatchIsRight

(* Every pattern of the program runs alone. *)
LonePattern == \A o \in Ops : Kind(o) = "pattern" => Lone(o)

(* A pattern that runs alone, between those who emit and the service at its  *)
(* end, matches exactly what it has to: every A with the B that follows it   *)
(* next within the window, no event in two matches and no match twice, panics*)
(* and restarts or not.                                                      *)
THEOREM PatternMatchesExactly == Spec /\ LonePattern => []PatternIsExact
<1> DEFINE I == (\E o : PatternInv(o)) \/ (\A o \in Ops : Kind(o) # "pattern")
<1>1. Init /\ LonePattern => I
  <2> SUFFICES ASSUME Init, LonePattern, NEW o \in Ops, Kind(o) = "pattern"
               PROVE  PatternInv(o)
    OBVIOUS
  <2> QED
    BY PatternInit DEF LonePattern
<1>2. I /\ [Next]_vars => I'
  <2>1. ASSUME NEW o, PatternInv(o), [Next]_vars PROVE PatternInv(o)'
    BY <2>1, PatternKept
  <2>2. ASSUME \A o \in Ops : Kind(o) # "pattern", [Next]_vars
        PROVE  (\A o \in Ops : Kind(o) # "pattern")'
    <3>1. UNCHANGED program
      <4>1. CASE Next
        BY <4>1 DEF Next, Emit, Second, Step, Begin, Send, SendInParallel, Restart, Tick, Receive,
                    SendPanics, RunnerPanics, RunnerReturns, ReceivePanics
      <4> QED
        BY <2>2, <4>1 DEF vars
    <3> QED
      BY <2>2, <3>1 DEF Ops, Kind
  <2> QED
    BY <2>1, <2>2
<1>3. I => PatternIsExact
  <2>1. (\A o \in Ops : Kind(o) # "pattern") => PatternIsExact
    BY DEF PatternIsExact
  <2> QED
    BY <2>1, PatternSays
<1> HIDE DEF I
<1> QED
  BY <1>1, <1>2, <1>3, PTL DEF Spec

-----------------------------------------------------------------------------
(* A join alone: as more is sent and used, entries and pairs stay what they  *)
(* are.                                                                      *)
LEMMA EntriesLast ==
  ASSUME NEW se, NEW ch, NEW s2, NEW h2, Lasts(se, ch, s2, h2)
  PROVE  /\ \A y : IsEntry(se, ch, y) => IsEntry(s2, h2, y)
         /\ \A m : IsPair(se, ch, m) => IsPair(s2, h2, m)
<1>1. ASSUME NEW y, IsEntry(se, ch, y) PROVE IsEntry(s2, h2, y)
  <2>1. Used(s2, h2, y.msg[1].n) /\ s2[y.msg[1].n] = se[y.msg[1].n]
    BY <1>1 DEF IsEntry, Lasts
  <2> QED
    BY <1>1, <2>1 DEF IsEntry
<1>2. ASSUME NEW m, IsPair(se, ch, m) PROVE IsPair(s2, h2, m)
  <2>1. /\ Used(s2, h2, m[1].n) /\ s2[m[1].n] = se[m[1].n]
        /\ Used(s2, h2, m[2].n) /\ s2[m[2].n] = se[m[2].n]
    BY <1>2 DEF IsPair, Lasts
  <2> QED
    BY <1>2, <2>1 DEF IsPair
<1> QED
  BY <1>1, <1>2

(* So all of it lasts. *)
LEMMA JoinLasts ==
  ASSUME NEW size, NEW se, NEW ch, NEW b, NEW g, NEW t, NEW p, NEW ou, NEW k,
         Joining(size, se, ch, b, g, t, p, ou, k), NEW s2, NEW h2,
         Numbered(s2), Awaits(s2, h2), Lasts(se, ch, s2, h2)
  PROVE  Joining(size, s2, h2, b, g, t, p, ou, k)
<1>1. /\ \A y : IsEntry(se, ch, y) => IsEntry(s2, h2, y)
      /\ \A m : IsPair(se, ch, m) => IsPair(s2, h2, m)
  BY EntriesLast
<1>2. /\ g \in Nat /\ g <= t /\ Stock(se, ch, b) /\ History(size, se, ch, b, g, t, k)
      /\ Couples(se, ch, p, ou) /\ Complete(size, p, ou, k)
  BY DEF Joining
<1>3. Stock(s2, h2, b)
  BY <1>1, <1>2 DEF Stock
<1>4. History(size, s2, h2, b, g, t, k)
  BY <1>1, <1>2 DEF History
<1>5. Couples(s2, h2, p, ou)
  BY <1>1, <1>2 DEF Couples
<1> QED
  BY <1>2, <1>3, <1>4, <1>5 DEF Joining

(* A channel that changed, and the others. *)
Only(ch, h2, c) == c \in DOMAIN ch /\ DOMAIN h2 = DOMAIN ch
                   /\ \A d \in DOMAIN ch : d # c => h2[d] = ch[d]

(* An event is sent into c. *)
LEMMA JoinEmit ==
  ASSUME NEW size, NEW se, NEW ch, NEW b, NEW g, NEW t, NEW p, NEW ou, NEW k,
         Joining(size, se, ch, b, g, t, p, ou, k), NEW s2, NEW h2, NEW c, NEW e \in Event,
         Grown(se, s2, e), s2[Len(se) + 1].c = c, Only(ch, h2, c),
         h2[c] = Append(ch[c], <<e>>)
  PROVE  Joining(size, s2, h2, b, g, t, p, ou, k)
<1> DEFINE one == <<e>>
           q == ch[c]
           z == h2[c]
           N == Len(se) + 1
<1>1. /\ Numbered(s2) /\ Len(s2) = N /\ Len(se) \in Nat /\ s2[N].e = e /\ e.n = N
      /\ \A i \in 1..Len(se) : s2[i] = se[i]
  <2>1. /\ Numbered(s2) /\ Numbered(se) /\ Len(s2) = Len(se) + 1 /\ s2[Len(se) + 1].e = e
        /\ \A i \in 1..Len(se) : s2[i] = se[i]
    BY DEF Grown
  <2>2. Len(se) \in Nat
    BY <2>1 DEF Numbered
  <2>3. DOMAIN s2 = 1..Len(s2)
    BY DEF Grown, Numbered
  <2>4. N \in DOMAIN s2
    BY <2>1, <2>2, <2>3
  <2>5. s2[N].e.n = N
    BY <2>1, <2>4 DEF Numbered
  <2> QED
    BY <2>1, <2>2, <2>5
<1>2. Awaits(se, ch) /\ DOMAIN h2 = DOMAIN ch /\ c \in DOMAIN ch
      /\ \A d \in DOMAIN ch : d # c => h2[d] = ch[d]
  BY DEF Joining, Only
<1>3. one \in Single /\ one[1] = e
  BY DEF Single
<1>4. /\ q \in Seq(Single) /\ Len(q) \in Nat
      /\ \A i \in 1..Len(q) : q[i][1].n \in 1..Len(se) /\ q[i] = <<se[q[i][1].n].e>>
                              /\ se[q[i][1].n].c = c
      /\ \A i, j \in 1..Len(q) : i < j => q[i][1].n < q[j][1].n
  BY <1>2 DEF Awaits
<1>5. /\ z \in Seq(Single) /\ Len(z) = Len(q) + 1 /\ z[Len(z)] = one
      /\ \A i \in 1..Len(q) : z[i] = q[i]
  <2>1. z = Append(q, one)
    OBVIOUS
  <2> HIDE DEF one, z, q
  <2> QED
    BY <1>3, <1>4, <2>1
<1> HIDE DEF one, z, q, N
<1>6. \A i \in 1..Len(z) : i \in 1..Len(q) \/ i = Len(z)
  BY <1>4, <1>5
<1>7. Awaits(s2, h2)
  <2>1. ASSUME NEW n \in 1..Len(s2) PROVE s2[n].c \in DOMAIN h2
    <3>1. n \in 1..Len(se) \/ n = N
      BY <1>1 DEF N
    <3>2. CASE n \in 1..Len(se)
      BY <1>1, <1>2, <3>2 DEF Awaits
    <3>3. CASE n = N
      BY <1>2, <3>3 DEF N
    <3> QED
      BY <3>1, <3>2, <3>3
  <2>2. \A n \in 1..Len(se) : n \in 1..Len(s2)
    BY <1>1 DEF N
  <2>3. ASSUME NEW i \in 1..Len(z)
        PROVE  z[i][1].n \in 1..Len(s2) /\ z[i] = <<s2[z[i][1].n].e>> /\ s2[z[i][1].n].c = c
    <3>1. CASE i \in 1..Len(q)
      BY <1>1, <1>4, <1>5, <2>2, <3>1
    <3>2. CASE i = Len(z)
      <4>1. N \in 1..Len(s2) /\ s2[N].c = c
        BY <1>1 DEF N
      <4> QED
        BY <1>1, <1>3, <1>5, <3>2, <4>1 DEF one
    <3> QED
      BY <1>6, <3>1, <3>2
  <2>4. ASSUME NEW i \in 1..Len(z), NEW j \in 1..Len(z), i < j PROVE z[i][1].n < z[j][1].n
    <3>1. i \in 1..Len(q)
      BY <1>4, <1>5, <2>4
    <3>2. CASE j = Len(z)
      <4>1. z[i][1].n \in 1..Len(se)
        BY <1>4, <1>5, <3>1
      <4>2. z[j][1].n = N
        BY <1>1, <1>3, <1>5, <3>2
      <4> QED
        BY <1>1, <4>1, <4>2 DEF N
    <3>3. CASE j \in 1..Len(q)
      BY <1>4, <1>5, <2>4, <3>1, <3>3
    <3> QED
      BY <1>6, <3>2, <3>3
  <2>5. ASSUME NEW d \in DOMAIN h2
        PROVE  /\ h2[d] \in Seq(Single)
               /\ \A i \in 1..Len(h2[d]) :
                    /\ h2[d][i][1].n \in 1..Len(s2) /\ h2[d][i] = <<s2[h2[d][i][1].n].e>>
                    /\ s2[h2[d][i][1].n].c = d
               /\ \A i, j \in 1..Len(h2[d]) : i < j => h2[d][i][1].n < h2[d][j][1].n
    <3>1. CASE d = c
      BY <1>5, <2>3, <2>4, <3>1 DEF z
    <3>2. CASE d # c
      <4>1. h2[d] = ch[d] /\ d \in DOMAIN ch
        BY <1>2, <3>2
      <4>2. /\ ch[d] \in Seq(Single)
            /\ \A i \in 1..Len(ch[d]) :
                 /\ ch[d][i][1].n \in 1..Len(se) /\ ch[d][i] = <<se[ch[d][i][1].n].e>>
                 /\ se[ch[d][i][1].n].c = d
            /\ \A i, j \in 1..Len(ch[d]) : i < j => ch[d][i][1].n < ch[d][j][1].n
        BY <1>2, <4>1 DEF Awaits
      <4> QED
        BY <1>1, <2>2, <4>1, <4>2
    <3> QED
      BY <3>1, <3>2
  <2> QED
    BY <2>1, <2>5 DEF Awaits
<1>8. Lasts(se, ch, s2, h2)
  <2>1. ASSUME NEW n, Used(se, ch, n) PROVE Used(s2, h2, n) /\ s2[n] = se[n]
    <3> DEFINE d == se[n].c
    <3>1. n \in 1..Len(se) /\ \A i \in 1..Len(ch[d]) : n < ch[d][i][1].n
      BY <2>1 DEF Used
    <3>2. s2[n] = se[n] /\ n \in 1..Len(s2) /\ d \in DOMAIN ch
      BY <1>1, <1>2, <3>1 DEF N, Awaits
    <3> HIDE DEF d
    <3>3. CASE d = c
      <4>1. ASSUME NEW i \in 1..Len(z) PROVE n < z[i][1].n
        <5>1. CASE i \in 1..Len(q)
          BY <1>5, <3>1, <3>3, <5>1 DEF q
        <5>2. CASE i = Len(z)
          <6>1. z[i][1].n = N
            BY <1>1, <1>3, <1>5, <5>2
          <6> QED
            BY <1>1, <3>1, <6>1 DEF N
        <5> QED
          BY <1>6, <5>1, <5>2
      <4> QED
        BY <3>2, <3>3, <4>1 DEF Used, d, z
    <3>4. CASE d # c
      <4>1. h2[d] = ch[d]
        BY <1>2, <3>2, <3>4
      <4> QED
        BY <3>1, <3>2, <4>1 DEF Used, d
    <3> QED
      BY <3>3, <3>4
  <2> QED
    BY <2>1 DEF Lasts
<1> QED
  BY <1>1, <1>7, <1>8, JoinLasts

(* Message m of channel c arrives: its event was never received before. *)
Arrives(se, ch, h2, c, m) ==
    /\ m \in Single /\ m = <<m[1]>> /\ m[1] \in Event
    /\ m[1].n \in 1..Len(se) /\ m[1] = se[m[1].n].e /\ se[m[1].n].c = c
    /\ Used(se, h2, m[1].n) /\ ~Used(se, ch, m[1].n)

(* The head of c is taken from it. *)
LEMMA JoinTail ==
  ASSUME NEW size, NEW se, NEW ch, NEW b, NEW g, NEW t, NEW p, NEW ou, NEW k,
         Joining(size, se, ch, b, g, t, p, ou, k), NEW h2, NEW c,
         Only(ch, h2, c), ch[c] # <<>>, h2[c] = Tail(ch[c])
  PROVE  /\ Joining(size, se, h2, b, g, t, p, ou, k)
         /\ Arrives(se, ch, h2, c, Head(ch[c]))
<1> DEFINE q == ch[c]
           z == h2[c]
           m == Head(q)
<1>1. Awaits(se, ch) /\ DOMAIN h2 = DOMAIN ch /\ c \in DOMAIN ch
      /\ (\A d \in DOMAIN ch : d # c => h2[d] = ch[d]) /\ Numbered(se)
  BY DEF Joining, Only
<1>2. /\ q \in Seq(Single)
      /\ \A i \in 1..Len(q) : q[i][1].n \in 1..Len(se) /\ q[i] = <<se[q[i][1].n].e>>
                              /\ se[q[i][1].n].c = c
      /\ \A i, j \in 1..Len(q) : i < j => q[i][1].n < q[j][1].n
  BY <1>1 DEF Awaits
<1>3. Len(se) \in Nat
  BY <1>1 DEF Numbered
<1>4. /\ z \in Seq(Single) /\ Len(z) = Len(q) - 1 /\ Len(q) \in Nat \ {0} /\ m = q[1]
      /\ m \in Single /\ \A i \in 1..Len(z) : z[i] = q[i + 1]
  <2>1. z = Tail(q) /\ q # <<>>
    OBVIOUS
  <2> HIDE DEF z, q
  <2> QED
    BY <1>2, <2>1
<1> HIDE DEF z, q, m
<1>5. \A i \in 1..Len(z) : i + 1 \in 1..Len(q) /\ 1 < i + 1
  BY <1>4
<1>6. Awaits(se, h2)
  <2>1. ASSUME NEW i \in 1..Len(z)
        PROVE  z[i][1].n \in 1..Len(se) /\ z[i] = <<se[z[i][1].n].e>> /\ se[z[i][1].n].c = c
    BY <1>2, <1>4, <1>5
  <2>2. ASSUME NEW i \in 1..Len(z), NEW j \in 1..Len(z), i < j PROVE z[i][1].n < z[j][1].n
    <3>1. i + 1 < j + 1 /\ i + 1 \in 1..Len(q) /\ j + 1 \in 1..Len(q)
      BY <1>4, <1>5, <2>2
    <3> QED
      BY <1>2, <1>4, <3>1
  <2>3. ASSUME NEW d \in DOMAIN h2
        PROVE  /\ h2[d] \in Seq(Single)
               /\ \A i \in 1..Len(h2[d]) :
                    /\ h2[d][i][1].n \in 1..Len(se) /\ h2[d][i] = <<se[h2[d][i][1].n].e>>
                    /\ se[h2[d][i][1].n].c = d
               /\ \A i, j \in 1..Len(h2[d]) : i < j => h2[d][i][1].n < h2[d][j][1].n
    <3>1. CASE d = c
      BY <1>4, <2>1, <2>2, <3>1 DEF z
    <3>2. CASE d # c
      <4>1. h2[d] = ch[d] /\ d \in DOMAIN ch
        BY <1>1, <3>2
      <4> QED
        BY <1>1, <4>1 DEF Awaits
    <3> QED
      BY <3>1, <3>2
  <2> QED
    BY <1>1, <2>3 DEF Awaits
<1>7. Lasts(se, ch, se, h2)
  <2>1. ASSUME NEW n, Used(se, ch, n) PROVE Used(se, h2, n)
    <3> DEFINE d == se[n].c
    <3>1. n \in 1..Len(se) /\ \A i \in 1..Len(ch[d]) : n < ch[d][i][1].n
      BY <2>1 DEF Used
    <3>2. d \in DOMAIN ch
      BY <1>1, <3>1 DEF Awaits
    <3> HIDE DEF d
    <3>3. CASE d = c
      <4>1. \A i \in 1..Len(z) : n < z[i][1].n
        BY <1>4, <1>5, <3>1, <3>3 DEF q
      <4> QED
        BY <3>1, <3>3, <4>1 DEF Used, d, z
    <3>4. CASE d # c
      <4>1. h2[d] = ch[d]
        BY <1>1, <3>2, <3>4
      <4> QED
        BY <3>1, <4>1 DEF Used, d
    <3> QED
      BY <3>3, <3>4
  <2> QED
    BY <2>1 DEF Lasts
<1>8. Joining(size, se, h2, b, g, t, p, ou, k)
  BY <1>1, <1>6, <1>7, JoinLasts
<1>9. Arrives(se, ch, h2, c, m)
  <2> DEFINE n == m[1].n
  <2>1. 1 \in 1..Len(q)
    BY <1>4
  <2>2. n \in 1..Len(se) /\ m = <<se[n].e>> /\ se[n].c = c
    BY <1>2, <1>4, <2>1
  <2>3. m[1] \in Event /\ n \in Nat
    <3>1. m[1] \in Event
      BY <1>4, SingleIs
    <3> QED
      BY <3>1 DEF Event
  <2> HIDE DEF n
  <2>4. m[1] = se[n].e
    BY <2>2
  <2>5. m = <<m[1]>>
    BY <2>2, <2>4
  <2>6. Used(se, h2, n)
    <3>1. ASSUME NEW i \in 1..Len(z) PROVE n < z[i][1].n
      <4>1. q[1][1].n < q[i + 1][1].n
        BY <1>2, <1>5, <2>1
      <4> QED
        BY <1>4, <4>1 DEF n
    <3> QED
      BY <2>2, <3>1 DEF Used, z
  <2>7. ~Used(se, ch, n)
    <3>1. ASSUME Used(se, ch, n) PROVE FALSE
      <4>1. n < q[1][1].n
        BY <2>1, <2>2, <3>1 DEF Used, q
      <4>2. n < n
        BY <1>4, <4>1 DEF n
      <4> QED
        BY <2>3, <4>2
    <3> QED
      BY <3>1
  <2> QED
    BY <1>4, <2>2, <2>3, <2>4, <2>5, <2>6, <2>7 DEF Arrives, n
<1> QED
  BY <1>8, <1>9 DEF m, q

(* Time passes. *)
LEMMA JoinClock ==
  ASSUME NEW size, NEW se, NEW ch, NEW b, NEW g, NEW t \in Nat, NEW p, NEW ou, NEW k,
         Joining(size, se, ch, b, g, t, p, ou, k), NEW t2 \in Nat, t <= t2
  PROVE  Joining(size, se, ch, b, g, t2, p, ou, k)
<1>1. History(size, se, ch, b, g, t, k) /\ g \in Nat /\ g <= t
  BY DEF Joining
<1>2. \A i \in 1..Len(k) : k[i].t \in Nat
  BY <1>1, StoredIs DEF History
<1>3. History(size, se, ch, b, g, t2, k)
  BY <1>1, <1>2 DEF History
<1>4. g <= t2
  BY <1>1
<1> QED
  BY <1>3, <1>4 DEF Joining

(* Nothing is left of a task that panicked. *)
LEMMA JoinDown ==
  ASSUME NEW size, NEW se, NEW ch, NEW b, NEW g, NEW t, NEW p, NEW ou, NEW k,
         Joining(size, se, ch, b, g, t, p, ou, k), NEW g2 \in Nat, g2 <= t
  PROVE  Joining(size, se, ch, <<>>, g2, t, <<>>, ou, <<>>)
<1> DEFINE none == <<>>
<1>1. none \in Seq(Stored) /\ 1..Len(none) = {}
  OBVIOUS
<1> HIDE DEF none
<1>2. Couples(se, ch, p, ou) /\ Numbered(se) /\ Awaits(se, ch)
  BY DEF Joining
<1>3. Stock(se, ch, none)
  BY <1>1 DEF Stock
<1>4. History(size, se, ch, none, g2, t, none)
  BY <1>1 DEF History
<1>5. Couples(se, ch, none, ou)
  BY <1>1, <1>2 DEF Couples
<1>6. Complete(size, none, ou, none)
  BY <1>1 DEF Complete
<1>7. Joining(size, se, ch, none, g2, t, none, ou, none)
  BY <1>2, <1>3, <1>4, <1>5, <1>6 DEF Joining
<1> QED
  BY <1>7 DEF none

(* What is kept of a list without the like twice has none either. *)
LEMMA StockPart ==
  ASSUME NEW se, NEW ch, NEW b, Stock(se, ch, b), NEW S
  PROVE  /\ Stock(se, ch, Those(b, S))
         /\ \A y \in S : (\E i \in 1..Len(b) : b[i] = y) =>
              \E i \in 1..Len(Those(b, S)) : Those(b, S)[i] = y
         /\ \A i \in 1..Len(Those(b, S)) :
              Those(b, S)[i] \in S /\ \E n \in 1..Len(b) : b[n] = Those(b, S)[i]
<1> DEFINE z == Those(b, S)
<1>1. b \in Seq(Stored)
  BY DEF Stock
<1>2. /\ z \in Seq(Stored)
      /\ \A i \in 1..Len(z) : z[i] \in S /\ \E n \in 1..Len(b) : b[n] = z[i]
      /\ \A n \in 1..Len(b) : b[n] \in S => \E i \in 1..Len(z) : z[i] = b[n]
  BY <1>1, ThoseMembers
<1>3. PICK h : PartOf(z, b, h)
  BY <1>1, ThosePart
<1> HIDE DEF z
<1>4. ASSUME NEW i \in 1..Len(z), NEW j \in 1..Len(z), z[i].msg = z[j].msg PROVE i = j
  <2>1. h[i] \in 1..Len(b) /\ h[j] \in 1..Len(b) /\ z[i] = b[h[i]] /\ z[j] = b[h[j]]
        /\ (i < j => h[i] < h[j]) /\ (j < i => h[j] < h[i])
    BY <1>3 DEF PartOf
  <2>2. h[i] = h[j]
    BY <1>4, <2>1 DEF Stock
  <2>3. Len(z) \in Nat /\ Len(b) \in Nat
    BY <1>1, <1>2
  <2> QED
    BY <2>1, <2>2, <2>3
<1>5. \A i \in 1..Len(z) : IsEntry(se, ch, z[i])
  BY <1>2 DEF Stock
<1>6. Stock(se, ch, z)
  BY <1>2, <1>4, <1>5 DEF Stock
<1>7. \A y \in S : (\E i \in 1..Len(b) : b[i] = y) => \E i \in 1..Len(z) : z[i] = y
  BY <1>2
<1> QED
  BY <1>2, <1>6, <1>7 DEF z

(* A join forgets what is old, at the head of its loop. *)
LEMMA JoinBegin ==
  ASSUME NEW size \in Nat, NEW se, NEW ch, NEW b, NEW g, NEW t \in Nat, NEW p, NEW ou, NEW k,
         Joining(size, se, ch, b, g, t, p, ou, k)
  PROVE  Joining(size, se, ch, Recent(b, t, size), t, t, p, ou, k)
<1> DEFINE S == {x \in ToSet(b) : Age(t, x) <= size}
           z == Those(b, S)
<1>1. Recent(b, t, size) = z
  BY DEF Recent
<1>2. Stock(se, ch, b) /\ History(size, se, ch, b, g, t, k) /\ g \in Nat /\ g <= t
  BY DEF Joining
<1>3. \A i \in 1..Len(b) : Age(t, b[i]) <= size => b[i] \in S
  <2>1. DOMAIN b = 1..Len(b)
    BY <1>2 DEF Stock
  <2> QED
    BY <2>1 DEF ToSet
<1> HIDE DEF S
<1>4. /\ Stock(se, ch, z)
      /\ \A y \in S : (\E i \in 1..Len(b) : b[i] = y) => \E i \in 1..Len(z) : z[i] = y
  BY <1>2, StockPart
<1> HIDE DEF z
<1>5. ASSUME NEW i \in 1..Len(k)
      PROVE  (\E j \in 1..Len(z) : z[j] = k[i]) \/ ~(Age(t, k[i]) <= size)
  <2> DEFINE y == k[i]
  <2>1. y.t \in Nat /\ y.t <= t
    BY <1>2, StoredIs DEF History
  <2>2. CASE \E j \in 1..Len(b) : b[j] = y
    <3>1. Age(t, y) <= size => y \in S
      BY <1>3, <2>2
    <3> QED
      BY <1>4, <2>2, <3>1
  <2>3. CASE ~(Age(g, y) <= size)
    <3> HIDE DEF y
    <3>1. ~(Age(t, y) <= size)
      BY <1>2, <2>1, <2>3 DEF Age
    <3> QED
      BY <3>1 DEF y
  <2> QED
    BY <1>2, <2>2, <2>3 DEF History
<1>6. History(size, se, ch, z, t, t, k)
  BY <1>2, <1>5 DEF History
<1>7. Joining(size, se, ch, z, t, t, p, ou, k)
  BY <1>4, <1>6 DEF Joining
<1> QED
  BY <1>1, <1>7

(* A pair is sent. *)
LEMMA JoinSend ==
  ASSUME NEW size, NEW se, NEW ch, NEW b, NEW g, NEW t, NEW P, NEW p \in Seq(P), NEW L,
         NEW ou \in Seq(L), NEW k,
         Joining(size, se, ch, b, g, t, p, ou, k), p # <<>>, NEW x \in L, x.msg = Head(p)
  PROVE  Joining(size, se, ch, b, g, t, Tail(p), Append(ou, x), k)
<1> DEFINE z == Tail(p)
           o2 == Append(ou, x)
           N == Len(ou) + 1
<1>1. Couples(se, ch, p, ou) /\ Complete(size, p, ou, k)
  BY DEF Joining
<1>2. /\ Len(p) \in Nat \ {0} /\ Len(z) = Len(p) - 1 /\ Head(p) = p[1]
      /\ \A i \in 1..Len(z) : z[i] = p[i + 1]
  OBVIOUS
<1>3. /\ DOMAIN o2 = 1..N /\ o2[N] = x /\ Len(ou) \in Nat /\ DOMAIN ou = 1..Len(ou)
      /\ \A i \in DOMAIN ou : o2[i] = ou[i]
  OBVIOUS
<1> HIDE DEF z, o2, N
<1>4. /\ \A i \in 1..Len(z) : i + 1 \in 1..Len(p) /\ i + 1 # 1
      /\ 1 \in 1..Len(p)
      /\ \A i \in 1..Len(p) : i = 1 \/ (i - 1 \in 1..Len(z) /\ (i - 1) + 1 = i)
  BY <1>2
<1>5. N \in DOMAIN o2 /\ (\A i \in DOMAIN ou : i \in DOMAIN o2 /\ i # N)
      /\ \A i \in DOMAIN o2 : i = N \/ i \in DOMAIN ou
  BY <1>3 DEF N
<1>6. x.msg = p[1]
  BY <1>2
<1>7. Couples(se, ch, z, o2)
  <2>1. \A i \in DOMAIN o2 : IsPair(se, ch, o2[i].msg)
    BY <1>1, <1>3, <1>4, <1>5, <1>6 DEF Couples
  <2>2. \A i \in 1..Len(z) : IsPair(se, ch, z[i])
    BY <1>1, <1>2, <1>4 DEF Couples
  <2>3. ASSUME NEW i \in DOMAIN o2, NEW j \in DOMAIN o2, o2[i].msg = o2[j].msg PROVE i = j
    <3>1. \A w \in DOMAIN ou : ou[w].msg # p[1]
      BY <1>1, <1>4 DEF Couples
    <3>2. CASE i = N
      BY <1>3, <1>5, <1>6, <2>3, <3>1, <3>2
    <3>3. CASE j = N
      BY <1>3, <1>5, <1>6, <2>3, <3>1, <3>3
    <3>4. CASE i \in DOMAIN ou /\ j \in DOMAIN ou
      BY <1>1, <1>3, <2>3, <3>4 DEF Couples
    <3> QED
      BY <1>5, <3>2, <3>3, <3>4
  <2>4. ASSUME NEW i \in 1..Len(z), NEW j \in 1..Len(z), z[i] = z[j] PROVE i = j
    <3>1. p[i + 1] = p[j + 1] /\ i + 1 \in 1..Len(p) /\ j + 1 \in 1..Len(p)
      BY <1>2, <1>4, <2>4
    <3>2. i + 1 = j + 1
      BY <1>1, <3>1 DEF Couples
    <3> QED
      BY <1>2, <3>2
  <2>5. ASSUME NEW i \in DOMAIN o2, NEW j \in 1..Len(z) PROVE o2[i].msg # z[j]
    <3>1. z[j] = p[j + 1] /\ j + 1 \in 1..Len(p) /\ j + 1 # 1 /\ 1 \in 1..Len(p)
      BY <1>2, <1>4
    <3>2. CASE i = N
      <4>1. p[1] # p[j + 1]
        BY <1>1, <3>1 DEF Couples
      <4> QED
        BY <1>3, <1>6, <3>1, <3>2, <4>1
    <3>3. CASE i \in DOMAIN ou
      BY <1>1, <1>3, <3>1, <3>3 DEF Couples
    <3> QED
      BY <1>5, <3>2, <3>3
  <2> QED
    BY <2>1, <2>2, <2>3, <2>4, <2>5 DEF Couples
<1>8. ASSUME NEW w, Sent(ou, p, w) PROVE Sent(o2, z, w)
  <2>1. CASE \E i \in DOMAIN ou : ou[i].msg = w
    BY <1>3, <1>5, <2>1 DEF Sent
  <2>2. CASE \E i \in 1..Len(p) : p[i] = w
    <3>1. PICK i \in 1..Len(p) : p[i] = w
      BY <2>2
    <3>2. CASE i = 1
      BY <1>3, <1>5, <1>6, <3>1, <3>2 DEF Sent
    <3>3. CASE i # 1
      <4>1. i - 1 \in 1..Len(z) /\ (i - 1) + 1 = i
        BY <1>4, <3>3
      <4>2. z[i - 1] = w
        BY <1>2, <3>1, <4>1
      <4> QED
        BY <4>1, <4>2 DEF Sent
    <3> QED
      BY <3>2, <3>3
  <2> QED
    BY <1>8, <2>1, <2>2 DEF Sent
<1>9. Complete(size, z, o2, k)
  BY <1>1, <1>8 DEF Complete
<1>10. Joining(size, se, ch, b, g, t, z, o2, k)
  BY <1>7, <1>9 DEF Joining
<1> QED
  BY <1>10 DEF z, o2

(* Two entries joined: the left one first. *)
Joined(x, y) == IF x.port = "left" THEN x.msg \o y.msg ELSE y.msg \o x.msg

(* What a join makes of entry x: p2 is one message for each of the mates     *)
(* that are in the buffer, b.                                                *)
MateSet(b, x) == {y \in ToSet(b) : y.port # x.port /\ Class(y.msg) = Class(x.msg)}
JoinsWith(b, x, p2) ==
    LET mates == Those(b, MateSet(b, x))
    IN  Len(p2) = Len(mates) /\ \A i \in 1..Len(mates) : p2[i] = Joined(x, mates[i])

(* An entry of the new message. *)
Enters(t, c, m, x) == x \in Stored /\ x.msg = m /\ x.t = t /\ x.port = c[2]
Sides(ch) == \A d \in DOMAIN ch : d[2] = "left" \/ d[2] = "right"

(* A join of two entries of one class from two sides is a pair, which tells  *)
(* the entries.                                                              *)
LEMMA JoinedIs ==
  ASSUME NEW se, NEW h2, NEW x, IsEntry(se, h2, x), NEW y, IsEntry(se, h2, y),
         Class(x.msg) = Class(y.msg),
         \/ x.port = "left" /\ y.port = "right"
         \/ x.port = "right" /\ y.port = "left"
  PROVE  /\ IsPair(se, h2, Joined(x, y))
         /\ \/ Joined(x, y)[1] = x.msg[1] /\ Joined(x, y)[2] = y.msg[1]
            \/ Joined(x, y)[1] = y.msg[1] /\ Joined(x, y)[2] = x.msg[1]
<1>1. x.msg \in Single /\ y.msg \in Single /\ x.msg[1] \in Event /\ y.msg[1] \in Event
  BY StoredIs, SingleIs DEF IsEntry
<1>2. ASSUME NEW v \in Single, NEW w \in Single
      PROVE  (v \o w)[1] = v[1] /\ (v \o w)[2] = w[1] /\ v \o w = <<(v \o w)[1], (v \o w)[2]>>
  <2> DEFINE z == v \o w
  <2>1. z = <<v[1], w[1]>> /\ z[1] = v[1] /\ z[2] = w[1]
    BY PairIs
  <2> HIDE DEF z
  <2>2. z = <<z[1], z[2]>>
    BY <2>1
  <2> QED
    BY <2>1, <2>2 DEF z
<1>3. x.msg[1].class = y.msg[1].class
  BY DEF Class
<1>4. CASE x.port = "left" /\ y.port = "right"
  <2> DEFINE z == Joined(x, y)
  <2>1. z = x.msg \o y.msg
    BY <1>4 DEF Joined
  <2> DEFINE v == x.msg \o y.msg
  <2>4. v[1] = x.msg[1] /\ v[2] = y.msg[1] /\ v = <<v[1], v[2]>>
    BY <1>1, <1>2
  <2>5. z = v
    BY <2>1
  <2> HIDE DEF z, v
  <2>2. z[1] = x.msg[1] /\ z[2] = y.msg[1] /\ z = <<z[1], z[2]>>
    BY <2>4, <2>5
  <2>3. IsPair(se, h2, z)
    BY <1>1, <1>3, <1>4, <2>2 DEF IsPair, IsEntry
  <2> QED
    BY <2>2, <2>3 DEF z
<1>5. CASE x.port = "right" /\ y.port = "left"
  <2> DEFINE z == Joined(x, y)
  <2>1. z = y.msg \o x.msg
    BY <1>5 DEF Joined
  <2> DEFINE v == y.msg \o x.msg
  <2>4. v[1] = y.msg[1] /\ v[2] = x.msg[1] /\ v = <<v[1], v[2]>>
    BY <1>1, <1>2
  <2>5. z = v
    BY <2>1
  <2> HIDE DEF z, v
  <2>2. z[1] = y.msg[1] /\ z[2] = x.msg[1] /\ z = <<z[1], z[2]>>
    BY <2>4, <2>5
  <2>3. IsPair(se, h2, z)
    BY <1>1, <1>3, <1>5, <2>2 DEF IsPair, IsEntry
  <2> QED
    BY <2>2, <2>3 DEF z
<1> QED
  BY <1>4, <1>5

(* A message is received: h2 is what waits after it, x its entry. *)
Receipt(se, ch, h2, c, t, x) ==
    /\ Only(ch, h2, c) /\ ch[c] # <<>> /\ h2[c] = Tail(ch[c]) /\ Sides(ch)
    /\ Enters(t, c, Head(ch[c]), x)

(* Its entry is one, and none that was there has its event. *)
LEMMA EntryIsNew ==
  ASSUME NEW size, NEW se, NEW ch, NEW b, NEW g, NEW t, NEW p, NEW ou, NEW k,
         Joining(size, se, ch, b, g, t, p, ou, k), NEW h2, NEW c, NEW x,
         Receipt(se, ch, h2, c, t, x)
  PROVE  /\ Joining(size, se, h2, b, g, t, p, ou, k)
         /\ IsEntry(se, h2, x) /\ ~Used(se, ch, x.msg[1].n)
         /\ \A y : IsEntry(se, h2, y) => y.port = "left" \/ y.port = "right"
<1>1. /\ Only(ch, h2, c) /\ ch[c] # <<>> /\ h2[c] = Tail(ch[c]) /\ Sides(ch)
      /\ x \in Stored /\ x.msg = Head(ch[c]) /\ x.t = t /\ x.port = c[2]
  BY DEF Receipt, Enters
<1> DEFINE m == Head(ch[c])
<1>2. Joining(size, se, h2, b, g, t, p, ou, k) /\ Arrives(se, ch, h2, c, m)
  BY <1>1, JoinTail
<1> HIDE DEF m
<1>3. x.msg = m
  BY <1>1 DEF m
<1>4. /\ m = <<m[1]>> /\ m[1].n \in 1..Len(se) /\ m[1] = se[m[1].n].e /\ se[m[1].n].c = c
      /\ Used(se, h2, m[1].n) /\ ~Used(se, ch, m[1].n)
  BY <1>2 DEF Arrives
<1>5. IsEntry(se, h2, x)
  BY <1>1, <1>3, <1>4 DEF IsEntry
<1>6. ASSUME NEW y, IsEntry(se, h2, y) PROVE y.port = "left" \/ y.port = "right"
  <2>1. y.port = se[y.msg[1].n].c[2] /\ y.msg[1].n \in 1..Len(se)
    BY <1>6 DEF IsEntry, Used
  <2>2. se[y.msg[1].n].c \in DOMAIN h2
    BY <1>2, <2>1 DEF Joining, Awaits
  <2>3. se[y.msg[1].n].c \in DOMAIN ch
    BY <1>1, <2>2 DEF Only
  <2> QED
    BY <1>1, <2>1, <2>3 DEF Sides
<1> QED
  BY <1>2, <1>3, <1>4, <1>5, <1>6

(* The mates of it. *)
LEMMA MatesAre ==
  ASSUME NEW size, NEW se, NEW ch, NEW b, NEW g, NEW t, NEW p, NEW ou, NEW k,
         Joining(size, se, ch, b, g, t, p, ou, k), NEW h2, NEW c, NEW x,
         Receipt(se, ch, h2, c, t, x), NEW mates, mates = Those(b, MateSet(b, x))
  PROVE  /\ Len(mates) \in Nat
         /\ \A i \in 1..Len(mates) :
              /\ IsEntry(se, ch, mates[i]) /\ IsPair(se, h2, Joined(x, mates[i]))
              /\ \/ /\ Joined(x, mates[i])[1] = x.msg[1]
                    /\ Joined(x, mates[i])[2] = mates[i].msg[1]
                 \/ /\ Joined(x, mates[i])[1] = mates[i].msg[1]
                    /\ Joined(x, mates[i])[2] = x.msg[1]
         /\ \A i, j \in 1..Len(mates) : mates[i].msg = mates[j].msg => i = j
         /\ \A y \in MateSet(b, x) : \E i \in 1..Len(mates) : mates[i] = y
<1> DEFINE S == MateSet(b, x)
<1>1. Stock(se, ch, b)
  BY DEF Joining
<1>2. /\ Stock(se, ch, mates)
      /\ \A y \in S : (\E i \in 1..Len(b) : b[i] = y) => \E i \in 1..Len(mates) : mates[i] = y
      /\ \A i \in 1..Len(mates) : mates[i] \in S /\ \E n \in 1..Len(b) : b[n] = mates[i]
  <2> HIDE DEF S
  <2> DEFINE z == Those(b, S)
  <2>1. /\ Stock(se, ch, z)
        /\ \A y \in S : (\E i \in 1..Len(b) : b[i] = y) => \E i \in 1..Len(z) : z[i] = y
        /\ \A i \in 1..Len(z) : z[i] \in S /\ \E n \in 1..Len(b) : b[n] = z[i]
    BY <1>1, StockPart
  <2>2. mates = z
    BY DEF S
  <2> HIDE DEF z
  <2> QED
    BY <2>1, <2>2
<1>3. /\ IsEntry(se, h2, x)
      /\ \A y : IsEntry(se, h2, y) => y.port = "left" \/ y.port = "right"
      /\ Joining(size, se, h2, b, g, t, p, ou, k)
  BY EntryIsNew
<1>4. Stock(se, h2, b)
  BY <1>3 DEF Joining
<1>5. ASSUME NEW i \in 1..Len(mates)
      PROVE  /\ IsEntry(se, ch, mates[i]) /\ IsPair(se, h2, Joined(x, mates[i]))
             /\ \/ /\ Joined(x, mates[i])[1] = x.msg[1]
                   /\ Joined(x, mates[i])[2] = mates[i].msg[1]
                \/ /\ Joined(x, mates[i])[1] = mates[i].msg[1]
                   /\ Joined(x, mates[i])[2] = x.msg[1]
  <2> DEFINE y == mates[i]
  <2>1. IsEntry(se, ch, y) /\ y \in S
    BY <1>2 DEF Stock
  <2>2. IsEntry(se, h2, y)
    BY <1>2, <1>4 DEF Stock
  <2>3. y.port # x.port /\ Class(x.msg) = Class(y.msg)
    BY <2>1 DEF MateSet
  <2> HIDE DEF y, S
  <2>4. \/ x.port = "left" /\ y.port = "right"
        \/ x.port = "right" /\ y.port = "left"
    BY <1>3, <2>2, <2>3
  <2>5. /\ IsPair(se, h2, Joined(x, y))
        /\ \/ Joined(x, y)[1] = x.msg[1] /\ Joined(x, y)[2] = y.msg[1]
           \/ Joined(x, y)[1] = y.msg[1] /\ Joined(x, y)[2] = x.msg[1]
    BY <1>3, <2>2, <2>3, <2>4, JoinedIs
  <2> QED
    BY <2>1, <2>5 DEF y
<1>6. \A y \in S : \E i \in 1..Len(mates) : mates[i] = y
  <2>1. ASSUME NEW y \in S PROVE \E i \in 1..Len(b) : b[i] = y
    <3>1. DOMAIN b = 1..Len(b)
      BY <1>1 DEF Stock
    <3> QED
      BY <2>1, <3>1 DEF MateSet, ToSet
  <2> QED
    BY <1>2, <2>1
<1>7. mates \in Seq(Stored) /\ \A i, j \in 1..Len(mates) : mates[i].msg = mates[j].msg => i = j
  BY <1>2 DEF Stock
<1> QED
  BY <1>5, <1>6, <1>7

(* The buffer with it. *)
LEMMA StockMore ==
  ASSUME NEW size, NEW se, NEW ch, NEW b, NEW g, NEW t \in Nat, NEW p, NEW ou, NEW k,
         Joining(size, se, ch, b, g, t, p, ou, k), NEW h2, NEW c, NEW x,
         Receipt(se, ch, h2, c, t, x)
  PROVE  /\ Stock(se, h2, Append(b, x))
         /\ History(size, se, h2, Append(b, x), g, t, Append(k, x))
<1> DEFINE z == Append(b, x)
           k2 == Append(k, x)
<1>1. /\ IsEntry(se, h2, x) /\ ~Used(se, ch, x.msg[1].n)
      /\ Joining(size, se, h2, b, g, t, p, ou, k)
  BY EntryIsNew
<1>2. Stock(se, ch, b) /\ Stock(se, h2, b) /\ History(size, se, h2, b, g, t, k)
  BY <1>1 DEF Joining
<1>3. x \in Stored /\ x.t = t
  BY DEF Receipt, Enters
<1>4. b \in Seq(Stored) /\ k \in Seq(Stored)
  BY <1>2 DEF Stock, History
<1>5. /\ z \in Seq(Stored) /\ Len(z) = Len(b) + 1 /\ z[Len(z)] = x /\ Len(b) \in Nat
      /\ \A i \in 1..Len(b) : z[i] = b[i]
  BY <1>3, <1>4
<1>6. /\ k2 \in Seq(Stored) /\ Len(k2) = Len(k) + 1 /\ k2[Len(k2)] = x /\ Len(k) \in Nat
      /\ \A i \in 1..Len(k) : k2[i] = k[i]
  BY <1>3, <1>4
<1> HIDE DEF z, k2
<1>7. (\A i \in 1..Len(z) : i \in 1..Len(b) \/ i = Len(z)) /\ Len(z) \in 1..Len(z)
      /\ (\A i \in 1..Len(b) : i \in 1..Len(z))
      /\ \A i \in 1..Len(k2) : i \in 1..Len(k) \/ i = Len(k2)
  BY <1>5, <1>6
<1>8. Stock(se, h2, z)
  <2>1. ASSUME NEW i \in 1..Len(z) PROVE IsEntry(se, h2, z[i])
    <3>1. CASE i \in 1..Len(b)
      BY <1>2, <1>5, <3>1 DEF Stock
    <3>2. CASE i = Len(z)
      BY <1>1, <1>5, <3>2
    <3> QED
      BY <1>7, <3>1, <3>2
  <2>2. \A i \in 1..Len(b) : b[i].msg # x.msg
    <3>1. ASSUME NEW i \in 1..Len(b), b[i].msg = x.msg PROVE FALSE
      <4>1. Used(se, ch, b[i].msg[1].n)
        BY <1>2 DEF Stock, IsEntry
      <4> QED
        BY <1>1, <3>1, <4>1
    <3> QED
      BY <3>1
  <2>3. ASSUME NEW i \in 1..Len(z), NEW j \in 1..Len(z), z[i].msg = z[j].msg PROVE i = j
    <3>1. CASE i \in 1..Len(b) /\ j \in 1..Len(b)
      BY <1>2, <1>5, <2>3, <3>1 DEF Stock
    <3>2. CASE i \in 1..Len(b) /\ j = Len(z)
      BY <1>5, <2>2, <2>3, <3>2
    <3>3. CASE i = Len(z) /\ j \in 1..Len(b)
      BY <1>5, <2>2, <2>3, <3>3
    <3> QED
      BY <1>7, <3>1, <3>2, <3>3
  <2> QED
    BY <1>5, <2>1, <2>3 DEF Stock
<1>9. History(size, se, h2, z, g, t, k2)
  <2>1. ASSUME NEW i \in 1..Len(k2)
        PROVE  /\ IsEntry(se, h2, k2[i]) /\ k2[i].t <= t
               /\ (\E j \in 1..Len(z) : z[j] = k2[i]) \/ ~(Age(g, k2[i]) <= size)
    <3>1. CASE i \in 1..Len(k)
      <4>1. /\ IsEntry(se, h2, k[i]) /\ k[i].t <= t
            /\ (\E j \in 1..Len(b) : b[j] = k[i]) \/ ~(Age(g, k[i]) <= size)
        BY <1>2, <3>1 DEF History
      <4>2. (\E j \in 1..Len(b) : b[j] = k[i]) => \E j \in 1..Len(z) : z[j] = k[i]
        BY <1>5, <1>7
      <4> QED
        BY <1>6, <3>1, <4>1, <4>2
    <3>2. CASE i = Len(k2)
      <4>1. k2[i] = x
        BY <1>6, <3>2
      <4>2. \E j \in 1..Len(z) : z[j] = x
        BY <1>5, <1>7
      <4>3. x.t <= t
        BY <1>3
      <4> QED
        BY <1>1, <4>1, <4>2, <4>3
    <3> QED
      BY <1>7, <3>1, <3>2
  <2> QED
    BY <1>6, <2>1 DEF History
<1> QED
  BY <1>8, <1>9 DEF z, k2

(* The pairs with it are new. *)
LEMMA CouplesMore ==
  ASSUME NEW size, NEW se, NEW ch, NEW b, NEW g, NEW t, NEW p, NEW ou, NEW k,
         Joining(size, se, ch, b, g, t, p, ou, k), NEW h2, NEW c, NEW x,
         Receipt(se, ch, h2, c, t, x), NEW p2, JoinsWith(b, x, p2)
  PROVE  Couples(se, h2, p2, ou)
<1> DEFINE mates == Those(b, MateSet(b, x))
<1>1. Len(p2) = Len(mates) /\ \A i \in 1..Len(mates) : p2[i] = Joined(x, mates[i])
  BY DEF JoinsWith
<1>2. /\ \A i \in 1..Len(mates) :
           /\ IsEntry(se, ch, mates[i]) /\ IsPair(se, h2, Joined(x, mates[i]))
           /\ \/ /\ Joined(x, mates[i])[1] = x.msg[1]
                 /\ Joined(x, mates[i])[2] = mates[i].msg[1]
              \/ /\ Joined(x, mates[i])[1] = mates[i].msg[1]
                 /\ Joined(x, mates[i])[2] = x.msg[1]
      /\ \A i, j \in 1..Len(mates) : mates[i].msg = mates[j].msg => i = j
  <2> DEFINE w == mates
  <2>1. w = Those(b, MateSet(b, x))
    OBVIOUS
  <2> HIDE DEF w
  <2>2. /\ \A i \in 1..Len(w) :
             /\ IsEntry(se, ch, w[i]) /\ IsPair(se, h2, Joined(x, w[i]))
             /\ \/ Joined(x, w[i])[1] = x.msg[1] /\ Joined(x, w[i])[2] = w[i].msg[1]
                \/ Joined(x, w[i])[1] = w[i].msg[1] /\ Joined(x, w[i])[2] = x.msg[1]
        /\ \A i, j \in 1..Len(w) : w[i].msg = w[j].msg => i = j
    BY <2>1, MatesAre
  <2> QED
    BY <2>2 DEF w
<1> HIDE DEF mates
<1>3. ~Used(se, ch, x.msg[1].n) /\ Joining(size, se, h2, b, g, t, p, ou, k)
  BY EntryIsNew
<1>4. Couples(se, ch, p, ou) /\ Couples(se, h2, p, ou)
  BY <1>3 DEF Joining
<1>5. \A i \in 1..Len(p2) : IsPair(se, h2, p2[i])
  BY <1>1, <1>2
<1>6. ASSUME NEW i \in 1..Len(p2)
      PROVE  /\ mates[i].msg[1] # x.msg[1] /\ mates[i].msg = <<mates[i].msg[1]>>
             /\ \/ p2[i][1] = x.msg[1] /\ p2[i][2] = mates[i].msg[1]
                \/ p2[i][1] = mates[i].msg[1] /\ p2[i][2] = x.msg[1]
  <2>1. mates[i].msg = <<mates[i].msg[1]>> /\ Used(se, ch, mates[i].msg[1].n)
    BY <1>1, <1>2 DEF IsEntry
  <2>2. mates[i].msg[1] # x.msg[1]
    BY <1>3, <2>1
  <2>3. p2[i] = Joined(x, mates[i])
    BY <1>1
  <2>4. \/ Joined(x, mates[i])[1] = x.msg[1] /\ Joined(x, mates[i])[2] = mates[i].msg[1]
        \/ Joined(x, mates[i])[1] = mates[i].msg[1] /\ Joined(x, mates[i])[2] = x.msg[1]
    BY <1>1, <1>2
  <2> QED
    BY <2>1, <2>2, <2>3, <2>4
<1>7. ASSUME NEW i \in 1..Len(p2), NEW j \in 1..Len(p2), p2[i] = p2[j] PROVE i = j
  <2>1. mates[i].msg[1] = mates[j].msg[1]
    BY <1>6, <1>7
  <2>2. mates[i].msg = <<mates[i].msg[1]>> /\ mates[j].msg = <<mates[j].msg[1]>>
    BY <1>6
  <2>3. mates[i].msg = mates[j].msg
    BY <2>1, <2>2
  <2> QED
    BY <1>1, <1>2, <2>3
<1>8. ASSUME NEW i \in DOMAIN ou, NEW j \in 1..Len(p2), ou[i].msg = p2[j] PROVE FALSE
  <2>1. Used(se, ch, ou[i].msg[1].n) /\ Used(se, ch, ou[i].msg[2].n)
    BY <1>4 DEF Couples, IsPair
  <2>2. p2[j][1] = x.msg[1] \/ p2[j][2] = x.msg[1]
    BY <1>6
  <2> QED
    BY <1>3, <1>8, <2>1, <2>2
<1> QED
  BY <1>4, <1>5, <1>7, <1>8 DEF Couples

(* ... and all that there are within the window. *)
LEMMA CompleteMore ==
  ASSUME NEW size \in Nat, NEW se, NEW ch, NEW b, NEW g, NEW t \in Nat, NEW p, NEW ou, NEW k,
         Joining(size, se, ch, b, g, t, p, ou, k), p = <<>>, NEW h2, NEW c, NEW x,
         Receipt(se, ch, h2, c, t, x), NEW p2, JoinsWith(b, x, p2)
  PROVE  Complete(size, p2, ou, Append(k, x))
<1> DEFINE k2 == Append(k, x)
           mates == Those(b, MateSet(b, x))
<1>1. Len(p2) = Len(mates) /\ \A i \in 1..Len(mates) : p2[i] = Joined(x, mates[i])
  BY DEF JoinsWith
<1>2. \A y \in MateSet(b, x) : \E i \in 1..Len(mates) : mates[i] = y
  BY MatesAre
<1> HIDE DEF mates
<1>3. /\ History(size, se, ch, b, g, t, k) /\ Complete(size, p, ou, k) /\ g \in Nat /\ g <= t
      /\ Stock(se, ch, b)
  BY DEF Joining
<1>4. x \in Stored /\ x.t = t
  BY DEF Receipt, Enters
<1>5. k \in Seq(Stored) /\ b \in Seq(Stored)
  BY <1>3 DEF History, Stock
<1>6. /\ Len(k2) = Len(k) + 1 /\ k2[Len(k2)] = x /\ Len(k) \in Nat
      /\ \A i \in 1..Len(k) : k2[i] = k[i]
  BY <1>4, <1>5
<1> HIDE DEF k2
<1>7. \A i \in 1..Len(k2) : i \in 1..Len(k) \/ i = Len(k2)
  BY <1>6
<1>8. ASSUME NEW i \in 1..Len(k), Age(t, k[i]) <= size, k[i].port # x.port,
             Class(k[i].msg) = Class(x.msg)
      PROVE  Sent(ou, p2, Joined(x, k[i]))
  <2> DEFINE y == k[i]
  <2>1. /\ (\E j \in 1..Len(b) : b[j] = y) \/ ~(Age(g, y) <= size)
        /\ y.t \in Nat /\ y.t <= t
    BY <1>3, StoredIs DEF History
  <2>2. Age(t, y) <= size
    BY <1>8
  <2> HIDE DEF y
  <2>3. ~(Age(g, y) <= size) => ~(Age(t, y) <= size)
    BY <1>3, <2>1 DEF Age
  <2>4. \E j \in 1..Len(b) : b[j] = y
    BY <2>1, <2>2, <2>3
  <2>5. y \in MateSet(b, x)
    <3>1. y \in ToSet(b)
      BY <1>5, <2>4 DEF ToSet
    <3>2. y.port # x.port /\ Class(y.msg) = Class(x.msg)
      BY <1>8 DEF y
    <3> QED
      BY <3>1, <3>2 DEF MateSet
  <2>6. PICK j \in 1..Len(mates) : mates[j] = y
    BY <1>2, <2>5
  <2>7. j \in 1..Len(p2) /\ p2[j] = Joined(x, y)
    BY <1>1, <2>6
  <2> QED
    BY <2>7 DEF Sent, y
<1>9. ASSUME NEW w, Sent(ou, p, w) PROVE Sent(ou, p2, w)
  <2>1. 1..Len(p) = {}
    OBVIOUS
  <2>2. \E i \in DOMAIN ou : ou[i].msg = w
    BY <1>9, <2>1, Zenon DEF Sent
  <2> QED
    BY <2>2, Zenon DEF Sent
<1>10. ASSUME NEW i \in 1..Len(k2), NEW j \in 1..Len(k2), Mates(size, k2[i], k2[j])
       PROVE  Sent(ou, p2, k2[i].msg \o k2[j].msg)
  <2>1. /\ k2[i].port = "left" /\ k2[j].port = "right"
        /\ Class(k2[i].msg) = Class(k2[j].msg)
        /\ Age(k2[i].t, k2[j]) <= size /\ Age(k2[j].t, k2[i]) <= size
    BY <1>10 DEF Mates
  <2>2. CASE i \in 1..Len(k) /\ j \in 1..Len(k)
    <3>1. k2[i] = k[i] /\ k2[j] = k[j]
      BY <1>6, <2>2
    <3>2. Mates(size, k[i], k[j])
      BY <1>10, <3>1
    <3>3. Sent(ou, p, k[i].msg \o k[j].msg)
      BY <1>3, <2>2, <3>2 DEF Complete
    <3>4. Sent(ou, p2, k[i].msg \o k[j].msg)
      BY <1>9, <3>3
    <3> QED
      BY <3>1, <3>4
  <2>3. CASE i = Len(k2) /\ j \in 1..Len(k)
    <3>1. k2[i] = x /\ k2[j] = k[j]
      BY <1>6, <2>3
    <3>2. Age(t, k[j]) <= size /\ k[j].port # x.port /\ Class(k[j].msg) = Class(x.msg)
      BY <1>4, <2>1, <3>1
    <3>3. Sent(ou, p2, Joined(x, k[j]))
      BY <1>8, <2>3, <3>2
    <3>4. Joined(x, k[j]) = x.msg \o k[j].msg
      BY <2>1, <3>1 DEF Joined
    <3> QED
      BY <3>1, <3>3, <3>4
  <2>4. CASE i \in 1..Len(k) /\ j = Len(k2)
    <3>1. k2[i] = k[i] /\ k2[j] = x
      BY <1>6, <2>4
    <3>2. Age(t, k[i]) <= size /\ k[i].port # x.port /\ Class(k[i].msg) = Class(x.msg)
      BY <1>4, <2>1, <3>1
    <3>3. Sent(ou, p2, Joined(x, k[i]))
      BY <1>8, <2>4, <3>2
    <3>4. Joined(x, k[i]) = k[i].msg \o x.msg
      BY <2>1, <3>1 DEF Joined
    <3> QED
      BY <3>1, <3>3, <3>4
  <2>5. ~(i = Len(k2) /\ j = Len(k2))
    BY <2>1
  <2> QED
    BY <1>7, <2>2, <2>3, <2>4, <2>5
<1>11. Complete(size, p2, ou, k2)
  BY <1>10 DEF Complete
<1> QED
  BY <1>11 DEF k2

(* So a join that receives is right. *)
LEMMA JoinReceive ==
  ASSUME NEW size \in Nat, NEW se, NEW ch, NEW b, NEW g, NEW t \in Nat, NEW p, NEW ou, NEW k,
         Joining(size, se, ch, b, g, t, p, ou, k), p = <<>>, NEW h2, NEW c, NEW x,
         Receipt(se, ch, h2, c, t, x), NEW p2, JoinsWith(b, x, p2)
  PROVE  Joining(size, se, h2, Append(b, x), g, t, p2, ou, Append(k, x))
<1> DEFINE z == Append(b, x)
           k2 == Append(k, x)
<1>1. Joining(size, se, h2, b, g, t, p, ou, k)
  BY EntryIsNew
<1>2. Stock(se, h2, z) /\ History(size, se, h2, z, g, t, k2)
  BY StockMore
<1>3. Couples(se, h2, p2, ou)
  BY CouplesMore
<1>4. Complete(size, p2, ou, k2)
  BY CompleteMore
<1> HIDE DEF z, k2
<1>5. Joining(size, se, h2, z, g, t, p2, ou, k2)
  BY <1>1, <1>2, <1>3, <1>4 DEF Joining
<1> QED
  BY <1>5 DEF z, k2

(* A join alone emits exactly the pairs it has to. *)
Pairing(o) ==
    /\ Joining(program[o].size, sent, chan, task[o].buf, task[o].mark, now, task[o].pend, out,
               taken[o])
    /\ task[o].at = "down" => taken[o] = <<>>
JoinInv(o) == LoneType(o) /\ Kind(o) = "join" /\ Pairing(o)

(* It does so after a step whose outcome is right. *)
LEMMA PairingBy ==
  ASSUME NEW o, UNCHANGED program, NEW ch, chan' = ch, NEW b, task'[o].buf = b,
         NEW g, task'[o].mark = g, NEW p, task'[o].pend = p, NEW ou, out' = ou,
         NEW se, sent' = se, NEW t, now' = t, NEW k, taken'[o] = k,
         task'[o].at = "down" => k = <<>>,
         Joining(program[o].size, se, ch, b, g, t, p, ou, k)
  PROVE  Pairing(o)'
<1> DEFINE s == program[o].size
<1>1. Joining(s, se, ch, b, g, t, p, ou, k)
  OBVIOUS
<1>2. (program[o].size)' = s
  OBVIOUS
<1> HIDE DEF s
<1> QED
  BY <1>1, <1>2 DEF Pairing

(* What holds of a lone join. *)
LEMMA PairingIs ==
  ASSUME NEW o, JoinInv(o)
  PROVE  /\ Joining(program[o].size, sent, chan, task[o].buf, task[o].mark, now, task[o].pend,
                    out, taken[o])
         /\ now \in Nat /\ program[o].size \in Nat
         /\ Ports(Kind(o)) = {"left", "right"} /\ Sides(chan)
         /\ chan \in [Channels(program) -> Seq(Single)]
         /\ task[o] \in Works /\ Kind(o) = "join" /\ taken \in [{o} -> Seq(Stored)]
         /\ LoneType(o)
<1>1. LoneType(o) /\ Kind(o) = "join" /\ Pairing(o)
  BY DEF JoinInv
<1>2. Channels(program) = {<<o, port>> : port \in Ports(Kind(o))}
      /\ Ports(Kind(o)) = {"left", "right"}
  BY <1>1, LoneChannels
<1>3. chan \in [Channels(program) -> Seq(Single)]
  BY <1>1 DEF LoneType
<1>4. Sides(chan)
  BY <1>2, <1>3 DEF Sides
<1> QED
  BY <1>1, <1>2, <1>3, <1>4 DEF LoneType, Lone, Pairing

(* A channel that is replaced. *)
LEMMA OneReplaced ==
  ASSUME NEW C, NEW f \in [C -> Seq(Single)], NEW c \in C, NEW q, NEW g, g = [f EXCEPT ![c] = q]
  PROVE  Only(f, g, c) /\ g[c] = q
BY DEF Only

(* An event is sent to it. *)
LEMMA PairingEmit ==
  ASSUME NEW o, JoinInv(o), Emit
  PROVE  Pairing(o)'
<1> DEFINE b == task[o].buf
           g == task[o].mark
           p == task[o].pend
           size == program[o].size
           k == taken[o]
           ch == chan
           h2 == chan'
<1>1. /\ Joining(size, sent, ch, b, g, now, p, out, k) /\ LoneType(o)
      /\ chan \in [Channels(program) -> Seq(Single)]
  BY PairingIs
<1>2. PICK c \in Channels(program), e \in Event :
           /\ e.n = Len(sent) + 1
           /\ chan' = [chan EXCEPT ![c] = Append(chan[c], <<e>>)]
           /\ sent' = Append(sent, [e |-> e, c |-> c])
           /\ UNCHANGED <<program, task, fly, now, panics, out, taken>>
  BY <1>1, LoneEmit
<1> DEFINE q2 == Append(chan[c], <<e>>)
           x == [e |-> e, c |-> c]
           s2 == Append(sent, x)
<1>3. Only(ch, h2, c) /\ h2[c] = q2
  <2> HIDE DEF q2
  <2>1. chan' = [chan EXCEPT ![c] = q2]
    BY <1>2 DEF q2
  <2> QED
    BY <1>1, <2>1, OneReplaced
<1>4. Grown(sent, s2, e)
  BY <1>1, <1>2, SentGrows
<1>5. s2[Len(sent) + 1].c = c
  <2>1. sent \in Seq([e : Event, c : Channels(program)])
    BY <1>1 DEF LoneType
  <2>2. s2[Len(sent) + 1] = x /\ x.c = c
    <3>1. x \in [e : Event, c : Channels(program)] /\ x.c = c
      OBVIOUS
    <3> HIDE DEF x
    <3> QED
      BY <2>1, <3>1
  <2> QED
    BY <2>2
<1>6. /\ sent' = s2 /\ UNCHANGED program /\ task'[o].buf = b /\ task'[o].pend = p /\ out' = out
      /\ task'[o].mark = g /\ chan' = h2
      /\ now' = now /\ taken'[o] = k /\ (task'[o].at = "down" => k = <<>>)
  BY <1>2 DEF JoinInv, Pairing
<1>7. h2[c] = Append(ch[c], <<e>>)
  BY <1>3
<1> HIDE DEF b, g, p, k, size, s2, x, h2, ch, q2
<1>8. Joining(size, s2, h2, b, g, now, p, out, k)
  BY <1>1, <1>3, <1>4, <1>5, <1>7, JoinEmit
<1> QED
  BY <1>6, <1>8, PairingBy DEF size

(* It receives. *)
LEMMA PairingReceive ==
  ASSUME NEW o, JoinInv(o), NEW port \in Ports(Kind(o)), Receive(o, port)
  PROVE  Pairing(o)'
<1> DEFINE c == <<o, port>>
           m == Head(chan[c])
           b == task[o].buf
           g == task[o].mark
           p == task[o].pend
           size == program[o].size
           w == Process(o, b, port, m)
           send == w.send
           rest == w.buf
           t == now
           se == sent
           ou == out
           k == taken[o]
           x == Entry(port, m)
           k2 == Append(k, x)
           ch == chan
           h2 == chan'
           q2 == Tail(chan[c])
           mates == Those(b, MateSet(b, x))
<1>1. /\ Joining(size, se, ch, b, g, t, p, ou, k)
      /\ chan \in [Channels(program) -> Seq(Single)]
      /\ t \in Nat /\ size \in Nat /\ Kind(o) = "join"
      /\ taken \in [{o} -> Seq(Stored)] /\ LoneType(o) /\ Sides(ch)
      /\ Ports(Kind(o)) = {"left", "right"} /\ b \in Seq(Stored)
  BY PairingIs DEF Works
<1>2. /\ chan[c] # <<>> /\ chan' = [chan EXCEPT ![c] = q2] /\ task[o].at = "wait"
      /\ c \in Channels(program)
      /\ UNCHANGED <<program, fly, now, panics, sent, out>>
      /\ task'[o] = [at |-> After(o, send), pend |-> send, buf |-> rest, mark |-> task[o].mark,
                     due |-> task[o].due, until |-> task[o].until, backoff |-> task[o].backoff]
      /\ taken' = [taken EXCEPT ![o] = IF Kind(o) \in {"join", "pattern"} THEN k2 ELSE k]
  BY <1>1, LoneReceive
<1>3. /\ task'[o].buf = rest /\ task'[o].pend = send /\ task'[o].mark = g
      /\ task'[o].at = After(o, send) /\ taken'[o] = k2
  BY <1>1, <1>2
<1>4. m \in Single
  <2> DEFINE q == chan[c]
  <2>1. q \in Seq(Single) /\ q # <<>>
    BY <1>1, <1>2
  <2> HIDE DEF q
  <2>2. Head(q) \in Single
    BY <2>1
  <2> QED
    BY <2>2 DEF q
<1>5. x \in Stored /\ x.msg = m /\ x.t = t /\ x.port = port
  BY <1>1, <1>4 DEF Entry, Stored
<1>6. Receipt(se, ch, h2, c, t, x)
  <2>1. Only(ch, h2, c) /\ h2[c] = q2
    <3> HIDE DEF q2
    <3> QED
      BY <1>1, <1>2, OneReplaced
  <2>2. c[2] = port
    OBVIOUS
  <2> QED
    BY <1>1, <1>2, <1>5, <2>1, <2>2 DEF Receipt, Enters
<1>7. p = <<>>
  BY <1>1, <1>2 DEF LoneType, Busy
<1>8. task'[o].at # "down"
  BY <1>1, <1>3 DEF After, Top, ReadsClock, TimeWindow
<1>9. rest = Append(b, x) /\ JoinsWith(b, x, send)
  <2>1. w = Join(o, b, port, m)
    BY <1>1, ProcessIs
  <2> DEFINE S == {y \in ToSet(b) : y.port # port /\ Class(y.msg) = Class(m)}
             f == [i \in DOMAIN mates |-> IF port = "left" THEN m \o mates[i].msg
                                          ELSE mates[i].msg \o m]
  <2>2. S = MateSet(b, x)
    BY <1>5 DEF MateSet
  <2>3. w = [send |-> f, buf |-> Append(b, x)]
    BY <2>1, <2>2 DEF Join
  <2>4. send = f /\ rest = Append(b, x)
    <3> DEFINE bb == Append(b, x)
    <3>1. w = [send |-> f, buf |-> bb]
      BY <2>3
    <3> HIDE DEF w, f, bb
    <3>2. send = f /\ rest = bb
      BY <3>1
    <3> QED
      BY <3>2 DEF bb
  <2>5. mates \in Seq(Stored)
    <3> DEFINE T == MateSet(b, x)
    <3> HIDE DEF T, x
    <3>1. Those(b, T) \in Seq(Stored)
      BY <1>1, ThoseMembers
    <3> QED
      BY <3>1 DEF T
  <2> HIDE DEF mates, x, w, send, rest, m
  <2>6. DOMAIN mates = 1..Len(mates) /\ Len(mates) \in Nat
    BY <2>5
  <2>7. Len(f) = Len(mates)
    BY <2>6
  <2>8. \A i \in 1..Len(mates) : f[i] = Joined(x, mates[i])
    BY <1>5, <2>6 DEF Joined
  <2> HIDE DEF f
  <2>9. JoinsWith(b, x, send)
    BY <2>4, <2>7, <2>8 DEF JoinsWith, mates
  <2> QED
    BY <2>4, <2>9
<1>10. /\ UNCHANGED program /\ chan' = h2 /\ task'[o].buf = rest /\ task'[o].pend = send
       /\ task'[o].mark = g
       /\ out' = ou /\ sent' = se /\ now' = t /\ taken'[o] = k2
       /\ (task'[o].at = "down" => k2 = <<>>) /\ rest = Append(b, x) /\ k2 = Append(k, x)
       /\ size \in Nat
  BY <1>1, <1>2, <1>3, <1>8, <1>9
<1> HIDE DEF b, g, p, k, k2, size, x, w, send, rest, c, m, t, se, ou, ch, h2, mates, q2
<1>11. Joining(size, se, h2, Append(b, x), g, t, send, ou, Append(k, x))
  BY <1>1, <1>6, <1>7, <1>9, <1>10, JoinReceive
<1>12. Joining(size, se, h2, rest, g, t, send, ou, k2)
  BY <1>10, <1>11
<1> QED
  BY <1>10, <1>12, PairingBy DEF size

(* ... sends, *)
LEMMA PairingSend ==
  ASSUME NEW o, JoinInv(o), Send(o)
  PROVE  Pairing(o)'
<1> DEFINE ch == chan
           b == task[o].buf
           g == task[o].mark
           p == task[o].pend
           size == program[o].size
           x == [from |-> o, msg |-> Head(p)]
           p2 == Tail(p)
           t == now
           se == sent
           k == taken[o]
           o2 == Append(out, x)
           L == [from : {o}, msg : Seq(Event)]
           P == Seq(Event)
<1>1. /\ Joining(size, se, ch, b, g, t, p, out, k) /\ LoneType(o) /\ Kind(o) = "join"
      /\ p \in Seq(P)
  BY PairingIs DEF Works
<1>2. /\ task[o].at = "send" /\ UNCHANGED <<program, chan, fly, now, panics, sent, taken>>
      /\ out' = o2
      /\ task'[o] = [at |-> After(o, p2), pend |-> p2, buf |-> b, mark |-> task[o].mark,
                     due |-> task[o].due, until |-> task[o].until, backoff |-> task[o].backoff]
  BY <1>1, LoneSend
<1>3. /\ UNCHANGED program /\ chan' = ch /\ task'[o].buf = b /\ task'[o].pend = p2
      /\ task'[o].mark = g
      /\ out' = o2 /\ sent' = se /\ now' = t /\ taken'[o] = k /\ task'[o].at = After(o, p2)
  BY <1>2
<1>4. p # <<>> /\ out \in Seq(L)
  BY <1>1, <1>2 DEF LoneType, Busy
<1>5. x \in L /\ x.msg = Head(p)
  <2>1. Head(p) \in P
    <3> HIDE DEF p, P
    <3> QED
      BY <1>1, <1>4
  <2> QED
    BY <2>1
<1>6. task'[o].at = "down" => k = <<>>
  BY <1>1, <1>3 DEF After, Top, ReadsClock, TimeWindow
<1> HIDE DEF b, g, p, k, size, x, t, se, L, P, ch
<1>7. Joining(size, se, ch, b, g, t, p2, o2, k)
  BY <1>1, <1>4, <1>5, JoinSend
<1> HIDE DEF p2, o2
<1> QED
  BY <1>3, <1>6, <1>7, PairingBy DEF size

(* ... forgets what is old, *)
LEMMA PairingBegin ==
  ASSUME NEW o, JoinInv(o), Begin(o)
  PROVE  Pairing(o)'
<1> DEFINE ch == chan
           b == task[o].buf
           g == task[o].mark
           p == task[o].pend
           size == program[o].size
           t == now
           se == sent
           ou == out
           k == taken[o]
           z == IF Kind(o) = "join" THEN Recent(task[o].buf, now, program[o].size)
                ELSE task[o].buf
<1>1. /\ Joining(size, se, ch, b, g, t, p, ou, k) /\ LoneType(o) /\ Kind(o) = "join"
      /\ size \in Nat /\ t \in Nat
  BY PairingIs
<1>2. z = Recent(b, t, size)
  BY <1>1
<1>3. /\ UNCHANGED <<program, chan, fly, now, panics, sent, out, taken>>
      /\ task'[o] = [at |-> "wait", pend |-> task[o].pend, buf |-> z,
                     mark |-> now, due |-> task[o].due, until |-> task[o].until,
                     backoff |-> task[o].backoff]
  BY <1>1, LoneBegin
<1> HIDE DEF z
<1>4. /\ UNCHANGED program /\ chan' = ch /\ task'[o].buf = z /\ task'[o].pend = p
      /\ task'[o].mark = t
      /\ out' = ou /\ sent' = se /\ now' = t /\ taken'[o] = k /\ (task'[o].at = "down" => k = <<>>)
  BY <1>3
<1> HIDE DEF b, g, p, k, size, t, se, ou, ch
<1>5. Joining(size, se, ch, z, t, t, p, ou, k)
  BY <1>1, <1>2, JoinBegin
<1> QED
  BY <1>4, <1>5, PairingBy DEF size

(* ... panics, or is started again with nothing. *)
LEMMA PairingDown ==
  ASSUME NEW o, JoinInv(o), UNCHANGED <<program, now, sent, out>>,
         task'[o].buf = <<>>, task'[o].pend = <<>>, taken'[o] = <<>>,
         task'[o] \in Works, task'[o].mark <= now,
         \/ chan' = chan
         \/ \E c \in Channels(program) :
              chan[c] # <<>> /\ chan' = [chan EXCEPT ![c] = Tail(chan[c])]
  PROVE  Pairing(o)'
<1> DEFINE ch == chan
           h2 == chan'
           b == task[o].buf
           g == task[o].mark
           g2 == task'[o].mark
           p == task[o].pend
           size == program[o].size
           t == now
           se == sent
           ou == out
           k == taken[o]
           none == <<>>
<1>1. /\ Joining(size, se, ch, b, g, t, p, ou, k)
      /\ chan \in [Channels(program) -> Seq(Single)]
  BY PairingIs
<1>2. /\ UNCHANGED program /\ task'[o].buf = none /\ task'[o].pend = none /\ task'[o].mark = g2
      /\ out' = ou /\ sent' = se /\ now' = t /\ taken'[o] = none /\ chan' = h2
      /\ (task'[o].at = "down" => none = <<>>) /\ g2 \in Nat /\ g2 <= t
  BY DEF Works
<1>3. Joining(size, se, h2, b, g, t, p, ou, k)
  <2>1. CASE chan' = chan
    BY <1>1, <2>1
  <2>2. CASE \E c \in Channels(program) :
               chan[c] # <<>> /\ chan' = [chan EXCEPT ![c] = Tail(chan[c])]
    <3>1. PICK c \in Channels(program) :
                 chan[c] # <<>> /\ chan' = [chan EXCEPT ![c] = Tail(chan[c])]
      BY <2>2
    <3>2. Only(ch, h2, c) /\ h2[c] = Tail(ch[c])
      <4> DEFINE q2 == Tail(chan[c])
      <4>1. chan' = [chan EXCEPT ![c] = q2]
        BY <3>1
      <4> HIDE DEF q2
      <4>2. Only(ch, h2, c) /\ h2[c] = q2
        BY <1>1, <4>1, OneReplaced
      <4> QED
        BY <4>2 DEF q2
    <3>3. ch[c] # <<>>
      BY <3>1
    <3> HIDE DEF b, g, p, k, size, t, se, ou, ch, h2
    <3> QED
      BY <1>1, <3>2, <3>3, JoinTail
  <2> QED
    BY <2>1, <2>2
<1> HIDE DEF b, g, p, k, size, t, se, ou, ch, h2, g2
<1>4. Joining(size, se, h2, none, g2, t, none, ou, none)
  BY <1>2, <1>3, JoinDown
<1> HIDE DEF none
<1> QED
  BY <1>2, <1>4, PairingBy DEF size

(* So every step of it keeps the pairs right. *)
LEMMA JoinKept ==
  ASSUME NEW o, JoinInv(o), [Next]_vars
  PROVE  JoinInv(o)'
<1>1. LoneType(o) /\ Kind(o) = "join" /\ Pairing(o) /\ taken \in [{o} -> Seq(Stored)]
      /\ now \in Nat
  BY PairingIs DEF JoinInv
<1>2. LoneType(o)'
  BY <1>1, LoneTypeKept
<1>3. UNCHANGED program
  BY ProgramStays
<1>4. (Kind(o) = "join")'
  BY <1>1, <1>3 DEF Kind
<1>5. Pairing(o)'
  <2>1. CASE Emit
    BY <2>1, PairingEmit
  <2>2. CASE Second
    <3> DEFINE ch == chan
               b == task[o].buf
               g == task[o].mark
               p == task[o].pend
               t == now
               t2 == now + 1
               se == sent
               ou == out
               k == taken[o]
               size == program[o].size
    <3>1. Joining(size, se, ch, b, g, t, p, ou, k) /\ t \in Nat
      BY PairingIs
    <3>2. /\ UNCHANGED program /\ chan' = ch /\ task'[o].buf = b /\ task'[o].mark = g
          /\ task'[o].pend = p /\ out' = ou /\ sent' = se /\ now' = t2 /\ taken'[o] = k
          /\ (task'[o].at = "down" => k = <<>>)
      BY <1>1, <2>2 DEF Second, Pairing
    <3>3. t2 \in Nat /\ t <= t2
      BY <3>1
    <3> HIDE DEF ch, b, g, p, t, se, ou, k, size, t2
    <3>4. Joining(size, se, ch, b, g, t2, p, ou, k)
      BY <3>1, <3>3, JoinClock
    <3> QED
      BY <3>2, <3>4, PairingBy DEF size
  <2>3. CASE Begin(o)
    BY <2>3, PairingBegin
  <2>4. CASE Send(o)
    BY <2>4, PairingSend
  <2>5. ~Tick(o)
    BY <1>1 DEF Tick, TimeWindow
  <2>6. CASE Restart(o)
    <3>1. /\ task[o].at = "down" /\ UNCHANGED <<program, chan, now, sent, out, taken>>
          /\ task'[o].pend = <<>> /\ task'[o].buf = <<>>
          /\ task'[o] \in Works /\ task'[o].mark <= now
      BY <1>1, <2>6, LoneRestart
    <3>2. taken'[o] = <<>>
      BY <1>1, <3>1 DEF Pairing
    <3> QED
      BY <3>1, <3>2, PairingDown
  <2>7. CASE SendPanics(o)
    <3>1. Down(o) /\ UNCHANGED <<program, chan, now, sent, out>>
      BY <1>1, <2>7, LoneSendPanics
    <3>2. /\ task'[o].pend = <<>> /\ task'[o].buf = <<>> /\ taken' = [taken EXCEPT ![o] = <<>>]
          /\ task'[o] \in Works /\ task'[o].mark <= now
      BY <1>1, <3>1, LoneDown
    <3>3. taken'[o] = <<>>
      BY <1>1, <3>2
    <3> QED
      BY <3>1, <3>2, <3>3, PairingDown
  <2>8. ASSUME NEW port \in Ports(Kind(o)), Receive(o, port) PROVE Pairing(o)'
    BY <2>8, PairingReceive
  <2>9. ASSUME NEW port \in Ports(Kind(o)), ReceivePanics(o, port) PROVE Pairing(o)'
    <3> DEFINE c == <<o, port>>
    <3>1. /\ chan[c] # <<>> /\ Down(o) /\ c \in Channels(program)
          /\ chan' = [chan EXCEPT ![c] = Tail(chan[c])]
          /\ UNCHANGED <<program, fly, now, sent, out>>
      BY <1>1, <2>9, LonePanics
    <3>2. /\ task'[o].pend = <<>> /\ task'[o].buf = <<>> /\ taken' = [taken EXCEPT ![o] = <<>>]
          /\ task'[o] \in Works /\ task'[o].mark <= now
      BY <1>1, <3>1, LoneDown
    <3>3. taken'[o] = <<>>
      BY <1>1, <3>2
    <3> HIDE DEF c
    <3> QED
      BY <3>1, <3>2, <3>3, PairingDown
  <2>10. CASE UNCHANGED vars
    BY <1>1, <2>10 DEF vars, Pairing
  <2> QED
    BY <1>1, <2>1, <2>2, <2>3, <2>4, <2>5, <2>6, <2>7, <2>8, <2>9, <2>10, LoneNext
<1> QED
  BY <1>2, <1>4, <1>5 DEF JoinInv

(* It is so when the program starts. *)
LEMMA JoinInit ==
  ASSUME NEW o, Lone(o), Kind(o) = "join", Init
  PROVE  JoinInv(o)
<1> DEFINE size == program[o].size
           none == <<>>
           g == task[o].mark
           ch == chan
<1>1. /\ LoneType(o) /\ sent = <<>> /\ out = <<>> /\ now = 0
      /\ \A c \in Channels(program) : chan[c] = <<>>
      /\ task[o].buf = <<>> /\ task[o].pend = <<>> /\ taken[o] = <<>>
  BY LoneInit DEF Solo
<1>2. /\ none \in Seq(Single) /\ none \in Seq(Stored) /\ Len(none) = 0 /\ DOMAIN none = {}
      /\ 1..Len(none) = {}
  OBVIOUS
<1>3. sent = none /\ out = none /\ task[o].buf = none /\ task[o].pend = none /\ taken[o] = none
      /\ DOMAIN ch = Channels(program) /\ \A c \in DOMAIN ch : ch[c] = none
  BY <1>1 DEF LoneType
<1>4. g \in Nat /\ g <= now
  <2>1. task = [x \in {o} |-> Fresh(Kind(x), 0, 1)]
    BY <1>1 DEF Init, LoneType, Lone
  <2>2. task[o] = Fresh(Kind(o), 0, 1)
    BY <2>1
  <2>3. g = 0
    BY <2>2 DEF Fresh
  <2> QED
    BY <1>1, <2>3
<1> HIDE DEF none, size, g, ch
<1>5. Numbered(none) /\ Awaits(none, ch)
  <2>1. Numbered(none)
    BY <1>2 DEF Numbered
  <2>2. ASSUME NEW c \in DOMAIN ch
        PROVE  /\ ch[c] \in Seq(Single)
               /\ 1..Len(ch[c]) = {}
    <3>1. ch[c] = none
      BY <1>3
    <3> QED
      BY <3>1, <1>2
  <2>3. Awaits(none, ch)
    <3>1. \A n \in 1..Len(none) : none[n].c \in DOMAIN ch
      BY <1>2
    <3> QED
      BY <2>2, <3>1 DEF Awaits
  <2> QED
    BY <2>1, <2>3
<1>6. Stock(none, ch, none) /\ History(size, none, ch, none, g, now, none)
  BY <1>2 DEF Stock, History
<1>7. Couples(none, ch, none, none) /\ Complete(size, none, none, none)
  BY <1>2 DEF Couples, Complete
<1>8. Joining(size, none, ch, none, g, now, none, none, none)
  BY <1>4, <1>5, <1>6, <1>7 DEF Joining
<1>9. Pairing(o)
  BY <1>3, <1>8 DEF Pairing, size, none, g, ch
<1> QED
  BY <1>1, <1>9 DEF JoinInv

(* What a lone join emits is complete. *)
LEMMA JoinSays ==
  ASSUME NEW o, JoinInv(o)
  PROVE  JoinIsComplete
<1> DEFINE size == program[o].size
           p == task[o].pend
           b == task[o].buf
           k == taken[o]
           L == [from : {o}, msg : Seq(Event)]
<1>1. /\ Joining(size, sent, chan, b, task[o].mark, now, p, out, k) /\ LoneType(o)
      /\ Kind(o) = "join"
  BY PairingIs
<1>2. Ops = {o}
  BY <1>1 DEF LoneType, Lone
<1>3. /\ Couples(sent, chan, p, out) /\ Complete(size, p, out, k) /\ k \in Seq(Stored)
  BY <1>1 DEF Joining, History
<1>4. \A m : m \in Emitted(o) <=> Sent(out, p, m)
  BY <1>1, EmittedAre
<1>5. Results(o) = out
  BY <1>1, AllResults
<1>6. DOMAIN k = 1..Len(k)
  BY <1>3
<1>7. DOMAIN p = 1..Len(p)
  <2>1. p \in Seq(Seq(Event))
    BY <1>1 DEF LoneType, Works
  <2> HIDE DEF p
  <2> QED
    BY <2>1
<1> HIDE DEF size, p, b, k
<1>8. ASSUME NEW m \in Emitted(o)
      PROVE  m[1].class = m[2].class /\ EntryOf(m[1])[2] = "left" /\ EntryOf(m[2])[2] = "right"
  <2>1. Sent(out, p, m)
    BY <1>4
  <2>2. IsPair(sent, chan, m)
    BY <1>3, <2>1 DEF Sent, Couples
  <2> QED
    BY <2>2 DEF IsPair, EntryOf
<1>9. OnceEach(o)
  <2>1. \A i, j \in DOMAIN out : out[i] = out[j] => i = j
    BY <1>3 DEF Couples
  <2>2. ASSUME NEW i \in DOMAIN out, NEW m \in ToSet(p) PROVE out[i].msg # m
    <3>1. PICK j \in 1..Len(p) : p[j] = m
      BY <1>7, <2>2 DEF ToSet
    <3> QED
      BY <1>3, <3>1 DEF Couples
  <2>3. {x.msg : x \in ToSet(out)} \cap ToSet(p) = {}
    <3>1. ASSUME NEW x \in ToSet(out) PROVE \E i \in DOMAIN out : out[i] = x
      BY <3>1, Zenon DEF ToSet
    <3> QED
      BY <2>2, <3>1
  <2> QED
    BY <1>5, <2>1, <2>3 DEF OnceEach, p
<1>10. ASSUME NEW i \in DOMAIN taken[o], NEW j \in DOMAIN taken[o],
              Mates(program[o].size, taken[o][i], taken[o][j])
       PROVE  taken[o][i].msg \o taken[o][j].msg \in Emitted(o)
  <2>1. i \in 1..Len(k) /\ j \in 1..Len(k) /\ Mates(size, k[i], k[j])
    BY <1>6, <1>10 DEF k, size
  <2>2. Sent(out, p, k[i].msg \o k[j].msg)
    BY <1>3, <2>1 DEF Complete
  <2> QED
    BY <1>4, <2>2 DEF k
<1>11. \A i, j \in DOMAIN taken[o] :
         LET l == taken[o][i]  r == taken[o][j] IN
         /\ l.port = "left" /\ r.port = "right" /\ Class(l.msg) = Class(r.msg)
         /\ Age(l.t, r) <= program[o].size /\ Age(r.t, l) <= program[o].size
         => l.msg \o r.msg \in Emitted(o)
  BY <1>10 DEF Mates
<1> QED
  BY <1>2, <1>8, <1>9, <1>11 DEF JoinIsComplete

(* Every join of the program runs alone. *)
LoneJoin == \A o \in Ops : Kind(o) = "join" => Lone(o)

(* A join that runs alone, between those who emit and the service at its     *)
(* end, emits every pair of a left and a right event of one key that came    *)
(* within the window in one life of it, in whichever order; nothing but pairs*)
(* of one key; and none twice, panics and restarts or not.                   *)
THEOREM JoinsCompletely == Spec /\ LoneJoin => []JoinIsComplete
<1> DEFINE I == (\E o : JoinInv(o)) \/ (\A o \in Ops : Kind(o) # "join")
<1>1. Init /\ LoneJoin => I
  <2> SUFFICES ASSUME Init, LoneJoin, NEW o \in Ops, Kind(o) = "join"
               PROVE  JoinInv(o)
    OBVIOUS
  <2> QED
    BY JoinInit DEF LoneJoin
<1>2. I /\ [Next]_vars => I'
  <2>1. ASSUME NEW o, JoinInv(o), [Next]_vars PROVE JoinInv(o)'
    BY <2>1, JoinKept
  <2>2. ASSUME \A o \in Ops : Kind(o) # "join", [Next]_vars
        PROVE  (\A o \in Ops : Kind(o) # "join")'
    <3>1. UNCHANGED program
      <4>1. CASE Next
        BY <4>1 DEF Next, Emit, Second, Step, Begin, Send, SendInParallel, Restart, Tick, Receive,
                    SendPanics, RunnerPanics, RunnerReturns, ReceivePanics
      <4> QED
        BY <2>2, <4>1 DEF vars
    <3> QED
      BY <2>2, <3>1 DEF Ops, Kind
  <2> QED
    BY <2>1, <2>2
<1>3. I => JoinIsComplete
  <2>1. (\A o \in Ops : Kind(o) # "join") => JoinIsComplete
    BY DEF JoinIsComplete
  <2> QED
    BY <2>1, JoinSays
<1> HIDE DEF I
<1> QED
  BY <1>1, <1>2, <1>3, PTL DEF Spec
=============================================================================
