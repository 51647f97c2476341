---------------------------- MODULE StreamAlone ----------------------------
(* An operator of StreamRuntime that runs alone, and a window that does: what*)
(* holds of its state between two steps. StreamRuntimeProofs shows that it   *)
(* does, and what follows.                                                   *)
EXTENDS StreamRuntime

Event  == [n : Nat, class : Classes]
Single == {<<e>> : e \in Event}

(* One window, pattern or join alone, between those who emit and the service *)
(* at its end: what the properties of these say. (A trigger value of 0, which*)
(* the template accepts, closes a window at each event, with that one in it.)*)
Lone(o) ==
    /\ program \in Programs
    /\ Ops = {o} /\ ~program[o].par /\ program[o].to = Sink /\ program[o].size \in Nat
    /\ Kind(o) \in {"tumbling", "sliding"} => program[o].size # 0

Windows == {"tumbling", "sliding", "tumbling_time", "sliding_time"}
Solo == Windows \cup {"pattern", "join"}
Stored == [t : Nat, port : {"input", "left", "right"}, msg : Single]
Works ==
    [at : {"top", "wait", "send", "down"}, pend : Seq(Seq(Event)), buf : Seq(Stored),
     mark : Nat, due : Nat, until : Nat, backoff : Nat]
Busy(w) == w.at = "send" <=> w.pend # <<>>

LoneType(o) ==
    /\ Lone(o) /\ Kind(o) \in Solo
    /\ chan \in [Channels(program) -> Seq(Single)]
    /\ task \in [{o} -> Works] /\ Busy(task[o])
    /\ fly \in [{o} -> {{}}]
    /\ now \in Nat /\ panics \in Nat
    /\ sent \in Seq([e : Event, c : Channels(program)])
    /\ \A i \in DOMAIN sent : sent[i].e.n = i
    /\ out \in Seq([from : {o}, msg : Seq(Event)])
    /\ taken \in [{o} -> Seq(Stored)]

-----------------------------------------------------------------------------
(* A window alone. The events are numbered as they were sent; se is what was *)
(* sent, r of it has been received, q waits in the channel, b is the buffer, *)
(* t the clock, p what there is to send, ou what came out.                   *)
Numbered(se) == (\A i \in DOMAIN se : se[i].e \in Event /\ se[i].e.n = i) /\ Len(se) \in Nat
                /\ DOMAIN se = 1..Len(se)

(* m are the events from number a on. *)
From(se, m, a) ==
    /\ m \in Seq(Event) /\ a \in Nat \ {0} /\ a + Len(m) <= Len(se) + 1
    /\ \A k \in 1..Len(m) : m[k] = se[(a + k) - 1].e

Tumbles(kind) == kind \in {"tumbling", "tumbling_time"}
Sized(kind, size, m) ==
    /\ kind = "tumbling" => Len(m) = size
    /\ kind = "sliding" => Len(m) = size \/ Len(m) = size + 1
IsWindow(kind, size, se, m) == Len(m) \in Nat \ {0} /\ From(se, m, First(m)) /\ Sized(kind, size, m)
Precedes(kind, m, w) ==
    /\ First(m) <= First(w) /\ Final(m) <= Final(w)
    /\ Tumbles(kind) => Final(m) < First(w)

(* What is out does not reach beyond the start of the buffer, if windows do  *)
(* not overlap, and never beyond what was received.                          *)
Trails(kind, m, r, n) ==
    /\ First(m) <= (r - n) + 1 /\ Final(m) <= r
    /\ Tumbles(kind) => Final(m) <= r - n

Waits(se, q, r) ==
    /\ q \in Seq(Single) /\ r \in Nat /\ r + Len(q) = Len(se)
    /\ \A i \in 1..Len(q) : q[i] = <<se[r + i].e>>
Buffered(se, b, r) ==
    /\ b \in Seq(Stored) /\ Len(b) <= r
    /\ \A i \in 1..Len(b) : b[i].msg = <<se[(r - Len(b)) + i].e>>
Sorted(b, t) ==
    /\ \A i \in 1..Len(b) : b[i].t <= t
    /\ \A i, j \in 1..Len(b) : i <= j => b[i].t <= b[j].t

OutInOrder(kind, size, se, ou, r, n) ==
    /\ \A i \in DOMAIN ou : IsWindow(kind, size, se, ou[i].msg) /\ Trails(kind, ou[i].msg, r, n)
    /\ \A i, j \in DOMAIN ou : j < i => Precedes(kind, ou[j].msg, ou[i].msg)
NextUp(kind, size, se, p, ou, r, n) ==
    p # <<>> =>
      /\ p = <<p[1]>> /\ IsWindow(kind, size, se, p[1]) /\ Trails(kind, p[1], r, 0)
      /\ First(p[1]) <= (r - n) + 1 /\ (Tumbles(kind) => n = 0)
      /\ \A i \in DOMAIN ou : Precedes(kind, ou[i].msg, p[1])

Going(kind, size, se, q, b, t, p, ou, r) ==
    /\ Numbered(se) /\ Waits(se, q, r) /\ Buffered(se, b, r)
    /\ TimeWindow(kind) => Sorted(b, t)
    /\ OutInOrder(kind, size, se, ou, r, Len(b)) /\ NextUp(kind, size, se, p, ou, r, Len(b))

(* What a window that counts holds between two messages. *)
Room(kind, size, b) ==
    /\ kind = "tumbling" => Len(b) < size
    /\ kind = "sliding" => Len(b) <= size

(* So it is with the values of the state. *)
Inlet(o) == <<o, "input">>
Flow(o) ==
    /\ Going(Kind(o), program[o].size, sent, chan[Inlet(o)], task[o].buf, now, task[o].pend, out,
             Len(sent) - Len(chan[Inlet(o)]))
    /\ Room(Kind(o), program[o].size, task[o].buf)

(* The length of a sliding window that counts tells whether an earlier one   *)
(* reaches into it: none does as long as the buffer fills, and when it is    *)
(* full the last one was of what was received last.                          *)
Shown(ou, p) == {ou[i].msg : i \in DOMAIN ou} \cup ToSet(p)
Exact(size, S) ==
    \A m \in S : Len(m) = IF \E w \in S : ReachesInto(w, m) THEN size + 1 ELSE size
Tight(size, n, S, r) ==
    /\ Exact(size, S)
    /\ \A m \in S : /\ First(m) \in Nat /\ Final(m) \in Nat /\ Final(m) <= r
                    /\ n < size => Final(m) <= r - n
    /\ n = size => \E w \in S : Final(w) = r
Tidy(o) ==
    Kind(o) = "sliding" =>
      Tight(program[o].size, Len(task[o].buf), Shown(out, task[o].pend), Len(sent) - Len(chan[Inlet(o)]))
WindowInv(o) == LoneType(o) /\ Kind(o) \in Windows /\ Flow(o) /\ Tidy(o)

(* Steps of these values: one event more is sent, and of a buffer a only its *)
(* end stays.                                                                *)
Grown(se, s2, e) ==
    /\ Numbered(se) /\ Numbered(s2) /\ Len(s2) = Len(se) + 1
    /\ (\A i \in 1..Len(se) : s2[i] = se[i]) /\ s2[Len(se) + 1].e = e
EndOf(b, a, k) ==
    /\ k \in 0..Len(a) /\ b \in Seq(Stored) /\ Len(b) = Len(a) - k
    /\ \A i \in 1..Len(b) : b[i] = a[k + i]

-----------------------------------------------------------------------------
(* What a panic loses. An event is somewhere: q waits in the channel, p is   *)
(* what there is to send, b the buffer, ou what came out.                    *)
Has(q, p, b, ou, e) ==
    \/ \E i \in 1..Len(q) : q[i] = <<e>>
    \/ \E i \in 1..Len(p) : \E k \in 1..Len(p[i]) : p[i][k] = e
    \/ \E i \in 1..Len(b) : b[i].msg = <<e>>
    \/ \E i \in DOMAIN ou : \E k \in 1..Len(ou[i].msg) : ou[i].msg[k] = e
Seen(ou, e) == \E i \in DOMAIN ou : \E k \in 1..Len(ou[i].msg) : ou[i].msg[k] = e

(* A sliding window that is full has sent what it holds, or is sending it. *)
Slid(kind, size, p, b, ou) ==
    kind = "sliding" =>
      /\ p = <<>> /\ Len(b) = size => \A i \in 1..Len(b) : Seen(ou, b[i].msg[1])
      /\ p # <<>> => /\ Len(b) = size
                     /\ \A i \in 1..Len(b) : \E k \in 1..Len(p[1]) : p[1][k] = b[i].msg[1]
                     /\ Len(p[1]) # size => \A k \in 1..(Len(p[1]) - 1) : Seen(ou, p[1][k])

-----------------------------------------------------------------------------
(* A pattern alone. Of what was sent, se, r has been received: m is a match  *)
(* in it when it is an A and a later B with no A between them.               *)
IsMatch(se, m, r) ==
    /\ m = <<m[1], m[2]>> /\ m[1] \in Event /\ m[2] \in Event
    /\ m[1].n \in 1..r /\ m[2].n \in 1..r /\ m[1].n < m[2].n
    /\ m[1] = se[m[1].n].e /\ m[2] = se[m[2].n].e
    /\ m[1].class = "a" /\ m[2].class = "b"
    /\ \A n \in 1..r : m[1].n < n /\ n < m[2].n => se[n].e.class # "a"

(* b holds the last A that was received, unless it was used up or forgotten. *)
HoldsA(se, b, r) ==
    b # <<>> =>
      /\ b = <<b[1]>> /\ b[1] \in Stored
      /\ b[1].msg[1].n \in 1..r /\ b[1].msg = <<se[b[1].msg[1].n].e>>
      /\ b[1].msg[1].class = "a"
      /\ \A n \in 1..r : b[1].msg[1].n < n => se[n].e.class # "a"

(* The matches that came out are in order, and what is held is later. *)
After2(ou, n) == \A i \in DOMAIN ou : ou[i].msg[2].n < n
MatchesOut(se, ou, r) ==
    /\ \A i \in DOMAIN ou : IsMatch(se, ou[i].msg, r)
    /\ \A i, j \in DOMAIN ou : i < j => ou[i].msg[2].n < ou[j].msg[1].n
MatchNext(se, b, p, ou, r) ==
    /\ p # <<>> => /\ p = <<p[1]>> /\ IsMatch(se, p[1], r) /\ After2(ou, p[1][1].n)
                   /\ b = <<>>
    /\ b # <<>> => After2(ou, b[1].msg[1].n)

(* m came out or is to be sent. *)
Sent(ou, p, m) == (\E i \in DOMAIN ou : ou[i].msg = m) \/ (\E i \in 1..Len(p) : p[i] = m)

(* k is what it received in this life: what it made of it. *)
PairsInTime(size, p, ou, k) ==
    \A i, j \in 1..Len(k) : Sent(ou, p, k[i].msg \o k[j].msg) => k[j].t - k[i].t <= size
AllMatched(size, p, ou, k) ==
    \A i \in 1..(Len(k) - 1) :
      /\ Class(k[i].msg) = "a" /\ Class(k[i + 1].msg) = "b" /\ k[i + 1].t - k[i].t <= size
      => Sent(ou, p, k[i].msg \o k[i + 1].msg)
LastA(b, k) ==
    /\ Len(k) # 0 /\ Class(k[Len(k)].msg) = "a" => b = <<k[Len(k)]>>
    /\ b # <<>> => \E i \in 1..Len(k) : b[1] = k[i]

Matching(size, se, q, b, t, p, ou, k, r) ==
    /\ Numbered(se) /\ Waits(se, q, r) /\ Buffered(se, k, r) /\ Sorted(k, t)
    /\ HoldsA(se, b, r) /\ MatchesOut(se, ou, r) /\ MatchNext(se, b, p, ou, r)
    /\ PairsInTime(size, p, ou, k) /\ AllMatched(size, p, ou, k) /\ LastA(b, k)

-----------------------------------------------------------------------------
(* A join alone. Event n of those that were sent, se, has left its channel,  *)
(* of ch.                                                                    *)
Used(se, ch, n) ==
    /\ n \in 1..Len(se)
    /\ \A i \in 1..Len(ch[se[n].c]) : n < ch[se[n].c][i][1].n

(* What waits in the channels was sent into them, in its order. *)
Awaits(se, ch) ==
    /\ \A n \in 1..Len(se) : se[n].c \in DOMAIN ch
    /\ \A c \in DOMAIN ch :
         /\ ch[c] \in Seq(Single)
         /\ \A i \in 1..Len(ch[c]) :
              /\ ch[c][i][1].n \in 1..Len(se) /\ ch[c][i] = <<se[ch[c][i][1].n].e>>
              /\ se[ch[c][i][1].n].c = c
         /\ \A i, j \in 1..Len(ch[c]) : i < j => ch[c][i][1].n < ch[c][j][1].n

(* An entry of the buffer, and a pair: both sides were received. *)
IsEntry(se, ch, y) ==
    /\ y \in Stored /\ y.msg = <<y.msg[1]>>
    /\ Used(se, ch, y.msg[1].n) /\ y.msg[1] = se[y.msg[1].n].e
    /\ y.port = se[y.msg[1].n].c[2]
IsPair(se, ch, m) ==
    /\ m = <<m[1], m[2]>> /\ m[1] \in Event /\ m[2] \in Event
    /\ Used(se, ch, m[1].n) /\ m[1] = se[m[1].n].e /\ se[m[1].n].c[2] = "left"
    /\ Used(se, ch, m[2].n) /\ m[2] = se[m[2].n].e /\ se[m[2].n].c[2] = "right"
    /\ m[1].class = m[2].class

(* The buffer, b, has no message twice. *)
Stock(se, ch, b) ==
    /\ b \in Seq(Stored)
    /\ \A i \in 1..Len(b) : IsEntry(se, ch, b[i])
    /\ \A i, j \in 1..Len(b) : b[i].msg = b[j].msg => i = j

(* What was received in this life, k, is in it, or was too old at mark, g. *)
History(size, se, ch, b, g, t, k) ==
    /\ k \in Seq(Stored)
    /\ \A i \in 1..Len(k) :
         /\ IsEntry(se, ch, k[i]) /\ k[i].t <= t
         /\ (\E j \in 1..Len(b) : b[j] = k[i]) \/ ~(Age(g, k[i]) <= size)

(* No pair came out twice, or will. *)
Couples(se, ch, p, ou) ==
    /\ \A i \in DOMAIN ou : IsPair(se, ch, ou[i].msg)
    /\ \A i \in 1..Len(p) : IsPair(se, ch, p[i])
    /\ \A i, j \in DOMAIN ou : ou[i].msg = ou[j].msg => i = j
    /\ \A i, j \in 1..Len(p) : p[i] = p[j] => i = j
    /\ \A i \in DOMAIN ou : \A j \in 1..Len(p) : ou[i].msg # p[j]

(* Every pair within the window does. *)
Mates(size, l, r) ==
    /\ l.port = "left" /\ r.port = "right" /\ Class(l.msg) = Class(r.msg)
    /\ Age(l.t, r) <= size /\ Age(r.t, l) <= size
Complete(size, p, ou, k) ==
    \A i, j \in 1..Len(k) : Mates(size, k[i], k[j]) => Sent(ou, p, k[i].msg \o k[j].msg)

Joining(size, se, ch, b, g, t, p, ou, k) ==
    /\ Numbered(se) /\ Awaits(se, ch) /\ g \in Nat /\ g <= t
    /\ Stock(se, ch, b) /\ History(size, se, ch, b, g, t, k)
    /\ Couples(se, ch, p, ou) /\ Complete(size, p, ou, k)

(* What was received stays so. *)
Lasts(se, ch, s2, h2) == \A n : Used(se, ch, n) => Used(s2, h2, n) /\ s2[n] = se[n]
=============================================================================
