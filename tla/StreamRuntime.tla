--------------------------- MODULE StreamRuntime ---------------------------
(* A generated program while it runs: the stream operators that              *)
(* backend/src/templates/builtins/stream.rs emits, and supervise of          *)
(* backend/src/codegen/bootstrap.rs, which restarts them.                    *)
(*                                                                           *)
(* Every operator is a task with channels of its own. The channels are       *)
(* statics: a panic of the task loses what the task holds and not what waits *)
(* for it, and no receive ever ends. An output port feeds one edge, so an    *)
(* operator has one target, which it waits for when its channel is full.     *)
EXTENDS Naturals, Sequences, FiniteSets, SequencesExt, Lists, TLC

CONSTANTS
  Programs,     \* what may run, see Program
  Classes,      \* what predicates and keys tell apart of an event; "a" and "b" among them
  Cap,          \* room in a channel, 1024 in the code
  MaxBackoff,   \* 60 seconds in the code
  MaxEvents, MaxPanics, MaxTime     \* bounds of a behaviour

VARIABLES
  program,      \* operator -> [kind, par, size, to]: see Program
  chan,         \* <<operator, port>> -> the messages that wait there
  task,         \* operator -> its task, see Fresh
  fly,          \* operator -> messages in tasks of their own (parallel)
  now,          \* seconds
  panics,
  sent,         \* every event, with the channel it was sent into
  out,          \* what came out at the end, in order: [from, msg]
  taken         \* what a join or a pattern received since it started: [msg, port, t]

vars == <<program, chan, task, fly, now, panics, sent, out, taken>>

(* A program gives each operator its kind, whether it is parallel, its       *)
(* window (events or seconds) and the channel its output is wired to, Sink   *)
(* for a service or a connector. A message is the sequence of the events     *)
(* that went into it.                                                        *)
Sink == <<"sink", "input">>
Ops == DOMAIN program
Kind(o) == program[o].kind
Ports(kind) ==
    CASE kind = "union" -> {"input1", "input2"}
      [] kind = "join" -> {"left", "right"}
      [] kind = "runner" -> {}
      [] OTHER -> {"input"}
Channels(p) == UNION {{o} \X Ports(p[o].kind) : o \in DOMAIN p}

ASSUME StreamAssumption ==
    /\ Cap \in Nat \ {0} /\ MaxBackoff \in Nat \ {0}
    /\ MaxEvents \in Nat /\ MaxPanics \in Nat /\ MaxTime \in Nat
    /\ \A p \in Programs : \A o \in DOMAIN p : p[o].to \in Channels(p) \cup {Sink}

Sources == {c \in Channels(program) : \A o \in Ops : program[o].to # c}

TimeWindow(kind) == kind \in {"tumbling_time", "sliding_time"}
ReadsClock(kind) == kind = "join" \/ TimeWindow(kind)
Timed(kind) == ReadsClock(kind) \/ kind = "pattern"

(* A task: where its loop is, what it has to send, its buffers, the clock at *)
(* the head of its loop, its interval, and the supervisor's backoff. A loop  *)
(* that reads the clock first is at "top" before it waits.                   *)
Top(kind) == IF ReadsClock(kind) THEN "top" ELSE "wait"
Fresh(kind, t, backoff) ==
    [at |-> Top(kind), pend |-> <<>>, buf |-> <<>>,
     mark |-> IF Timed(kind) THEN t ELSE 0, due |-> IF TimeWindow(kind) THEN t ELSE 0,
     until |-> 0, backoff |-> backoff]

Init ==
    /\ program \in Programs
    /\ chan = [c \in Channels(program) |-> <<>>]
    /\ task = [o \in Ops |-> Fresh(Kind(o), 0, 1)]
    /\ fly = [o \in Ops |-> {}]
    /\ now = 0 /\ panics = 0
    /\ sent = <<>> /\ out = <<>>
    /\ taken = [o \in Ops |-> <<>>]
-----------------------------------------------------------------------------
(* What an operator makes of a message: the messages it sends and its next   *)
(* buffer. An entry of a buffer is [t, port, msg].                           *)

Class(m) == m[1].class
Passes(m) == Class(m) = "a"
Age(t, entry) == IF t >= entry.t THEN t - entry.t ELSE 0        \* duration_since saturates

(* Mutant: what is as old as the window is out of it. *)
Recent_Strict(buf, t, size) == Those(buf, {x \in ToSet(buf) : Age(t, x) < size})

Recent(buf, t, size) == Those(buf, {x \in ToSet(buf) : Age(t, x) <= size})
Events(buf) == FlattenSeq([i \in DOMAIN buf |-> buf[i].msg])

Entry(port, m) == [t |-> now, port |-> port, msg |-> m]
Untimed(port, m) == [t |-> 0, port |-> port, msg |-> m]

Forward(o, buf, port, m) ==
    [send |-> IF Kind(o) = "filter" /\ ~Passes(m) THEN <<>> ELSE <<m>>, buf |-> buf]

(* The other side's entries with the key, as they were after the pruning at  *)
(* the head of the loop.                                                     *)
Join(o, buf, port, m) ==
    LET mates == Those(buf, {x \in ToSet(buf) : x.port # port /\ Class(x.msg) = Class(m)})
        pair(x) == IF port = "left" THEN m \o x.msg ELSE x.msg \o m
    IN  [send |-> [i \in DOMAIN mates |-> pair(mates[i])], buf |-> Append(buf, Entry(port, m))]

(* Mutant: a tumbling window is cut like a sliding one. *)
CountWindow_Slides(o, buf, port, m) ==
    LET all == Append(buf, Untimed(port, m)) IN
    IF Len(all) < program[o].size THEN [send |-> <<>>, buf |-> all]
    ELSE [send |-> <<Events(all)>>, buf |-> IF Len(all) > program[o].size THEN Tail(all) ELSE all]

CountWindow(o, buf, port, m) ==
    LET all == Append(buf, Untimed(port, m)) IN
    IF Len(all) < program[o].size THEN [send |-> <<>>, buf |-> all]
    ELSE [send |-> <<Events(all)>>,
          buf |-> CASE Kind(o) = "tumbling" -> <<>>
                    [] Kind(o) = "sliding" /\ Len(all) > program[o].size -> Tail(all)
                    [] OTHER -> all]

(* Mutant: a match does not use up its A. *)
Pattern_Reuses(o, buf, port, m) ==
    LET active == Recent(buf, now, program[o].size) IN
    CASE Class(m) = "a" -> [send |-> <<>>, buf |-> <<Entry(port, m)>>]
      [] Class(m) = "b" /\ active # <<>> -> [send |-> <<active[1].msg \o m>>, buf |-> active]
      [] OTHER -> [send |-> <<>>, buf |-> active]

(* A sequence A then B: an A replaces the one before, a B uses it up.        *)
Pattern(o, buf, port, m) ==
    LET active == Recent(buf, now, program[o].size) IN
    CASE Class(m) = "a" -> [send |-> <<>>, buf |-> <<Entry(port, m)>>]
      [] Class(m) = "b" /\ active # <<>> -> [send |-> <<active[1].msg \o m>>, buf |-> <<>>]
      [] OTHER -> [send |-> <<>>, buf |-> active]

Buffer(o, buf, port, m) == [send |-> <<>>, buf |-> Append(buf, Entry(port, m))]

Process(o, buf, port, m) ==
    CASE Kind(o) = "join" -> Join(o, buf, port, m)
      [] Kind(o) \in {"tumbling", "sliding"} -> CountWindow(o, buf, port, m)
      [] Kind(o) = "pattern" -> Pattern(o, buf, port, m)
      [] TimeWindow(Kind(o)) -> Buffer(o, buf, port, m)
      [] OTHER -> Forward(o, buf, port, m)

After(o, send) == IF send = <<>> THEN Top(Kind(o)) ELSE "send"
-----------------------------------------------------------------------------
(* send of a channel awaits room in it; a service or connector takes it.     *)
HasRoom(o) == program[o].to # Sink => Len(chan[program[o].to]) < Cap
Deliver(o, m) ==
    IF program[o].to = Sink
    THEN out' = Append(out, [from |-> o, msg |-> m]) /\ UNCHANGED chan
    ELSE chan' = [chan EXCEPT ![program[o].to] = Append(@, m)] /\ UNCHANGED out

(* A handler, a consumer or a scheduler sends an event to an operator.       *)
Emit ==
    /\ Len(sent) < MaxEvents
    /\ \E c \in Sources, class \in Classes :
         LET e == [n |-> Len(sent) + 1, class |-> class] IN
         /\ Len(chan[c]) < Cap
         /\ chan' = [chan EXCEPT ![c] = Append(@, <<e>>)]
         /\ sent' = Append(sent, [e |-> e, c |-> c])
    /\ UNCHANGED <<program, task, fly, now, panics, out, taken>>

(* The head of a loop that reads the clock: a join forgets what is old.      *)
Begin(o) ==
    /\ task[o].at = "top"
    /\ task' = [task EXCEPT ![o].at = "wait", ![o].mark = now,
                  ![o].buf = IF Kind(o) = "join" THEN Recent(@, now, program[o].size) ELSE @]
    /\ UNCHANGED <<program, chan, fly, now, panics, sent, out, taken>>

(* Mutant: every message is processed in a task of its own. *)
Receive_Spawns(o, port) ==
    LET r == Process(o, task[o].buf, port, Head(chan[<<o, port>>])) IN
    /\ task[o].at = "wait" /\ chan[<<o, port>>] # <<>>
    /\ chan' = [chan EXCEPT ![<<o, port>>] = Tail(@)]
    /\ fly' = [fly EXCEPT ![o] = @ \cup ToSet(r.send)]
    /\ UNCHANGED <<program, task, now, panics, sent, out, taken>>

Receive(o, port) ==
    LET r == Process(o, task[o].buf, port, Head(chan[<<o, port>>])) IN
    /\ task[o].at = "wait" /\ chan[<<o, port>>] # <<>>
    /\ chan' = [chan EXCEPT ![<<o, port>>] = Tail(@)]
    /\ taken' = [taken EXCEPT ![o] = IF Kind(o) \in {"join", "pattern"}
                                       THEN Append(@, Entry(port, Head(chan[<<o, port>>]))) ELSE @]
    /\ IF program[o].par
       THEN /\ fly' = [fly EXCEPT ![o] = @ \cup ToSet(r.send)]
            /\ UNCHANGED task
       ELSE /\ task' = [task EXCEPT ![o].at = After(o, r.send), ![o].pend = r.send, ![o].buf = r.buf]
            /\ UNCHANGED fly
    /\ UNCHANGED <<program, now, panics, sent, out>>

(* The interval of a time window, one second whatever its size. It looks at  *)
(* its buffer as of the head of the loop; a tumbling window drops all of it. *)
Tick(o) ==
    LET active == Recent(task[o].buf, task[o].mark, program[o].size)
        send == IF active = <<>> THEN <<>> ELSE <<Events(active)>>
    IN
    /\ TimeWindow(Kind(o)) /\ task[o].at = "wait" /\ now >= task[o].due
    /\ task' = [task EXCEPT ![o].at = After(o, send), ![o].pend = send, ![o].due = @ + 1,
                  ![o].buf = IF Kind(o) = "tumbling_time" THEN <<>> ELSE active]
    /\ UNCHANGED <<program, chan, fly, now, panics, sent, out, taken>>

Send(o) ==
    /\ task[o].at = "send" /\ HasRoom(o)
    /\ Deliver(o, Head(task[o].pend))
    /\ task' = [task EXCEPT ![o].at = After(o, Tail(task[o].pend)),
                  ![o].pend = Tail(task[o].pend)]
    /\ UNCHANGED <<program, fly, now, panics, sent, taken>>

SendInParallel(o) ==
    /\ HasRoom(o)
    /\ \E m \in fly[o] : Deliver(o, m) /\ fly' = [fly EXCEPT ![o] = @ \ {m}]
    /\ UNCHANGED <<program, task, now, panics, sent, taken>>

(* The task of o ends in a panic: what it holds is lost, and supervise       *)
(* sleeps.                                                                   *)
Twice(seconds) == IF 2 * seconds < MaxBackoff THEN 2 * seconds ELSE MaxBackoff
MayPanic(o) == panics < MaxPanics /\ now + task[o].backoff <= MaxTime
Down(o) ==
    /\ task' = [task EXCEPT ![o] = [Fresh(Kind(o), now, Twice(@.backoff)) EXCEPT
                                      !.at = "down", !.until = now + task[o].backoff]]
    /\ taken' = [taken EXCEPT ![o] = <<>>]

(* Mutant: the channel belongs to the task and goes with it. *)
ReceivePanics_OwnChannel(o, port) ==
    /\ task[o].at = "wait" /\ chan[<<o, port>>] # <<>>
    /\ Kind(o) # "union" /\ ~TimeWindow(Kind(o)) /\ MayPanic(o)
    /\ chan' = [chan EXCEPT ![<<o, port>>] = <<>>]
    /\ IF program[o].par THEN UNCHANGED <<task, taken>> ELSE Down(o)
    /\ panics' = panics + 1
    /\ UNCHANGED <<program, fly, now, sent, out>>

(* An expression of the user panics on a message that was received. In a     *)
(* parallel operator that is a task nobody watches.                          *)
ReceivePanics(o, port) ==
    /\ task[o].at = "wait" /\ chan[<<o, port>>] # <<>>
    /\ Kind(o) # "union" /\ ~TimeWindow(Kind(o)) /\ MayPanic(o)
    /\ chan' = [chan EXCEPT ![<<o, port>>] = Tail(@)]
    /\ IF program[o].par THEN UNCHANGED <<task, taken>> ELSE Down(o)
    /\ panics' = panics + 1
    /\ UNCHANGED <<program, fly, now, sent, out>>

(* The service or connector at the end panics, or an expression of the user  *)
(* on what was buffered.                                                     *)
SendPanics(o) ==
    /\ program[o].to = Sink \/ ReadsClock(Kind(o))
    /\ MayPanic(o)
    /\ \/ task[o].at = "send" /\ Down(o) /\ UNCHANGED fly
       \/ /\ \E m \in fly[o] : fly' = [fly EXCEPT ![o] = @ \ {m}]
          /\ UNCHANGED <<task, taken>>
    /\ panics' = panics + 1
    /\ UNCHANGED <<program, chan, now, sent, out>>

(* A task that is no operator, like a server that cannot bind: it panics, or *)
(* it returns and is started again at once.                                  *)
RunnerPanics(o) ==
    /\ Kind(o) = "runner" /\ task[o].at = "wait" /\ MayPanic(o)
    /\ Down(o)
    /\ panics' = panics + 1
    /\ UNCHANGED <<program, chan, fly, now, sent, out>>

RunnerReturns(o) ==
    /\ Kind(o) = "runner" /\ task[o].at = "wait"
    /\ task' = [task EXCEPT ![o] = Fresh("runner", now, 1)]
    /\ UNCHANGED <<program, chan, fly, now, panics, sent, out, taken>>

(* Mutant: a task whose backoff is at its limit is given up. *)
Restart_GivesUp(o) ==
    /\ task[o].at = "down" /\ now >= task[o].until /\ task[o].backoff < MaxBackoff
    /\ task' = [task EXCEPT ![o] = Fresh(Kind(o), now, @.backoff)]
    /\ UNCHANGED <<program, chan, fly, now, panics, sent, out, taken>>

Restart(o) ==
    /\ task[o].at = "down" /\ now >= task[o].until
    /\ task' = [task EXCEPT ![o] = Fresh(Kind(o), now, @.backoff)]
    /\ UNCHANGED <<program, chan, fly, now, panics, sent, out, taken>>

(* The clock, which only matters to those who look at it.                    *)
Second ==
    /\ \E o \in Ops : Timed(Kind(o)) \/ task[o].at = "down"
    /\ now < MaxTime /\ now' = now + 1
    /\ UNCHANGED <<program, chan, task, fly, panics, sent, out, taken>>

Step(o) ==
    \/ Begin(o) \/ Send(o) \/ SendInParallel(o) \/ Restart(o) \/ Tick(o)
    \/ \E port \in Ports(Kind(o)) : Receive(o, port)

Next ==
    \/ Emit \/ Second
    \/ \E o \in Ops :
         \/ Step(o) \/ SendPanics(o) \/ RunnerPanics(o) \/ RunnerReturns(o)
         \/ \E port \in Ports(Kind(o)) : ReceivePanics(o, port)

Spec == Init /\ [][Next]_vars

(* The runtime runs every task that can go on, services return, the clock    *)
(* goes on, and supervise wakes up. Nothing has to be emitted or to panic.   *)
AllOps == UNION {DOMAIN p : p \in Programs}
FairSpec ==
    /\ Spec
    /\ \A o \in AllOps : WF_vars(o \in Ops /\ Step(o))
    /\ WF_vars(Second)
-----------------------------------------------------------------------------
(* Properties.                                                               *)

SentEvents == {sent[i].e : i \in DOMAIN sent}
Kinds == {Kind(o) : o \in Ops}
Passing == Kinds \subseteq {"filter", "map", "union"}
Counting == Kinds \cap {"tumbling", "sliding"} # {}
Parallel == \E o \in Ops : program[o].par
Results(o) == Those(out, {x \in ToSet(out) : x.from = o})
EntryOf(e) == sent[e.n].c

(* Through filters, maps and unions every event comes out at most once, and  *)
(* those that went in by one channel come out in their order, panics and     *)
(* restarts or not. A parallel operator gives up the order only.             *)
InOrderOnce ==
    Passing =>
      \A i, j \in DOMAIN out : i < j =>
        /\ out[i].msg # out[j].msg
        /\ ~Parallel /\ EntryOf(out[i].msg[1]) = EntryOf(out[j].msg[1]) =>
             out[i].msg[1].n < out[j].msg[1].n

(* A panic loses what the task held, and nothing that waits in a channel     *)
(* (features.md 220): one event, or what was in the window. Everything else  *)
(* that was sent is somewhere, but for what a filter drops.                  *)
Messages ==
    (UNION {ToSet(chan[c]) : c \in DOMAIN chan})
      \cup (UNION {ToSet(task[o].pend) \cup fly[o] \cup {x.msg : x \in ToSet(task[o].buf)} : o \in Ops})
      \cup {x.msg : x \in ToSet(out)}
Dropped(e) == "filter" \in Kinds /\ e.class # "a"
Lost == {e \in SentEvents : ~Dropped(e) /\ \A m \in Messages : e \notin ToSet(m)}
MostHeld == Max({1} \cup {program[o].size : o \in {x \in Ops : Kind(x) \in {"tumbling", "sliding"}}})
LossBounded == Passing \/ Counting => Cardinality(Lost) <= panics * MostHeld

(* Windows go forward: each is a run of events without a gap; tumbling ones  *)
(* do not overlap, sliding ones never go back. A tumbling one that counts    *)
(* has as many events as configured, always. A sliding one has so many only  *)
(* when no earlier one reaches into it, that is when it is the first of a    *)
(* life of its task; every other has exactly one more, because the buffer is *)
(* aggregated before it is cut (stream.rs 891-898). This goes against        *)
(* ROADMAP_CEP.md:107, "Fixed-size, overlapping buckets", and the "Count     *)
(* threshold" of stream.rs:815, and is the only exception.                   *)
First(m) == m[1].n
Final(m) == m[Len(m)].n
ReachesInto(w, m) == Final(w) \in First(m)..(Final(m) - 1)
WindowsAdvance ==
    \A i \in DOMAIN out :
      LET m == out[i].msg  p == program[out[i].from] IN
      p.kind \in {"tumbling", "sliding", "tumbling_time", "sliding_time"} =>
        /\ \A k \in 1..Len(m) : m[k].n = First(m) + k - 1
        /\ p.kind = "tumbling" => Len(m) = p.size
        /\ p.kind = "sliding" =>
             Len(m) = IF \E j \in DOMAIN out : ReachesInto(out[j].msg, m) THEN p.size + 1 ELSE p.size
        /\ \A j \in 1..i - 1 :
             /\ First(out[j].msg) <= First(m) /\ Final(out[j].msg) <= Final(m)
             /\ p.kind \in {"tumbling", "tumbling_time"} => Final(out[j].msg) < First(m)

Emitted(o) == {x.msg : x \in ToSet(Results(o))} \cup ToSet(task[o].pend)
OnceEach(o) ==
    /\ \A i, j \in DOMAIN Results(o) : Results(o)[i] = Results(o)[j] => i = j
    /\ {x.msg : x \in ToSet(Results(o))} \cap ToSet(task[o].pend) = {}

(* A join emits every pair of a left and a right event of one key that it    *)
(* received in one life and within the window, once, whichever came first;   *)
(* and no pair twice.                                                        *)
JoinIsComplete ==
    \A o \in Ops : Kind(o) = "join" =>
      /\ OnceEach(o)
      /\ \A m \in Emitted(o) :
           m[1].class = m[2].class /\ EntryOf(m[1])[2] = "left" /\ EntryOf(m[2])[2] = "right"
      /\ \A i, j \in DOMAIN taken[o] :
           LET l == taken[o][i]  r == taken[o][j] IN
           /\ l.port = "left" /\ r.port = "right" /\ Class(l.msg) = Class(r.msg)
           /\ Age(l.t, r) <= program[o].size /\ Age(r.t, l) <= program[o].size
           => l.msg \o r.msg \in Emitted(o)

(* A match is an A and a later B with no A between them, within the window;  *)
(* no event is in two. An A and the B that follows it next, within the       *)
(* window, are a match.                                                      *)
PatternIsExact ==
    \A o \in Ops : Kind(o) = "pattern" =>
      /\ \A m \in Emitted(o) :
           /\ m[1].class = "a" /\ m[2].class = "b" /\ First(m) < Final(m)
           /\ \A e \in SentEvents : e.n > First(m) /\ e.n < Final(m) => e.class # "a"
           /\ \A w \in Emitted(o) : w # m => ToSet(w) \cap ToSet(m) = {}
           /\ \A x, y \in ToSet(taken[o]) : x.msg \o y.msg = m => y.t - x.t <= program[o].size
      /\ OnceEach(o)
      /\ \A i \in 1..Len(taken[o]) - 1 :
           LET x == taken[o][i]  y == taken[o][i + 1] IN
           Class(x.msg) = "a" /\ Class(y.msg) = "b" /\ y.t - x.t <= program[o].size
             => x.msg \o y.msg \in Emitted(o)

(* Every event is consumed in the end and every task comes back: no operator *)
(* waits forever for a full channel, holds on to an output or stays down,    *)
(* however often tasks panicked. (The programs have no feedback: a circle of *)
(* operators can fill up.)                                                   *)
Drained ==
    <>[](/\ \A c \in DOMAIN chan : chan[c] = <<>>
         /\ \A o \in Ops : task[o].at # "down" /\ task[o].pend = <<>> /\ fly[o] = {})
=============================================================================
