------------------------------ MODULE Dataflow ------------------------------
(* backend/src/codegen/dataflow.rs: how a value that flows along an edge is  *)
(* passed on. A value is the output port of a node, <<node, port>>.          *)
EXTENDS Catalogue

Value(e) == <<e.s, e.sp>>
Values(g) == {Value(e) : e \in g.edges}
Uses(g, v) == {e \in g.edges : Value(e) = v}

(* mark_reachable: what can be reached from a node along the edges is the    *)
(* least set with the node that the edges do not leave.                      *)
Closed(g, S) == \A e \in g.edges : e.s \in S => e.d \in S
Places(g) == {n.id : n \in NodesOf(g)} \cup {e.s : e \in g.edges} \cup {e.d : e \in g.edges}
Reachable(g, id) == {x \in Places(g) : \A S \in SUBSET Places(g) : id \in S /\ Closed(g, S) => x \in S}

(* The roots of tasks: all routes are one task, "http"; a long-running node  *)
(* and a spawn have one each.                                                *)
TaskOf(n) == IF n.t.id = "http.route" THEN "http" ELSE n.id
StartsTask(n) ==
    \/ n.t.id \in {"http.route", "tokio.spawn", "tokio.spawn_blocking"}
    \/ RunsForever(n.t)

(* Mutant: a task is marked on its root and what the root feeds, no further. *)
NodeTasks_OneStep(g, id) ==
    {TaskOf(n) : n \in {m \in NodesOf(g) :
       StartsTask(m) /\ (m.id = id \/ \E e \in g.edges : e.s = m.id /\ e.d = id)}}

NodeTasks(g, id) == {TaskOf(n) : n \in {m \in NodesOf(g) : StartsTask(m) /\ id \in Reachable(g, m.id)}}

(* Cross-task: both ends have tasks, and none in common.                     *)
IsShared(g, v) ==
    \E e \in Uses(g, v) :
      /\ NodeTasks(g, e.s) # {} /\ NodeTasks(g, e.d) # {}
      /\ NodeTasks(g, e.s) \cap NodeTasks(g, e.d) = {}

(* The inference rules. mut says whether a consumer's config or port name    *)
(* asks for a mutable value.                                                 *)
BindingMode(shared, mut, uses) ==
    CASE shared -> IF mut THEN "ArcRwLockShared" ELSE "ArcShared"
      [] ~shared /\ uses > 1 -> IF mut THEN "ArcRwLockShared" ELSE "Borrow"
      [] OTHER -> "Move"

Analyze(g) ==
    [v \in Values(g) |-> [mut \in BOOLEAN |->
        BindingMode(IsShared(g, v), mut, Cardinality(Uses(g, v)))]]
=============================================================================
