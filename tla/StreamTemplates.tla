-------------------------- MODULE StreamTemplates --------------------------
(* The stream operators of backend/src/templates/builtins/stream.rs. Each    *)
(* owns a channel, is fed through the send functions of its module, and      *)
(* forwards to what its output port is wired to.                             *)
EXTENDS Templates

(* generate_downstream_calls. Stream operators are named by to_lowercase,    *)
(* everything else as the user wrote it; targets of other templates are      *)
(* dropped without a word.                                                   *)
ToStream(t, into, fn) ==
    [Call("output", t, "streams", fn, 1, "lower", "unknown") EXCEPT !.into = into]

DownstreamCalls ==
    {Call("output", "core.service", "services", OwnName, 1, "raw", "unknown"),
     Call("output", "integration.db_writer", "integrations", "execute", 1, "raw", "unknown"),
     Call("output", "custom.block", "functions", OwnName, 1, "raw", "unknown"),
     ToStream("stream.union", {"input1"}, "send1"), ToStream("stream.union", {"input2"}, "send2"),
     ToStream("stream.join", {"left"}, "send_left"),
     ToStream("stream.join", {"right"}, "send_right")}
    \cup {ToStream(t, {"input"}, "send") :
             t \in {"stream.filter", "stream.map", "stream.select", "stream.window",
                    "stream.pattern"}}

Operator(id, ins) ==
    [Template EXCEPT !.id = id, !.bridge = "LongRunner",
        !.ins = {Port(p, "any") : p \in ins}, !.outs = {Port("output", "any")},
        !.dir = "streams", !.accepts = Names, !.fn = "run", !.sends = {"send"},
        !.calls = DownstreamCalls]

StreamFilter == Operator("stream.filter", {"input"})
StreamMap == Operator("stream.map", {"input"})
StreamSelect == Operator("stream.select", {"input"})
StreamUnion ==
    [Operator("stream.union", {"input1", "input2"}) EXCEPT !.sends = {"send1", "send2"}]
StreamJoin ==
    [Operator("stream.join", {"left", "right"}) EXCEPT !.sends = {"send_left", "send_right"}]
StreamWindow == Operator("stream.window", {"input"})
StreamPattern == [Operator("stream.pattern", {"input"}) EXCEPT !.crates = {"chrono"}]

StreamCatalogue ==
    {StreamFilter, StreamMap, StreamSelect, StreamUnion, StreamJoin, StreamWindow, StreamPattern}
=============================================================================
