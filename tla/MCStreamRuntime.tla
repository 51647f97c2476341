-------------------------- MODULE MCStreamRuntime --------------------------
(* StreamRuntime on small programs, each with a service at its end.          *)
EXTENDS StreamRuntime

Op(kind, size, to) == [kind |-> kind, par |-> FALSE, size |-> size, to |-> to]
Par(kind, to) == [kind |-> kind, par |-> TRUE, size |-> 1, to |-> to]
Into(o) == <<o, "input">>

Chain == "f" :> Op("filter", 1, Into("m")) @@ "m" :> Op("map", 1, Sink)
ParallelChain == "f" :> Par("filter", Into("m")) @@ "m" :> Op("map", 1, Sink)
ParallelEnd == "m" :> Par("map", Sink)
Merged == "m" :> Op("map", 1, <<"u", "input1">>) @@ "u" :> Op("union", 1, Sink)
Alone(kind, size) == "w" :> Op(kind, size, Sink)

MCPrograms ==
    {Chain, ParallelChain, ParallelEnd, Merged,
     Alone("join", 1), Alone("tumbling", 2), Alone("sliding", 2),
     Alone("tumbling_time", 1), Alone("sliding_time", 1), Alone("pattern", 1),
     "s" :> Op("runner", 1, Sink)}
=============================================================================
