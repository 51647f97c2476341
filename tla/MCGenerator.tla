---------------------------- MODULE MCGenerator ----------------------------
(* Generator on the whole catalogue: every node alone, every pair that an    *)
(* edge can join, and sessions of edits on a small palette.                  *)
EXTENDS Generator

Node(id, t, name, var) == [id |-> id, t |-> t, name |-> name, var |-> var]
Edge(s, sp, d, dp) == [s |-> s, sp |-> sp, d |-> d, dp |-> dp]

NamesOf(T) == IF T.dir = "" THEN {Absent} ELSE OptionalName
NodesWith(id, names) ==
    UNION {{Node(id, T, name, var) : name \in NamesOf(T) \cap names, var \in T.variants} :
             T \in Registry}
Graph(nodes, edges) == [nodes |-> nodes, edges |-> edges]

Alone == {Graph(<<n>>, {}) : n \in NodesWith("n1", OptionalName)}

(* Of the first node the name does not matter to the second.                 *)
Joined ==
    UNION {UNION {{Graph(<<m, n>>, {Edge("n1", p.name, "n2", q.name)}) :
                     p \in PortSpecs(m).outs, q \in PortSpecs(n).ins} :
                  n \in {x \in NodesWith("n2", {"MyJob", "job", Absent}) : x.var # "bad"}} :
             m \in {x \in NodesWith("n1", {"job", Absent}) :
                       x.var # "bad" /\ (x.name = Absent => x.t.dir = "")}}

MCSeeds == {g \in Alone \cup Joined : Savable(g)}

R == Node("r", HttpRoute, Absent, "plain")
H == Node("h", HttpHandler, "job", "plain")
M == Node("m", HttpMiddleware, "job", "plain")
RH == Edge("r", "request", "h", "request")
RM == Edge("r", "request", "m", "request")
MCStarts == {Graph(<<>>, {}), Graph(<<R, H>>, {RH}), Graph(<<R, M, H>>, {RM})}
MCPalette ==
    {Node("a", EntryPoint, Absent, "actix"), R, M,
     Node("k", KafkaConsumer, "job", "plain"),
     Node("b", LanguageIfElse, "job", "bad")}

(* For the run about routes: one route, one handler, from nothing.           *)
MCBlank == {Graph(<<>>, {})}
MCRoutePalette == {R, H}

(* A middleware that feeds itself: no save accepts it.                       *)
MCImports ==
    {Graph(<<R, M>>, {RM, Edge("m", "handler", "m", "request")})}

MCSlugs == <<"handlers", "text", "util">>
MCPackages == {<<"util">>, <<"handlers">>, <<"util", "text">>}

(* One that Cargo.toml names otherwise, and one that it does not name.       *)
MCOffers == {"nats", "other"}
=============================================================================
