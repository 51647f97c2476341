----------------------------- MODULE Catalogue -----------------------------
(* The template registry, and the check of a graph that is saved             *)
(* (backend/src/projects/validation.rs).                                     *)
(*                                                                           *)
(* A node is [id, t, name, var]: its template, config.name, and what else in *)
(* its config matters ("plain", "bad", ...); it stores the template's id and *)
(* the registry is asked for the rest, which is the same, as no template     *)
(* changes while the server runs. An edge is [s, sp, d, dp]: source and      *)
(* port, target and port. A graph is [nodes |-> a sequence, edges |-> a set].*)
EXTENDS CoreTemplates, ConnectorTemplates, StreamTemplates, LanguageTemplates, TokioTemplates,
        PluginTemplates

(* register_all                                                              *)
Registry ==
    CoreCatalogue \cup ConnectorCatalogue \cup StreamCatalogue \cup LanguageCatalogue
      \cup TokioCatalogue \cup PluginCatalogue

(* Every id has one template, or the server does not start.                  *)
UniqueIds == \A S, T \in Registry : S.id = T.id => S = T
ASSUME RegistryAssumption == UniqueIds

NodesOf(g) == {g.nodes[i] : i \in DOMAIN g.nodes}
HasNode(g, id) == \E n \in NodesOf(g) : n.id = id
NodeOf(g, id) == CHOOSE n \in NodesOf(g) : n.id = id

(* get_port_spec: a block's ports come from its code, a server's from its    *)
(* proto; everything else has the ports of its template.                     *)
PortSpecs(n) ==
    CASE n.t.id = "custom.block" -> ParseSignature(n.var)
      [] n.t.id = "grpc.server" -> ParseProtoPorts
      [] OTHER -> [ins |-> n.t.ins, outs |-> n.t.outs]

(* Mutant: only the target's type is looked at. *)
TypeTagsCompatible_OneSided(a, b) == b = "any" \/ a = b

(* type_tags_compatible: the same, one of them any, or one a path that ends  *)
(* in the other.                                                             *)
PathSuffix == {<<"api::Req", "Req">>}
TypeTagsCompatible(a, b) ==
    "any" \in {a, b} \/ a = b \/ <<a, b>> \in PathSuffix \/ <<b, a>> \in PathSuffix

(* registry.validate: the config has what the template's schema requires.    *)
(* A schema does not know what parses: a bad part is found out later, but    *)
(* for a custom block, whose code put_graph parses.                          *)
ConfigValid(n) ==
    /\ n.t \in Registry
    /\ n.name = Absent => Absent \in n.t.accepts
    /\ ~(n.t.id = "custom.block" /\ n.var = "bad")

SourceEnds(g, n, p) == {e \in g.edges : e.s = n.id /\ e.sp = p.name}
TargetEnds(g, n, p) == {e \in g.edges : e.d = n.id /\ e.dp = p.name}

(* Mutant: multiplicity is checked at the source only. *)
ValidateGraph_SourceOnly(g) ==
    /\ \A e \in g.edges :
         /\ HasNode(g, e.s) /\ HasNode(g, e.d)
         /\ \E p \in PortSpecs(NodeOf(g, e.s)).outs, q \in PortSpecs(NodeOf(g, e.d)).ins :
              /\ p.name = e.sp /\ q.name = e.dp
              /\ TypeTagsCompatible(p.ty, q.ty)
    /\ \A n \in NodesOf(g) :
         \A p \in PortSpecs(n).outs : p.many \/ Cardinality(SourceEnds(g, n, p)) <= 1

(* validate_graph: both ends of an edge exist, their ports are declared and  *)
(* their types agree, and a port that is not Many has at most one edge.      *)
ValidateGraph(g) ==
    /\ \A e \in g.edges :
         /\ HasNode(g, e.s) /\ HasNode(g, e.d)
         /\ \E p \in PortSpecs(NodeOf(g, e.s)).outs, q \in PortSpecs(NodeOf(g, e.d)).ins :
              /\ p.name = e.sp /\ q.name = e.dp
              /\ TypeTagsCompatible(p.ty, q.ty)
    /\ \A n \in NodesOf(g) :
         /\ \A p \in PortSpecs(n).outs : p.many \/ Cardinality(SourceEnds(g, n, p)) <= 1
         /\ \A p \in PortSpecs(n).ins : p.many \/ Cardinality(TargetEnds(g, n, p)) <= 1

(* What PUT graph accepts. *)
Savable(g) == (\A n \in NodesOf(g) : ConfigValid(n)) /\ ValidateGraph(g)
=============================================================================
