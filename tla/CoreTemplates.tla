--------------------------- MODULE CoreTemplates ---------------------------
(* The templates of backend/src/templates/builtins/mod.rs.                   *)
EXTENDS Templates

EntryPoint ==
    [Template EXCEPT !.id = "core.entry_point",
        !.outs = {Port("http", "any"), Port("consumer", "any"),
                  Port("scheduler", "any"), Port("service", "any")},
        !.variants = {"axum", "actix"}]

HttpRoute ==
    [Template EXCEPT !.id = "http.route", !.bridge = "PassThrough",
        !.ins = {Port("entry", "any")}, !.outs = {Port("request", "http.request")}]

(* The middleware's source follows the framework of the entry point, axum    *)
(* when there is none, whether or not the graph has a route.                 *)
HttpMiddleware ==
    [Template EXCEPT !.id = "http.middleware",
        !.ins = {Port("request", "http.request")}, !.outs = {Port("handler", "http.request")},
        !.dir = "middlewares", !.stem = "raw", !.accepts = Names,
        !.fn = OwnName, !.args = 2, !.axum = TRUE]

(* A handler with custom code is emitted as it is; without, it calls the     *)
(* services wired to its request port.                                       *)
HttpHandler ==
    [Template EXCEPT !.id = "http.handler",
        !.ins = {Port("request", "http.request")}, !.outs = {Port("response", "http.response")},
        !.dir = "handlers", !.stem = "raw", !.accepts = Names,
        !.variants = {"plain", "code"}, !.fn = OwnName, !.axum = TRUE,
        !.codeCrates = {"once_cell", "futures", "actix-multipart", "bcrypt", "jsonwebtoken"},
        !.pulls = {Call("request", "core.service", "services", OwnName, 0, "raw", "error")}]

(* The DTOs a service would name are read from its upstream nodes, but       *)
(* core.dto has no ports, so no edge of a valid graph brings one.            *)
CoreService ==
    [Template EXCEPT !.id = "core.service",
        !.ins = {ManyPort("input", "any")}, !.outs = {Port("output", "any")},
        !.dir = "services", !.stem = "raw", !.accepts = Names,
        !.variants = {"plain", "code"}, !.fn = OwnName, !.codeCrates = {"once_cell", "futures"}]

CoreDto ==
    [Template EXCEPT !.id = "core.dto", !.mode = "Codegen", !.dir = "dto", !.accepts = Names]

ObservabilityLogger ==
    [Template EXCEPT !.id = "observability.logger", !.bridge = "PassThrough",
        !.ins = {Port("value", "any")}, !.outs = {Port("value", "any")},
        !.dir = "loggers", !.other = "logger", !.fn = "record", !.args = 1]

(* Parsers read their schema while the code is generated: "bad" is a schema  *)
(* that is missing or does not convert.                                      *)
ParserJson ==
    [Template EXCEPT !.id = "parser.json", !.mode = "Codegen", !.outs = {Port("value", "json")},
        !.dir = "parsers", !.other = "json_parser", !.variants = {"plain", "bad"},
        !.crates = {"chrono", "regress", "uuid"}]

ParserXml ==
    [Template EXCEPT !.id = "parser.xml", !.mode = "Codegen", !.outs = {Port("value", "xml")},
        !.dir = "parsers", !.other = "xml_parser"]

ParserProtobuf ==
    [Template EXCEPT !.id = "parser.protobuf", !.mode = "Codegen",
        !.outs = {Port("value", "protobuf")},
        !.dir = "parsers", !.other = "protobuf_parser", !.variants = {"plain", "bad"},
        !.crates = {"prost"}]

IntegrationConsumerPlaceholder ==
    [Template EXCEPT !.id = "integration.consumer.placeholder", !.bridge = "LongRunner",
        !.ins = {Port("entry", "any")}, !.outs = {Port("message", "bytes")},
        !.dir = "consumers", !.stem = "raw", !.other = "topic", !.fn = "run"]

IntegrationSchedulerPlaceholder ==
    [Template EXCEPT !.id = "integration.scheduler.placeholder", !.bridge = "LongRunner",
        !.ins = {Port("entry", "any")}, !.outs = {Port("tick", "tick")},
        !.dir = "schedulers", !.stem = "raw", !.other = "scheduler", !.fn = "run"]

CoreCatalogue ==
    {EntryPoint, HttpRoute, HttpMiddleware, HttpHandler, CoreService, CoreDto,
     ObservabilityLogger, ParserJson, ParserXml, ParserProtobuf,
     IntegrationConsumerPlaceholder, IntegrationSchedulerPlaceholder}
=============================================================================
