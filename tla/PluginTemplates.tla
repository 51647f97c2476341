-------------------------- MODULE PluginTemplates --------------------------
(* Nodes that bring code or a contract of their own: custom.rs, wasm.rs and  *)
(* grpc.rs of backend/src/templates/builtins.                                *)
EXTENDS Templates

(* The function in the user's code: what parse_signature makes of it. It is  *)
(* called like the block ("own"), "execute", or takes its type by a path     *)
(* ("path"); "bad" does not parse, or has unwrap, expect or panic.           *)
ParseSignature(var) ==
    [ins |-> {Port("value", IF var = "path" THEN "api::Req" ELSE "Req")},
     outs |-> {Port("output", "Req")}]

CustomBlock ==
    [Template EXCEPT !.id = "custom.block", !.dynamic = TRUE, !.dir = "functions",
        !.accepts = Names, !.variants = {"own", "execute", "path", "bad"},
        !.fn = OwnName, !.args = 1]

(* The file's path starts with src/, below src/: the directory is called     *)
(* src/functions, and so is the module that lib.rs declares.                 *)
WasmRunner ==
    [Template EXCEPT !.id = "wasm.runner", !.ins = {Port("input", "i32")},
        !.outs = {Port("output", "i32")}, !.dir = "src/functions", !.prefix = "wasm_runner",
        !.stem = "id", !.variants = {"plain", "bad"}, !.fn = "execute", !.args = 1,
        !.crates = {"wasmi"}]

(* One output port for each rpc of the proto, here one. A method that is not *)
(* wired to a function or a block answers unimplemented. The proto and       *)
(* build.rs are written beside src/ and declared nowhere.                    *)
ParseProtoPorts == [ins |-> {Port("entry", "any")}, outs |-> {Port("Call", "Req")}]

GrpcServer ==
    [Template EXCEPT !.id = "grpc.server", !.dynamic = TRUE, !.bridge = "LongRunner",
        !.dir = "grpc", !.prefix = "server", !.stem = "id", !.variants = {"plain", "bad"},
        !.fn = "run", !.crates = {"tonic", "prost"},
        !.calls = {Call("Call", "language.fn", "functions", OwnName, 1, "raw", "skip"),
                   Call("Call", "custom.block", "functions", "execute", 1, "snake", "skip")}]

GrpcClient ==
    [Template EXCEPT !.id = "grpc.client", !.ins = {Port("request", "any")},
        !.outs = {Port("response", "any")}, !.dir = "grpc", !.prefix = "client", !.stem = "id",
        !.variants = {"plain", "bad"}, !.fn = "execute", !.args = 1, !.crates = {"tonic", "prost"}]

PluginCatalogue == {CustomBlock, WasmRunner, GrpcServer, GrpcClient}
=============================================================================
