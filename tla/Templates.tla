----------------------------- MODULE Templates -----------------------------
(* What a node template promises (backend/src/templates): the vocabulary of  *)
(* the catalogue. One record says all the rest of the studio relies on: the  *)
(* ports, the names the emission takes, the one file it writes, the function *)
(* that file exports, the calls it makes and the crates it needs. The text   *)
(* of the emitted Rust is left out.                                          *)
EXTENDS Naturals, Sequences, FiniteSets

Absent == ""        \* config.name is missing

(* Representative names: a plain one, one with two humps, and a keyword.     *)
Names == {"job", "MyJob", "type"}
OptionalName == Names \cup {Absent}

(* to_snake_case and str::to_lowercase on these names: they differ on humps. *)
Snake(name) == IF name = "MyJob" THEN "my_job" ELSE name
Lower(name) == IF name = "MyJob" THEN "myjob" ELSE name

Keyword(name) == name = "type"
SnakeNames == {"job"}       \* is_valid_snake_case_ident and not a keyword
CamelNames == {"MyJob"}     \* is_valid_camel_case_ident

(* PortSpec: Single and Optional mean the same to validate_graph, only Many  *)
(* is told apart.                                                            *)
Port(name, ty) == [name |-> name, ty |-> ty, many |-> FALSE]
ManyPort(name, ty) == [name |-> name, ty |-> ty, many |-> TRUE]

(* A call the emitted code makes to the node at the other end of an edge of  *)
(* `port`, when that is of template t: to function fn of the module of its   *)
(* name in dir, with args arguments. spell is how the caller writes the      *)
(* other's name; missing is what it does when there is none: "panic"         *)
(* (unwrap), "unknown" (unwrap_or), "error" or "skip".                       *)
Call(port, t, dir, fn, args, spell, missing) ==
    [port |-> port, t |-> t, into |-> {}, dir |-> dir, fn |-> fn, args |-> args,
     spell |-> spell, missing |-> missing]

OwnName == "<name>"     \* the function is called like the module

(* NodeTemplate with the defaults of the trait: Runtime mode, the Default    *)
(* debug bridge, and an emission of no items.                                *)
Template == [id |-> "", ins |-> {}, outs |-> {}, mode |-> "Runtime", bridge |-> "Default",
             dir |-> "", prefix |-> "", stem |-> "snake", other |-> Absent,
             accepts |-> OptionalName, variants |-> {"plain"}, fn |-> "", sends |-> {}, args |-> 0,
             wired |-> FALSE, result |-> FALSE, crates |-> {}, codeCrates |-> {}, axum |-> FALSE,
             calls |-> {}, pulls |-> {}, dynamic |-> FALSE]

RunsForever(T) == T.bridge = "LongRunner"
=============================================================================
