------------------------- MODULE LanguageTemplates -------------------------
(* The visual Rust nodes of backend/src/templates/builtins/language.rs.      *)
(* "bad" is a node whose parts do not parse: a field's type, a condition, a  *)
(* body, a duplicate field or derive.                                        *)
EXTENDS Templates

TypeDefinition(id) ==
    [Template EXCEPT !.id = id, !.mode = "Codegen", !.bridge = "PassThrough", !.dir = "types",
        !.accepts = CamelNames, !.variants = {"plain", "bad"}]

LanguageStruct == TypeDefinition("language.struct")
LanguageEnum == TypeDefinition("language.enum")

(* A free function; it has no ports, so nothing on the canvas calls it.      *)
LanguageFn ==
    [Template EXCEPT !.id = "language.fn", !.dir = "functions", !.accepts = SnakeNames,
        !.variants = {"plain", "bad"}, !.fn = OwnName]

(* An expression node becomes a function of the value wired to its input, or *)
(* of nothing. A keyword passes the check of some of them, and then fails    *)
(* when the emission is parsed to be instrumented.                           *)
Expression(id) ==
    [LanguageFn EXCEPT !.id = id, !.ins = {Port("input", "any")}, !.outs = {Port("output", "any")},
        !.wired = TRUE]

LanguageIfElse == Expression("language.if_else")
LanguageMatch == Expression("language.match")
LanguageLoop == Expression("language.loop")
LanguagePointer == [Expression("language.pointer") EXCEPT !.variants = {"plain"}]
LanguagePropagate == [Expression("language.propagate") EXCEPT !.variants = {"plain"}]
LanguageAwait == [Expression("language.await") EXCEPT !.variants = {"plain"}]

(* language.clone takes no argument even when it is wired.                   *)
LanguageClone ==
    [Expression("language.clone") EXCEPT !.variants = {"plain"}, !.wired = FALSE]

LanguageCatalogue ==
    {LanguageStruct, LanguageEnum, LanguageFn, LanguageClone, LanguageIfElse, LanguageMatch,
     LanguageLoop, LanguagePropagate, LanguageAwait, LanguagePointer}
=============================================================================
