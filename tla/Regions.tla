------------------------------ MODULE Regions ------------------------------
(* backend/src/codegen/regions.rs: generated bodies spliced into a file the  *)
(* user edits. A file is the sequence of its lines; a line is a pair of its  *)
(* kind and its content, and Begin(id), End(id) are the markers. Blank lines *)
(* are left out but in a region, where merge writes them.                    *)
EXTENDS Naturals, Sequences, SequencesExt, Lists

Text(x) == <<"text", x>>
Begin(id) == <<"begin", id>>
End(id) == <<"end", id>>
Blank == <<"blank", "">>

IsMarker(line) == line[1] \in {"begin", "end"}

Outside == ""       \* no region is open

(* parse_regions, line by line: the region that is open, those seen, and the *)
(* first error. The spans follow from the lines when there is no error.      *)
ParseLine(line, p) ==
    IF p.error # "none" \/ ~IsMarker(line) THEN p
    ELSE IF line[1] = "begin"
    THEN CASE p.open # Outside -> [p EXCEPT !.error = "nested"]
           [] p.open = Outside /\ line[2] \in p.seen -> [p EXCEPT !.error = "duplicate"]
           [] OTHER -> [p EXCEPT !.open = line[2], !.seen = @ \cup {line[2]}]
    ELSE CASE p.open = Outside -> [p EXCEPT !.error = "stray_end"]
           [] p.open # Outside /\ p.open # line[2] -> [p EXCEPT !.error = "mismatched"]
           [] OTHER -> [p EXCEPT !.open = Outside]

ParseRegions(file) ==
    LET P[n \in 0..Len(file)] ==
          IF n = 0 THEN [open |-> Outside, seen |-> {}, error |-> "none"]
          ELSE ParseLine(file[n], P[n - 1])
        p == P[Len(file)]
    IN  IF p.error = "none" /\ p.open # Outside THEN [p EXCEPT !.error = "unclosed"] ELSE p

WellFormed(file) == ParseRegions(file).error = "none"
RegionIds(file) == ParseRegions(file).seen

(* Mutant: the new body comes before what the region held.                   *)
MergeLine_KeepsBody(line, w, new) ==
    CASE line[1] = "begin" /\ line[2] \in DOMAIN new ->
           [out |-> Append(w.out, line) \o new[line[2]], inside |-> FALSE]
      [] line[1] = "begin" /\ line[2] \notin DOMAIN new -> [w EXCEPT !.inside = TRUE]
      [] line[1] = "end" /\ line[2] \in DOMAIN new ->
           [out |-> Append(w.out, line), inside |-> FALSE]
      [] line[1] = "end" /\ line[2] \notin DOMAIN new -> [w EXCEPT !.inside = FALSE]
      [] ~IsMarker(line) /\ w.inside -> w
      [] OTHER -> [w EXCEPT !.out = Append(@, line)]

(* Mutant: the end of a region that was dropped does not close it. *)
MergeLine_StaleSwallows(line, w, new) ==
    CASE line[1] = "begin" /\ line[2] \in DOMAIN new ->
           [out |-> Append(w.out, line) \o new[line[2]], inside |-> TRUE]
      [] line[1] = "begin" /\ line[2] \notin DOMAIN new -> [w EXCEPT !.inside = TRUE]
      [] line[1] = "end" /\ line[2] \in DOMAIN new ->
           [out |-> Append(w.out, line), inside |-> FALSE]
      [] ~IsMarker(line) /\ ~w.inside -> [w EXCEPT !.out = Append(@, line)]
      [] OTHER -> w

(* One line of the walk in merge: the body of a region that is still emitted *)
(* is replaced, a region that is not goes with its markers, and what is      *)
(* outside stays. The bodies are those of Filled.                            *)
MergeLine(line, w, new) ==
    CASE line[1] = "begin" /\ line[2] \in DOMAIN new ->
           [out |-> Append(w.out, line) \o new[line[2]], inside |-> TRUE]
      [] line[1] = "begin" /\ line[2] \notin DOMAIN new -> [w EXCEPT !.inside = TRUE]
      [] line[1] = "end" /\ line[2] \in DOMAIN new ->
           [out |-> Append(w.out, line), inside |-> FALSE]
      [] line[1] = "end" /\ line[2] \notin DOMAIN new -> [w EXCEPT !.inside = FALSE]
      [] ~IsMarker(line) /\ w.inside -> w
      [] OTHER -> [w EXCEPT !.out = Append(@, line)]

MergeWalk(file, new) ==
    LET W[n \in 0..Len(file)] ==
          IF n = 0 THEN [out |-> <<>>, inside |-> FALSE] ELSE MergeLine(file[n], W[n - 1], new)
    IN  W[Len(file)].out

(* A region that the file does not have yet is appended at its end; those    *)
(* that are generated, in the order of their names.                          *)
Added(file, new, id, out) ==
    IF id \in DOMAIN new \ RegionIds(file)
    THEN out \o <<Begin(id)>> \o new[id] \o <<End(id)>> ELSE out
MergeFilled(file, new) ==
    Added(file, new, "routes",
      Added(file, new, "module_decls",
        Added(file, new, "mods", MergeWalk(file, new))))

(* A body that does not end in a newline gets one, in its place (165-167) as *)
(* well as at the end (213-215): of an empty body that makes a blank line.   *)
Filled(new) == [id \in DOMAIN new |-> IF new[id] = <<>> THEN <<Blank>> ELSE new[id]]

Merge(file, new) == MergeFilled(file, Filled(new))

(* The lines between the first begin and the first end of id.                *)
Body(file, id) ==
    LET b == SelectInSeq(file, LAMBDA line : line = Begin(id))
        e == SelectInSeq(file, LAMBDA line : line = End(id))
    IN  IF b = 0 \/ e = 0 THEN <<>> ELSE SubSeq(file, b + 1, e - 1)

TextLines(file) == Those(file, {line \in ToSet(file) : line[1] = "text"})
=============================================================================
