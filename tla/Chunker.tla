------------------------------ MODULE Chunker ------------------------------
(***************************************************************************)
(* retrieval/chunker.py on one Python file: a chunk for each definition,   *)
(* under a dotted name, cut into windows of lines where it is too long.    *)
(*                                                                         *)
(* A line of code is the number of its words; a definition is where it     *)
(* stands, in the order of the file; a dotted name is a sequence of names. *)
(* Files are ASCII (_node_text cuts a str at the offsets of its bytes).    *)
(***************************************************************************)
EXTENDS Integers, Sequences, FiniteSetsExt

CONSTANTS max_tokens, overlap_tokens

ASSUME ChunkerAssumption == max_tokens \in Nat /\ overlap_tokens \in Nat

\* max(1, int(tokens / 1.3)): the lines of a window, and of an overlap.
LinesFor(tokens) == Max({1, (10 * tokens) \div 13})
chunk_size == LinesFor(max_tokens)
overlap == LinesFor(overlap_tokens)

ASSUME StepAssumption == overlap < chunk_size     \* or range() raises, or is empty

\* The definition that d stands in: the last to begin before it of those that end
\* no sooner; 0 is the module.
Around(definitions, d) ==
    Max({0} \cup {e \in 1 .. d - 1 : definitions[e].last >= definitions[d].last})

_build_fqn(definition, parent_fqn) == Append(parent_fqn, definition.name)

\* The parent_fqn of each call of walk for what stands in a definition, given those
\* of the calls for itself: the caller's, and for a class its own name as well.
parents_below(definition, parents) ==
    parents \cup IF definition.kind = "class"
                 THEN {_build_fqn(definition, p) : p \in parents} ELSE {}

\* The parent_fqn of each call of walk for a definition, 0 being the module.
parent_fqns(definitions) ==
    LET parents[d \in 0 .. Len(definitions)] ==
            IF d = 0 THEN {<<>>}
            ELSE LET e == Around(definitions, d)
                 IN  IF e = 0 THEN parents[e] ELSE parents_below(definitions[e], parents[e])
    IN  parents

Chunk(fqn, content, start) == [fqn |-> fqn, content |-> content, start |-> start]

_extract_chunks(source) ==
    LET defs == source.definitions
    IN  UNION {{Chunk(_build_fqn(defs[d], p), SubSeq(source.lines, defs[d].first, defs[d].last),
                      defs[d].first) : p \in parent_fqns(defs)[d]} : d \in DOMAIN defs}

\* len(content.split()) * 1.3 > max_tokens
Oversized(content) ==
    13 * MapThenSumSet(LAMBDA n : content[n], DOMAIN content) > 10 * max_tokens

\* range's step.
step == chunk_size - overlap

\* sub_lines, from line i + 1 on.
Window(content, i) == SubSeq(content, i + 1, Min({i + chunk_size, Len(content)}))

WindowStarts(content) == {i \in 0 .. Len(content) - 1 : i % step = 0}

\* Mutant: each window claims the first line of the whole.
WindowsStartTogether(chunk) ==
    {Chunk(chunk.fqn, Window(chunk.content, i), chunk.start) : i \in WindowStarts(chunk.content)}

_split_oversized_chunks(chunk) ==
    IF ~Oversized(chunk.content) THEN {chunk}
    ELSE {Chunk(chunk.fqn, Window(chunk.content, i), chunk.start + i) :
            i \in WindowStarts(chunk.content)}

chunk_file(source) == UNION {_split_oversized_chunks(c) : c \in _extract_chunks(source)}

-----------------------------------------------------------------------------

(* What a definition is called in Python, and which have such a name: those *)
(* that stand in classes only.                                              *)

QualifiedNames(definitions) ==
    LET name[d \in 0 .. Len(definitions)] ==
            IF d = 0 THEN <<>>
            ELSE Append(name[Around(definitions, d)], definitions[d].name)
    IN  name

StandsIn(definitions, d) ==
    {e \in 1 .. d - 1 : definitions[e].last >= definitions[d].last}

Importable(definitions) ==
    {d \in DOMAIN definitions :
        \A e \in StandsIn(definitions, d) : definitions[e].kind = "class"}

=============================================================================
