----------------------------- MODULE RepoIndex -----------------------------
(***************************************************************************)
(* The retrieval index that recon builds and queries (make_recon in        *)
(* graph/builder.py over retrieval/store.py and Chunker): one Qdrant folder*)
(* beside the repository, shared by every session, one client at a time.   *)
(*                                                                         *)
(* A point is its payload and its id; the embeddings and the ranking are   *)
(* left out, so a query may return any top_k points.                       *)
(***************************************************************************)
EXTENDS Chunker, FiniteSets

CONSTANTS
    Sessions,    \* sessions, each a process with a worktree of its own
    Files,       \* the number of files, in the order of git ls-files
    Sources,     \* what may stand in a file: [lines, definitions]
    TopK         \* points a query returns at most

ASSUME TopKAssumption == TopK \in Nat /\ Files \in Nat

Definition == [kind : {"class", "function"}, name : STRING, first : Nat \ {0}, last : Nat]

ASSUME SourcesAssumption ==
    \A source \in Sources :
        /\ source.lines \in Seq(Nat)
        /\ source.definitions \in Seq(Definition)
        /\ \A d \in DOMAIN source.definitions :
             LET definition == source.definitions[d]
             IN  definition.first <= definition.last /\ definition.last <= Len(source.lines)

VARIABLES
    head,       \* the repository's code: each file's source at HEAD
    code,       \* the code in each session's worktree, as checked out
    pc,         \* "new", "recon", "indexed", "queried", "ended"
    store,      \* _store: the sessions with a client
    points,     \* the collection: [id, path, fqn, content, start]
    context     \* file_context of each session: the paths recon has code under

xvars == <<head, code, pc, store, points, context>>

MaxLines == Max({Len(source.lines) : source \in Sources})
Code == [1 .. Files -> Sources]
None == <<>>

\* Mutant: the id also names the file.
IdWithPath(chunk, path) == <<chunk.fqn, chunk.content, path>>

_deterministic_id(chunk, path) == <<chunk.fqn, chunk.content>>

\* Mutant: a point whose id is in the collection is skipped.
UpsertInsertsOnly(new) == points \cup {p \in new : p.id \notin {q.id : q \in points}}

\* A point with the id of an old one replaces it, payload and all.
upsert_chunks(new) == {p \in points : p.id \notin {q.id : q \in new}} \cup new

IndexInit ==
    /\ head \in Code
    /\ code = [s \in Sessions |-> None]
    /\ pc = [s \in Sessions |-> "new"]
    /\ store = {}
    /\ points = {}
    /\ context = [s \in Sessions |-> {}]

\* Between sessions somebody commits.
Commit ==
    /\ \E f \in 1 .. Files, source \in Sources : head' = [head EXCEPT ![f] = source]
    /\ \E s \in Sessions : pc[s] = "new"
    /\ UNCHANGED <<code, pc, store, points, context>>

\* The session's worktree is a copy of HEAD.
Start(s) ==
    /\ pc[s] = "new"
    /\ code' = [code EXCEPT ![s] = head]
    /\ pc' = [pc EXCEPT ![s] = "recon"]
    /\ UNCHANGED <<head, store, points, context>>

ChunksOf == [source \in Sources |-> chunk_file(source)]
Later(c, d) == c.fqn = d.fqn /\ c.content = d.content /\ c.start > d.start

\* A point is put once for each chunk with its id; the last one stays: that of the
\* last file, and there of the last line.
PointsOf(s) ==
    LET ids[f \in 1 .. Files] == {_deterministic_id(c, <<s, f>>) : c \in ChunksOf[code[s][f]]}
        last(f, c) == /\ \A g \in f + 1 .. Files : _deterministic_id(c, <<s, f>>) \notin ids[g]
                      /\ \A d \in ChunksOf[code[s][f]] : ~Later(d, c)
    IN  UNION {{[id |-> _deterministic_id(c, <<s, f>>), path |-> <<s, f>>,
                 fqn |-> c.fqn, content |-> c.content, start |-> c.start] :
                  c \in {d \in ChunksOf[code[s][f]] : last(f, d)}} : f \in 1 .. Files}

Unlocked(s) == store \subseteq {s}

\* _init: open the store, chunk every file and upsert.
Index(s) ==
    /\ pc[s] = "recon" /\ Unlocked(s)
    /\ store' = store \cup {s}
    /\ points' = upsert_chunks(PointsOf(s))
    /\ pc' = [pc EXCEPT ![s] = "indexed"]
    /\ UNCHANGED <<head, code, context>>

\* The process dies in the middle of the upsert: the points up to some place are in.
IndexingDies(s) ==
    /\ pc[s] = "recon" /\ Unlocked(s)
    /\ \E f \in 1 .. Files, line \in 1 .. MaxLines :
         points' = upsert_chunks({p \in PointsOf(s) :
                                    \/ p.path[2] < f
                                    \/ p.path[2] = f /\ p.start <= line})
    /\ pc' = [pc EXCEPT ![s] = "ended"]
    /\ UNCHANGED <<head, code, store, context>>

\* Another client holds the folder, or a file does not decode: recon goes on
\* without a store.
IndexingFails(s) ==
    /\ pc[s] = "recon"
    /\ pc' = [pc EXCEPT ![s] = "queried"]
    /\ UNCHANGED <<head, code, store, points, context>>

\* The paths of at most top_k points, whichever the two rankings prefer.
query == {paths \in SUBSET {p.path : p \in points} : Cardinality(paths) <= TopK}

\* recon queries once, and groups what it gets by the path each point carries.
Query(s) ==
    /\ pc[s] = "indexed"
    /\ \E paths \in query : context' = [context EXCEPT ![s] = paths]
    /\ pc' = [pc EXCEPT ![s] = "queried"]
    /\ UNCHANGED <<head, code, store, points>>

\* The process exits, which is what closes the client.
End(s) ==
    /\ pc[s] \in {"recon", "indexed", "queried"}
    /\ pc' = [pc EXCEPT ![s] = "ended"]
    /\ store' = store \ {s}
    /\ context' = [context EXCEPT ![s] = {}]
    /\ UNCHANGED <<head, code, points>>

AllEnded == (\A s \in Sessions : pc[s] = "ended") /\ UNCHANGED xvars

IndexNext ==
    \/ Commit
    \/ \E s \in Sessions : Start(s) \/ Index(s) \/ IndexingDies(s)
                           \/ IndexingFails(s) \/ Query(s) \/ End(s)
    \/ AllEnded

IndexSpec == IndexInit /\ [][IndexNext]_xvars

-----------------------------------------------------------------------------

\* The point tells where, in the worktree of s, the code it holds is.
Locates(p, s) ==
    /\ p.path[1] = s
    /\ p.content = SubSeq(code[s][p.path[2]].lines, p.start, p.start + Len(p.content) - 1)

\* Line n of a text is in a window of it.
Covers(content, text, n) ==
    \E first \in 1 .. n : LET last == first + Len(content) - 1
                          IN  n <= last /\ last <= Len(text)
                              /\ SubSeq(text, first, last) = content

\* chunker.py: "Extracts functions, classes, methods with FQN".  While a session holds
\* the store, each line of a definition of its worktree that stands in classes only is
\* indexed under that definition's full name, whatever its length and depth and
\* whatever stale or partial batches of other sessions the collection holds; and the
\* point gives the place of that code in this worktree, not in another's.
WorktreeIndexed ==
    \A s \in store, f \in 1 .. Files :
        LET source  == code[s][f]
            text(d) == SubSeq(source.lines, source.definitions[d].first,
                              source.definitions[d].last)
        IN  \A d \in Importable(source.definitions) : \A n \in 1 .. Len(text(d)) :
                \E p \in points : /\ p.fqn = QualifiedNames(source.definitions)[d]
                                  /\ Locates(p, s)
                                  /\ Covers(p.content, text(d), n)

\* store.py: a "stable ID from FQN + content hash for idempotent upserts".  However
\* many sessions, files and interrupted upserts put the same code under the same
\* name, it takes one place in the top k.
OnePointPerName ==
    \A p, q \in points : p.fqn = q.fqn /\ p.content = q.content => p = q

\* A path of one of the worktrees that are there never leads astray: what the index
\* has under it is in that file, at the lines it says.  (Stale points have the paths of
\* other sessions' worktrees.)
PointsLocate == \A s \in Sessions, p \in points : p.path[1] = s => Locates(p, s)

=============================================================================
