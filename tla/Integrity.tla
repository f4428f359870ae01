------------------------------ MODULE Integrity ------------------------------
(***************************************************************************)
(* AuditSink.verify_integrity: the walk over one thread's rows that decides *)
(* whether the log may be replayed.  Rows are numbered 1 .. N in the order  *)
(* session_events reads them; parent[i] is a row, NoParent, or a row that   *)
(* is not in this thread.                                                   *)
(***************************************************************************)
EXTENDS Integers, Sequences, FiniteSets

CONSTANT N          \* rows of the thread, at most

ASSUME RowsAssumption == N \in Nat

NoParent == 0
Elsewhere == -1

VARIABLES
    parent,     \* the thread's rows, read once
    visited, stack,
    outcome     \* "reading", "walking", "ok", "no root", "many roots", "cycle", "orphans"

ivars == <<parent, visited, stack, outcome>>

Rows == DOMAIN parent

roots == {i \in Rows : parent[i] = NoParent}

\* Mutant: the walk goes both ways.
Neighbours(i) == SelectSeq([j \in 1 .. Len(parent) |-> j],
                           LAMBDA j : parent[j] = i \/ parent[i] = j)

\* The rows whose parent is i, in their order.
children(i) ==
    LET among[j \in 0 .. Len(parent)] == IF j = 0 THEN <<>>
                                         ELSE IF parent[j] = i THEN Append(among[j - 1], j)
                                         ELSE among[j - 1]
    IN  among[Len(parent)]

\* Any log that can be in the table: rows with any parent at all.
IntegrityInit ==
    /\ \E n \in 0 .. N : parent \in [1 .. n -> Elsewhere .. n]
    /\ visited = {}
    /\ stack = <<>>
    /\ outcome = "reading"

FindRoot ==
    /\ outcome = "reading"
    /\ outcome' = CASE Cardinality(roots) = 0 -> "no root"
                    [] Cardinality(roots) > 1 -> "many roots"
                    [] OTHER -> "walking"
    /\ stack' = IF Cardinality(roots) = 1 THEN <<CHOOSE r \in roots : TRUE>> ELSE stack
    /\ UNCHANGED <<parent, visited>>

\* Mutant: the walk looks at the top of the stack and skips a visited row, but
\* takes nothing off.
PopPeeks ==
    /\ outcome = "walking" /\ stack # <<>>
    /\ LET current == stack[Len(stack)]
       IN  /\ current \notin visited
           /\ visited' = visited \cup {current}
           /\ stack' = stack \o children(current)
    /\ UNCHANGED <<parent, outcome>>

Pop ==
    /\ outcome = "walking" /\ stack # <<>>
    /\ LET current == stack[Len(stack)]
           rest    == SubSeq(stack, 1, Len(stack) - 1)
       IN  IF current \in visited
           THEN outcome' = "cycle" /\ UNCHANGED <<visited, stack>>
           ELSE /\ visited' = visited \cup {current}
                /\ stack' = rest \o children(current)
                /\ UNCHANGED outcome
    /\ UNCHANGED parent

\* Mutant: rows the walk did not reach are not looked for.
MissingNone == {}

missing == Rows \ visited

Finish ==
    /\ outcome = "walking" /\ stack = <<>>
    /\ outcome' = IF missing = {} THEN "ok" ELSE "orphans"
    /\ UNCHANGED <<parent, visited, stack>>

IntegrityStep == FindRoot \/ Pop \/ Finish

Decided == outcome \notin {"reading", "walking"}

IntegrityNext == IntegrityStep \/ (Decided /\ UNCHANGED ivars)

IntegritySpec == IntegrityInit /\ [][IntegrityNext]_ivars

-----------------------------------------------------------------------------

\* From row i up: row i itself, its parent, and so on, as far as there are rows.
Climb(i) ==
    LET up[k \in 0 .. Len(parent)] == IF k = 0 THEN i
                                      ELSE IF up[k - 1] \in Rows THEN parent[up[k - 1]]
                                      ELSE up[k - 1]
    IN  up

Ancestor(i) == {Climb(i)[k] : k \in 0 .. Len(parent)}

\* What a replayable log is, without a walk: the way up from every row leads to one
\* and the same root.

Replayable == \E r \in Rows : /\ parent[r] = NoParent
                              /\ \A i \in Rows : r \in Ancestor(i)

\* verify_integrity refuses gaps, cycles and missing roots, and nothing else.
AcceptsExactlyReplayable == Decided => (outcome = "ok") = Replayable

\* A row has one parent, so the walk meets no row twice: a cyclic log is refused
\* for the rows it does not reach, and the walk's own cycle error is never raised.
NoRowTwice == outcome # "cycle"

=============================================================================
