----------------------------- MODULE AuditFile -----------------------------
(***************************************************************************)
(* The audit file and its reader: the processes of AuditSink write it, and *)
(* a process that starts after them verifies a thread of it with the walk  *)
(* of Integrity, over what they wrote or over a file somebody else made.   *)
(***************************************************************************)
EXTENDS AuditSink, Integrity

VARIABLE reading    \* the thread that is verified

Nobody == "nobody"
Stranger == "stranger"

ASSUME SessionsAssumption == Nobody \notin Sessions /\ Stranger \notin Sessions

filevars == <<sinkvars, ivars, reading>>

\* Nobody reads while the sinks write; or the file is a stranger's, and no sink
\* ever writes to it.
FileInit ==
    /\ SinkInit
    /\ \/ /\ reading = Nobody
          /\ parent = <<>> /\ visited = {} /\ stack = <<>> /\ outcome = "reading"
       \/ reading = Stranger /\ IntegrityInit

\* Where a row of s stands among the rows of its thread.
Place(s, i) == Cardinality({j \in 1 .. i : table[j].thread_id = s})

\* session_events, and by_id with the parents in it: the rows of s by their places.
parents_of(s) ==
    LET mine == {i \in DOMAIN table : table[i].thread_id = s}
        row(p) == CHOOSE i \in mine : Place(s, i) = p
        place(id) == IF id = None THEN NoParent
                     ELSE IF \E i \in mine : table[i].id = id
                          THEN Place(s, CHOOSE i \in mine : table[i].id = id)
                          ELSE Elsewhere
    IN  [p \in 1 .. Cardinality(mine) |-> place(table[row(p)].parent_event_id)]

ReadThread(s) ==
    /\ reading = Nobody
    /\ \A r \in Sessions : state[r] = "stopped"
    /\ reading' = s
    /\ parent' = parents_of(s)
    /\ UNCHANGED <<sinkvars, visited, stack, outcome>>

Write == reading = Nobody /\ SinkStep /\ UNCHANGED <<ivars, reading>>

Walk == reading # Nobody /\ IntegrityStep /\ UNCHANGED <<sinkvars, reading>>

Verified == reading # Nobody /\ Decided /\ UNCHANGED filevars

FileNext == Write \/ (\E s \in Sessions : ReadThread(s)) \/ Walk \/ Verified

\* The walk is a plain loop; the writers may stop at any time.
FileSpec == FileInit /\ [][FileNext]_filevars /\ WF_filevars(Walk)

-----------------------------------------------------------------------------

\* Whatever raised, died or came along with a later commit while the file was
\* written, verify_integrity accepts each thread that has a row in it.
SinkLogsAccepted ==
    reading \in Sessions /\ Decided /\ parent # <<>> => outcome = "ok"

\* A walk that has begun ends, on every log, the cyclic ones included.
WalkEnds == [](reading # Nobody => <>Decided)

=============================================================================
