----------------------------- MODULE AuditSink -----------------------------
(***************************************************************************)
(* audit/sink.py over one SQLite file: several AuditSink connections (the  *)
(* CLI's processes, the TUI's worker, the lanes of an ablation), each      *)
(* serving one session after another.  write_ahead is an INSERT, which     *)
(* takes the file's write lock until the connection commits or closes, and *)
(* a commit; either may raise, and neither is rolled back.                 *)
(***************************************************************************)
EXTENDS Integers, Sequences, FiniteSets

CONSTANTS
    Sinks,       \* connections
    Sessions,    \* thread ids, each used by one session
    MaxRows      \* bound on the INSERTs of a behaviour

ASSUME MaxRowsAssumption == MaxRows \in Nat

VARIABLES
    table,       \* the committed rows, in rowid order
    pending,     \* the uncommitted rows of each connection
    inserts,     \* INSERTs so far: the source of event ids
    state,       \* of each session: "new", "active", "inserted", "stopped"
    sink,        \* the connection of each session
    last,        \* the id each session holds as last_event_id
    acked        \* the ids write_ahead has returned

sinkvars == <<table, pending, inserts, state, sink, last, acked>>

None == 0
RowType == [id : Nat \ {0}, parent_event_id : Nat, thread_id : Sessions]

SinkInit ==
    /\ table = <<>>
    /\ pending = [k \in Sinks |-> <<>>]
    /\ inserts = 0
    /\ state = [s \in Sessions |-> "new"]
    /\ sink \in [Sessions -> Sinks]
    /\ last = [s \in Sessions |-> None]
    /\ acked = {}

\* The calls of one connection come from one thread of one process: a session
\* starts when the previous one on its connection has stopped.
Begin(s) ==
    /\ state[s] = "new"
    /\ \A r \in Sessions : sink[r] = sink[s] => state[r] \in {"new", "stopped"}
    /\ state' = [state EXCEPT ![s] = "active"]
    /\ UNCHANGED <<table, pending, inserts, sink, last, acked>>

\* SQLite has one writer: a connection with uncommitted rows keeps the others out.
LockedOut(k) == \E other \in Sinks \ {k} : pending[other] # <<>>

\* Mutant: ids are counted from 0, which is also what a root has for its parent.
InsertFromZero(s) ==
    LET row == [id |-> inserts, parent_event_id |-> last[s], thread_id |-> s]
    IN  /\ state[s] = "active" /\ inserts < MaxRows
        /\ ~LockedOut(sink[s])
        /\ inserts' = inserts + 1
        /\ pending' = [pending EXCEPT ![sink[s]] = Append(@, row)]
        /\ state' = [state EXCEPT ![s] = "inserted"]
        /\ UNCHANGED <<table, sink, last, acked>>

\* write_ahead: the INSERT.
Insert(s) ==
    LET row == [id |-> inserts + 1, parent_event_id |-> last[s], thread_id |-> s]
    IN  /\ state[s] = "active" /\ inserts < MaxRows
        /\ ~LockedOut(sink[s])
        /\ inserts' = inserts + 1
        /\ pending' = [pending EXCEPT ![sink[s]] = Append(@, row)]
        /\ state' = [state EXCEPT ![s] = "inserted"]
        /\ UNCHANGED <<table, sink, last, acked>>

\* Mutant: the error is swallowed, and the node goes on with the id of a row that
\* is nowhere.
InsertSwallowed(s) ==
    /\ state[s] = "active" /\ inserts < MaxRows
    /\ inserts' = inserts + 1
    /\ last' = [last EXCEPT ![s] = inserts + 1]
    /\ UNCHANGED <<table, pending, state, sink, acked>>

\* The INSERT raises (the file is locked, the disk is full): AuditIntegrityError.
InsertRaises(s) ==
    /\ state[s] = "active"
    /\ state' = [state EXCEPT ![s] = "stopped"]
    /\ UNCHANGED <<table, pending, inserts, sink, last, acked>>

\* Mutant: the session does not take over the id.
CommitKeepsLast(s) ==
    /\ state[s] = "inserted"
    /\ table' = table \o pending[sink[s]]
    /\ pending' = [pending EXCEPT ![sink[s]] = <<>>]
    /\ acked' = acked \cup {pending[sink[s]][Len(pending[sink[s]])].id}
    /\ state' = [state EXCEPT ![s] = "active"]
    /\ UNCHANGED <<inserts, sink, last>>

\* Mutant: the error is swallowed, and the node goes on with the event's id.
CommitSwallowed(s) ==
    /\ state[s] = "inserted"
    /\ last' = [last EXCEPT ![s] = pending[sink[s]][Len(pending[sink[s]])].id]
    /\ acked' = acked \cup {last'[s]}
    /\ state' = [state EXCEPT ![s] = "active"]
    /\ UNCHANGED <<table, pending, inserts, sink>>

\* write_ahead: the commit, and the return of event.id to the node.
Commit(s) ==
    /\ state[s] = "inserted"
    /\ table' = table \o pending[sink[s]]
    /\ pending' = [pending EXCEPT ![sink[s]] = <<>>]
    /\ last' = [last EXCEPT ![s] = pending[sink[s]][Len(pending[sink[s]])].id]
    /\ acked' = acked \cup {last'[s]}
    /\ state' = [state EXCEPT ![s] = "active"]
    /\ UNCHANGED <<inserts, sink>>

\* Mutant: the error is swallowed, and the node goes on without an id.
CommitIgnored(s) ==
    /\ state[s] = "inserted"
    /\ state' = [state EXCEPT ![s] = "active"]
    /\ UNCHANGED <<table, pending, inserts, sink, last, acked>>

\* The commit raises.  The transaction stays open, with the row in it.
CommitRaises(s) ==
    /\ state[s] = "inserted"
    /\ state' = [state EXCEPT ![s] = "stopped"]
    /\ UNCHANGED <<table, pending, inserts, sink, last, acked>>

\* The session ends, or its graph raises elsewhere; the connection stays open.
Stop(s) ==
    /\ state[s] = "active"
    /\ state' = [state EXCEPT ![s] = "stopped"]
    /\ UNCHANGED <<table, pending, inserts, sink, last, acked>>

\* close(), or the process dies: what is not committed is gone, and sessions yet
\* to begin on this connection find a new one.
Close(k) ==
    /\ pending[k] # <<>> \/ \E s \in Sessions : sink[s] = k /\ state[s] = "active"
    /\ pending' = [pending EXCEPT ![k] = <<>>]
    /\ state' = [s \in Sessions |-> IF sink[s] = k /\ state[s] # "new" THEN "stopped" ELSE state[s]]
    /\ UNCHANGED <<table, inserts, sink, last, acked>>

\* The process dies after the commit and before write_ahead returns.
DiesAfterCommit(s) ==
    /\ state[s] = "inserted"
    /\ table' = table \o pending[sink[s]]
    /\ pending' = [pending EXCEPT ![sink[s]] = <<>>]
    /\ state' = [state EXCEPT ![s] = "stopped"]
    /\ UNCHANGED <<inserts, sink, last, acked>>

AllStopped == (\A s \in Sessions : state[s] = "stopped") /\ UNCHANGED sinkvars

SinkStep ==
    \/ \E s \in Sessions : \/ Begin(s) \/ Insert(s) \/ InsertRaises(s) \/ Commit(s)
                           \/ CommitRaises(s) \/ Stop(s) \/ DiesAfterCommit(s)
    \/ \E k \in Sinks : Close(k)

SinkNext == SinkStep \/ AllStopped

SinkSpec == SinkInit /\ [][SinkNext]_sinkvars

-----------------------------------------------------------------------------

Committed(id) == \E i \in DOMAIN table : table[i].id = id

\* The connections and the sessions keep their types: a closed connection has an empty
\* transaction, and ids are positive, so that 0 can only mean no parent.
SinkTypeOK ==
    /\ table \in Seq(RowType)
    /\ pending \in [Sinks -> Seq(RowType)]
    /\ inserts \in 0 .. MaxRows
    /\ state \in [Sessions -> {"new", "active", "inserted", "stopped"}]
    /\ sink \in [Sessions -> Sinks]
    /\ last \in [Sessions -> Nat]
    /\ acked \subseteq Nat \ {0}

\* D7: write_ahead persists the event before the transition it records.  An id a
\* node was given is in the file, whatever then dies; and ids are never reused.
AckedAreCommitted ==
    /\ \A id \in acked : Committed(id)
    /\ \A i, j \in DOMAIN table : table[i].id = table[j].id => i = j

Siblings(i, j) == table[i].thread_id = table[j].thread_id

\* No gapped replays: every thread's log is one chain, also when the rows of failed
\* commits come along with a later commit: a thread's first row is its only root, and
\* each later row the child of the row of its thread that was committed just before.
ThreadsAreChains ==
    \A i \in DOMAIN table :
        \/ /\ table[i].parent_event_id = None
           /\ \A j \in 1 .. i - 1 : ~Siblings(i, j)
        \/ \E j \in 1 .. i - 1 : /\ Siblings(i, j)
                                 /\ table[i].parent_event_id = table[j].id
                                 /\ \A k \in j + 1 .. i - 1 : ~Siblings(i, k)

\* A row whose write_ahead did not return can still get into the file.  It is then
\* the last of its thread: no transition was built on it.
GhostsAreLast ==
    \A i, j \in DOMAIN table : i < j /\ Siblings(i, j) => table[i].id \in acked
=============================================================================
