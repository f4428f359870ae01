-------------------------- MODULE AuditFileProofs --------------------------
(***************************************************************************)
(* What the audit file promises for any number of connections, sessions    *)
(* and rows: whoever raises or dies, the log of every thread is a chain of *)
(* the rows its session was told about, with at most one row more.  And    *)
(* what its reader promises: the walk accepts every log that can be        *)
(* replayed, hence every log the sinks wrote, and refuses every other.     *)
(***************************************************************************)
EXTENDS AuditFile, Induction, FiniteSetTheorems

\* One transaction is open at a time, and one session uses a connection.
OneWriter ==
    /\ \A k, l \in Sinks : pending[k] # <<>> /\ pending[l] # <<>> => k = l
    /\ \A r, s \in Sessions :
         /\ sink[r] = sink[s]
         /\ state[r] \in {"active", "inserted"} /\ state[s] \in {"active", "inserted"}
         => r = s

\* No id is used twice, committed or not.
FreshIds ==
    /\ \A i \in DOMAIN table : table[i].id <= inserts
    /\ \A i, j \in DOMAIN table : table[i].id = table[j].id => i = j
    /\ \A k \in Sinks : \A m \in DOMAIN pending[k] :
         /\ pending[k][m].id <= inserts
         /\ \A i \in DOMAIN table : table[i].id # pending[k][m].id
    /\ \A k \in Sinks : \A m, n \in DOMAIN pending[k] :
         pending[k][m].id = pending[k][n].id => m = n

\* An open transaction holds one row per session at most, the child of the event the
\* session holds, and ends with the row of the session that is about to commit.
Transaction ==
    /\ \A k \in Sinks : \A m \in DOMAIN pending[k] :
         LET row == pending[k][m]
         IN  /\ sink[row.thread_id] = k
             /\ state[row.thread_id] \in {"inserted", "stopped"}
             /\ row.parent_event_id = last[row.thread_id]
    /\ \A k \in Sinks : \A m, n \in DOMAIN pending[k] :
         pending[k][m].thread_id = pending[k][n].thread_id => m = n
    /\ \A s \in Sessions : state[s] = "inserted" =>
         /\ pending[sink[s]] # <<>>
         /\ pending[sink[s]][Len(pending[sink[s]])].thread_id = s

\* id is the last event of thread s in rows, or None where s has no event there.
EndsWith(rows, s, id) ==
    \/ id = None /\ \A i \in DOMAIN rows : rows[i].thread_id # s
    \/ \E i \in DOMAIN rows : /\ rows[i].thread_id = s /\ rows[i].id = id
                              /\ \A j \in i + 1 .. Len(rows) : rows[j].thread_id # s

\* The event s holds is the last row of its thread, and it was told about every row.
HoldsLast(s) ==
    /\ EndsWith(table, s, last[s])
    /\ \A i \in DOMAIN table : table[i].thread_id = s => table[i].id \in acked

\* A session that stopped may have a row in the file that it does not know of, unless
\* that row is still in the transaction.
InTransaction(s) == \E m \in DOMAIN pending[sink[s]] : pending[sink[s]][m].thread_id = s

Held == \A s \in Sessions : state[s] # "stopped" \/ InTransaction(s) => HoldsLast(s)

SinkInv ==
    /\ SinkTypeOK /\ OneWriter /\ FreshIds /\ Transaction /\ Held
    /\ AckedAreCommitted /\ ThreadsAreChains /\ GhostsAreLast

-----------------------------------------------------------------------------

\* Sequence c is a with b at its end.
Joined(a, b, c) ==
    /\ Len(a) \in Nat /\ DOMAIN a = 1 .. Len(a)
    /\ DOMAIN b = 1 .. Len(b) /\ DOMAIN c = 1 .. Len(a) + Len(b)
    /\ \A i \in DOMAIN a : c[i] = a[i]
    /\ \A m \in DOMAIN b : c[Len(a) + m] = b[m]
    /\ \A i \in DOMAIN c : i \in DOMAIN a \/ \E m \in DOMAIN b : i = Len(a) + m

LEMMA Joining ==
    ASSUME NEW T, NEW a \in Seq(T), NEW b \in Seq(T)
    PROVE  Joined(a, b, a \o b)
<1> DEFINE c == a \o b
<1>1. /\ Len(a) \in Nat /\ Len(b) \in Nat /\ DOMAIN a = 1 .. Len(a)
      /\ DOMAIN b = 1 .. Len(b) /\ DOMAIN c = 1 .. Len(a) + Len(b)
      /\ \A i \in DOMAIN a : c[i] = a[i]
  OBVIOUS
<1>2. \A m \in DOMAIN b : c[Len(a) + m] = b[m]
  BY <1>1
<1>3. \A i \in DOMAIN c : i \in DOMAIN a \/ \E m \in DOMAIN b : i = Len(a) + m
  <2> SUFFICES ASSUME NEW i \in DOMAIN c, i \notin DOMAIN a
               PROVE  \E m \in DOMAIN b : i = Len(a) + m
    OBVIOUS
  <2>1. i - Len(a) \in DOMAIN b /\ i = Len(a) + (i - Len(a))
    BY <1>1
  <2> QED
    BY <2>1
<1> QED
  BY <1>1, <1>2, <1>3 DEF Joined

\* ThreadsAreChains, of any log: row i is the first of its thread and its root, or row
\* j is the last of its thread before it, and its parent.
Root(rows, i) == /\ rows[i].parent_event_id = None
                 /\ \A j \in 1 .. i - 1 : rows[i].thread_id # rows[j].thread_id

Child(rows, i, j) == /\ rows[i].thread_id = rows[j].thread_id
                     /\ rows[i].parent_event_id = rows[j].id
                     /\ \A k \in j + 1 .. i - 1 : rows[i].thread_id # rows[k].thread_id

Chain(rows) == \A i \in DOMAIN rows : Root(rows, i) \/ \E j \in 1 .. i - 1 : Child(rows, i, j)

\* A log of chains that takes rows of different threads, each the child of the last
\* event of its thread, is a log of chains.
LEMMA ChainGrows ==
    ASSUME NEW a, NEW b, NEW c, Joined(a, b, c), Chain(a),
           \A m, n \in DOMAIN b : b[m].thread_id = b[n].thread_id => m = n,
           \A m \in DOMAIN b : EndsWith(a, b[m].thread_id, b[m].parent_event_id)
    PROVE  Chain(c)
<1> USE DEF Joined
<1> DEFINE n == Len(a)
           Linked(i) == Root(c, i) \/ \E j \in 1 .. i - 1 : Child(c, i, j)
<1>1. ASSUME NEW i \in DOMAIN a PROVE Linked(i)
  <2>1. \A j \in 1 .. i : j \in DOMAIN a /\ c[j] = a[j]
    OBVIOUS
  <2>2. Root(a, i) => Root(c, i)
    BY <2>1 DEF Root
  <2>3. ASSUME NEW j \in 1 .. i - 1 PROVE Child(a, i, j) => Child(c, i, j)
    <3>1. c[i] = a[i] /\ c[j] = a[j] /\ \A k \in j + 1 .. i - 1 : c[k] = a[k]
      BY <2>1
    <3> QED
      BY <3>1 DEF Child
  <2> QED
    BY <2>2, <2>3, Zenon DEF Chain
<1>2. ASSUME NEW m \in DOMAIN b PROVE Linked(n + m)
  <2> DEFINE s == b[m].thread_id
  <2>1. \A j \in n + 1 .. n + m - 1 : c[j].thread_id # s
    <3> SUFFICES ASSUME NEW j \in n + 1 .. n + m - 1, c[j].thread_id = s PROVE FALSE
      OBVIOUS
    <3>1. j - n \in DOMAIN b /\ j = n + (j - n) /\ j - n # m
      OBVIOUS
    <3>2. b[j - n].thread_id = b[m].thread_id
      BY <3>1
    <3> QED
      BY <3>1, <3>2
  <2>2. c[n + m] = b[m]
    OBVIOUS
  <2>3. CASE b[m].parent_event_id = None /\ \A i \in DOMAIN a : a[i].thread_id # s
    <3>1. \A j \in 1 .. n + m - 1 : c[j].thread_id # s
      BY <2>1, <2>3
    <3> QED
      BY <2>2, <2>3, <3>1 DEF Root
  <2>4. ASSUME NEW i \in DOMAIN a, a[i].thread_id = s, a[i].id = b[m].parent_event_id,
               \A j \in i + 1 .. n : a[j].thread_id # s
        PROVE  Linked(n + m)
    <3>1. i \in 1 .. n + m - 1 /\ c[i] = a[i]
      OBVIOUS
    <3>2. \A l \in i + 1 .. n + m - 1 : c[l].thread_id # s
      <4> SUFFICES ASSUME NEW l \in i + 1 .. n + m - 1, l <= n PROVE c[l].thread_id # s
        BY <2>1
      <4> QED
        BY <2>4
    <3>3. Child(c, n + m, i)
      BY <2>2, <2>4, <3>1, <3>2 DEF Child
    <3> QED
      BY <3>1, <3>3
  <2> QED
    BY <2>3, <2>4 DEF EndsWith
<1>3. \A i \in DOMAIN c : Linked(i)
  BY <1>1, <1>2
<1> QED
  BY <1>3 DEF Chain

-----------------------------------------------------------------------------

\* The rows of an open transaction, and of the table.
LEMMA RowTypes ==
    ASSUME SinkTypeOK, NEW k \in Sinks
    PROVE  /\ table \in Seq(RowType) /\ pending[k] \in Seq(RowType)
           /\ \A i \in DOMAIN table : table[i] \in RowType
           /\ \A m \in DOMAIN pending[k] : /\ pending[k][m].thread_id \in Sessions
                                           /\ pending[k][m].id \in Nat \ {0}
<1>1. table \in Seq(RowType) /\ pending[k] \in Seq(RowType)
  BY DEF SinkTypeOK
<1>2. /\ \A i \in DOMAIN table : table[i] \in RowType
      /\ \A m \in DOMAIN pending[k] : pending[k][m] \in RowType
  BY <1>1
<1> QED
  BY <1>1, <1>2 DEF RowType

\* Committing the open transaction of k keeps what the reader is promised, and what
\* every session not in it holds.
LEMMA Merge ==
    ASSUME SinkInv, NEW k \in Sinks, table' = table \o pending[k],
           acked \subseteq acked',
           \A id \in acked' \ acked : \E m \in DOMAIN pending[k] : pending[k][m].id = id
    PROVE  /\ Joined(table, pending[k], table') /\ table' \in Seq(RowType)
           /\ AckedAreCommitted' /\ ThreadsAreChains' /\ GhostsAreLast'
           /\ \A s \in Sessions :
                HoldsLast(s) /\ last'[s] = last[s] /\ (sink[s] # k \/ ~InTransaction(s))
                => HoldsLast(s)'
<1> DEFINE open == pending[k]
           n    == Len(table)
<1>1. /\ table \in Seq(RowType) /\ open \in Seq(RowType) /\ table' \in Seq(RowType)
      /\ \A m \in DOMAIN open : open[m].thread_id \in Sessions
  BY RowTypes DEF SinkInv
<1>2. Joined(table, open, table')
  BY <1>1, Joining
<1>3. \A m \in DOMAIN open :
        /\ open[m].parent_event_id = last[open[m].thread_id]
        /\ sink[open[m].thread_id] = k
        /\ HoldsLast(open[m].thread_id)
  <2> SUFFICES ASSUME NEW m \in DOMAIN open
               PROVE  /\ open[m].parent_event_id = last[open[m].thread_id]
                      /\ sink[open[m].thread_id] = k
                      /\ HoldsLast(open[m].thread_id)
    OBVIOUS
  <2>1. open[m].parent_event_id = last[open[m].thread_id] /\ sink[open[m].thread_id] = k
    BY DEF SinkInv, Transaction
  <2>2. InTransaction(open[m].thread_id)
    BY <2>1 DEF InTransaction
  <2> QED
    BY <1>1, <2>1, <2>2 DEF SinkInv, Held
<1>4. \A l, m \in DOMAIN open : open[l].thread_id = open[m].thread_id => l = m
  BY DEF SinkInv, Transaction
<1>5. AckedAreCommitted'
  <2>1. \A id \in acked' : \E i \in DOMAIN table' : table'[i].id = id
    <3> SUFFICES ASSUME NEW id \in acked'
                 PROVE  \E i \in DOMAIN table' : table'[i].id = id
      OBVIOUS
    <3>1. CASE id \in acked
      BY <1>2, <3>1 DEF SinkInv, AckedAreCommitted, Committed, Joined
    <3>2. ASSUME NEW m \in DOMAIN open, open[m].id = id
          PROVE  \E i \in DOMAIN table' : table'[i].id = id
      <4>1. n + m \in DOMAIN table' /\ table'[n + m].id = id
        BY <1>2, <3>2 DEF Joined
      <4> QED
        BY <4>1
    <3> QED
      BY <3>1, <3>2
  <2>2. \A i, j \in DOMAIN table' : table'[i].id = table'[j].id => i = j
    <3>1. \A i, j \in DOMAIN table : table[i].id = table[j].id => i = j
      BY DEF SinkInv, FreshIds
    <3>2. \A l, m \in DOMAIN open : open[l].id = open[m].id => l = m
      BY DEF SinkInv, FreshIds
    <3>3. \A i \in DOMAIN table : \A m \in DOMAIN open : table[i].id # open[m].id
      BY DEF SinkInv, FreshIds
    <3>4. \A i \in DOMAIN table' :
            \/ i \in DOMAIN table /\ table'[i] = table[i]
            \/ \E m \in DOMAIN open : i = n + m /\ table'[i] = open[m]
      BY <1>2 DEF Joined
    <3> HIDE DEF open, n
    <3> QED
      BY <3>1, <3>2, <3>3, <3>4
  <2> QED
    BY <2>1, <2>2 DEF AckedAreCommitted, Committed
<1>6. ThreadsAreChains'
  <2>1. Chain(table)
    BY DEF SinkInv, ThreadsAreChains, Siblings, Chain, Root, Child
  <2>2. \A m \in DOMAIN open : EndsWith(table, open[m].thread_id, open[m].parent_event_id)
    BY <1>3 DEF HoldsLast
  <2>3. Chain(table')
    <3> HIDE DEF open
    <3> QED
      BY <1>2, <1>4, <2>1, <2>2, ChainGrows
  <2> QED
    BY <2>3 DEF ThreadsAreChains, Siblings, Chain, Root, Child
<1>7. GhostsAreLast'
  <2> SUFFICES ASSUME NEW i \in DOMAIN table', NEW j \in DOMAIN table', i < j,
                      table'[i].thread_id = table'[j].thread_id
               PROVE  table'[i].id \in acked'
    BY DEF GhostsAreLast, Siblings
  <2>1. CASE j \in DOMAIN table
    <3>1. i \in DOMAIN table /\ table'[i] = table[i] /\ table'[j] = table[j]
      BY <1>2, <2>1 DEF Joined
    <3> QED
      BY <2>1, <3>1 DEF SinkInv, GhostsAreLast, Siblings
  <2>2. ASSUME NEW m \in DOMAIN open, j = n + m PROVE table'[i].id \in acked'
    <3>1. table'[j] = open[m]
      BY <1>2, <2>2 DEF Joined
    <3>2. i \in DOMAIN table
      <4> SUFFICES ASSUME NEW l \in DOMAIN open, i = n + l PROVE FALSE
        BY <1>2 DEF Joined
      <4>1. open[l].thread_id = open[m].thread_id /\ l # m
        BY <1>2, <2>2, <3>1 DEF Joined
      <4> QED
        BY <1>4, <4>1
    <3>3. table[i].thread_id = open[m].thread_id /\ table'[i] = table[i]
      BY <1>2, <3>1, <3>2 DEF Joined
    <3> QED
      BY <1>3, <3>2, <3>3 DEF HoldsLast
  <2> QED
    BY <1>2, <2>1, <2>2 DEF Joined
<1>8. ASSUME NEW s \in Sessions, HoldsLast(s), last'[s] = last[s],
             sink[s] # k \/ ~InTransaction(s)
      PROVE  HoldsLast(s)'
  <2>1. \A m \in DOMAIN open : open[m].thread_id # s
    BY <1>3, <1>8 DEF InTransaction
  <2>2. \A i \in DOMAIN table' : table'[i].thread_id = s =>
          i \in DOMAIN table /\ table'[i] = table[i]
    BY <1>2, <2>1 DEF Joined
  <2>3. EndsWith(table', s, last[s])
    <3>1. CASE last[s] = None /\ \A i \in DOMAIN table : table[i].thread_id # s
      BY <2>2, <3>1 DEF EndsWith
    <3>2. ASSUME NEW i \in DOMAIN table, table[i].thread_id = s, table[i].id = last[s],
                 \A j \in i + 1 .. n : table[j].thread_id # s
          PROVE  EndsWith(table', s, last[s])
      <4>1. i \in DOMAIN table' /\ table'[i] = table[i]
        BY <1>1, <1>2 DEF Joined
      <4>2. \A j \in i + 1 .. Len(table') : table'[j].thread_id # s
        <5> SUFFICES ASSUME NEW j \in i + 1 .. Len(table'), table'[j].thread_id = s PROVE FALSE
          OBVIOUS
        <5>1. j \in DOMAIN table'
          BY <1>1, <4>1
        <5>2. j \in i + 1 .. n /\ table'[j] = table[j]
          BY <1>1, <2>2, <5>1
        <5> QED
          BY <3>2, <5>2
      <4> QED
        BY <3>2, <4>1, <4>2 DEF EndsWith
    <3> QED
      BY <1>8, <3>1, <3>2 DEF HoldsLast, EndsWith
  <2>4. \A i \in DOMAIN table' : table'[i].thread_id = s => table'[i].id \in acked'
    BY <1>8, <2>2 DEF HoldsLast
  <2> QED
    BY <1>8, <2>3, <2>4 DEF HoldsLast
<1> QED
  BY <1>1, <1>2, <1>5, <1>6, <1>7, <1>8

\* A step that writes no row and tells no session anything keeps what is promised to
\* the reader, and what the sessions hold, if nobody is woken from the dead.
LEMMA Unread ==
    ASSUME SinkInv, UNCHANGED <<table, last, acked>>,
           \A s \in Sessions : state'[s] # "stopped" \/ InTransaction(s)'
                               => state[s] # "stopped" \/ InTransaction(s)
    PROVE  AckedAreCommitted' /\ ThreadsAreChains' /\ GhostsAreLast' /\ Held'
<1>1. AckedAreCommitted' /\ ThreadsAreChains' /\ GhostsAreLast'
  BY DEF SinkInv, AckedAreCommitted, Committed, ThreadsAreChains, GhostsAreLast, Siblings
<1>2. \A s \in Sessions : HoldsLast(s) => HoldsLast(s)'
  BY DEF HoldsLast, EndsWith
<1> QED
  BY <1>1, <1>2 DEF SinkInv, Held

\* write_ahead's commit, whether it returns to its session or not.
LEMMA Committing ==
    ASSUME SinkInv, NEW s \in Sessions, state[s] = "inserted",
           NEW told \in {"active", "stopped"},
           table' = table \o pending[sink[s]],
           pending' = [pending EXCEPT ![sink[s]] = <<>>],
           state' = [state EXCEPT ![s] = told],
           UNCHANGED <<inserts, sink>>,
           LET top == pending[sink[s]][Len(pending[sink[s]])]
           IN  IF told = "active"
               THEN last' = [last EXCEPT ![s] = top.id] /\ acked' = acked \cup {top.id}
               ELSE UNCHANGED <<last, acked>>
    PROVE  SinkInv'
<1> DEFINE k    == sink[s]
           open == pending[k]
           m    == Len(open)
           top  == open[m]
<1>1. /\ k \in Sinks /\ open # <<>> /\ open \in Seq(RowType) /\ table \in Seq(RowType)
      /\ top.thread_id = s /\ m \in DOMAIN open /\ top.id \in Nat \ {0}
  <2>1. k \in Sinks /\ open # <<>> /\ top.thread_id = s
    BY DEF SinkInv, SinkTypeOK, Transaction
  <2>2. open \in Seq(RowType) /\ table \in Seq(RowType)
    BY <2>1, RowTypes DEF SinkInv
  <2>3. m \in DOMAIN open
    BY <2>1, <2>2
  <2> QED
    BY <2>1, <2>2, <2>3, RowTypes DEF SinkInv
<1>2. \A l \in Sinks : pending'[l] = <<>>
  BY <1>1 DEF SinkInv, SinkTypeOK, OneWriter
<1>3. /\ acked \subseteq acked'
      /\ \A id \in acked' \ acked : \E i \in DOMAIN open : open[i].id = id
  BY <1>1
<1>4. /\ Joined(table, open, table') /\ table' \in Seq(RowType)
      /\ AckedAreCommitted' /\ ThreadsAreChains' /\ GhostsAreLast'
      /\ \A r \in Sessions :
           HoldsLast(r) /\ last'[r] = last[r] /\ (sink[r] # k \/ ~InTransaction(r))
           => HoldsLast(r)'
  BY <1>1, <1>3, Merge
<1>5. SinkTypeOK'
  <2>1. pending' \in [Sinks -> Seq(RowType)]
    BY <1>1 DEF SinkInv, SinkTypeOK
  <2>2. state' \in [Sessions -> {"new", "active", "inserted", "stopped"}]
    BY DEF SinkInv, SinkTypeOK
  <2>3. last' \in [Sessions -> Nat] /\ acked' \subseteq Nat \ {0}
    <3> HIDE DEF top
    <3>1. top.id \in Nat \ {0}
      BY <1>1
    <3>2. \/ last' = [last EXCEPT ![s] = top.id] /\ acked' = acked \cup {top.id}
          \/ last' = last /\ acked' = acked
      BY DEF top
    <3> QED
      BY <3>1, <3>2 DEF SinkInv, SinkTypeOK
  <2> QED
    BY <1>4, <2>1, <2>2, <2>3 DEF SinkInv, SinkTypeOK
<1>6. OneWriter'
  BY <1>2 DEF SinkInv, OneWriter, SinkTypeOK
<1>7. FreshIds'
  <2>1. \A i \in DOMAIN table' : table'[i].id <= inserts
    BY <1>1, <1>4 DEF SinkInv, FreshIds, Joined
  <2> QED
    BY <1>2, <1>4, <2>1 DEF FreshIds, AckedAreCommitted
<1>8. Transaction'
  BY <1>1, <1>2 DEF SinkInv, Transaction, OneWriter, SinkTypeOK
<1>9. Held'
  <2> SUFFICES ASSUME NEW r \in Sessions, state'[r] # "stopped" PROVE HoldsLast(r)'
    BY <1>2 DEF Held, InTransaction, SinkInv, SinkTypeOK
  <2>1. CASE r # s
    <3>1. state[r] # "stopped" /\ last'[r] = last[r]
      BY <2>1 DEF SinkInv, SinkTypeOK
    <3>2. sink[r] # k \/ ~InTransaction(r)
      <4> SUFFICES ASSUME sink[r] = k PROVE ~InTransaction(r)
        OBVIOUS
      <4>1. state[r] = "new"
        BY <2>1, <3>1 DEF SinkInv, OneWriter, SinkTypeOK
      <4> QED
        BY <1>1, <4>1 DEF SinkInv, Transaction, InTransaction
    <3> QED
      BY <1>4, <3>1, <3>2 DEF SinkInv, Held
  <2>2. CASE r = s
    <3>1. told = "active" /\ last'[s] = top.id /\ acked' = acked \cup {top.id}
      BY <2>2 DEF SinkInv, SinkTypeOK
    <3>2. HoldsLast(s)
      BY DEF SinkInv, Held
    <3>3. /\ Len(table) + m \in DOMAIN table' /\ table'[Len(table) + m] = top
          /\ Len(table') = Len(table) + m
      BY <1>1, <1>4 DEF Joined
    <3>4. EndsWith(table', s, top.id)
      <4>1. /\ table'[Len(table) + m].thread_id = s /\ table'[Len(table) + m].id = top.id
            /\ \A j \in Len(table) + m + 1 .. Len(table') : table'[j].thread_id # s
        BY <1>1, <3>3
      <4> QED
        BY <3>3, <4>1, Zenon DEF EndsWith
    <3>5. \A i \in DOMAIN table' : table'[i].thread_id = s => table'[i].id \in acked'
      <4> SUFFICES ASSUME NEW i \in DOMAIN table', table'[i].thread_id = s
                   PROVE  table'[i].id \in acked'
        OBVIOUS
      <4>1. CASE i \in DOMAIN table
        BY <1>4, <3>1, <3>2, <4>1 DEF Joined, HoldsLast
      <4>2. ASSUME NEW j \in DOMAIN open, i = Len(table) + j PROVE table'[i].id \in acked'
        <5>1. table'[i] = open[j]
          BY <1>4, <4>2 DEF Joined
        <5>2. j = m
          BY <1>1, <5>1 DEF SinkInv, Transaction
        <5> QED
          BY <3>1, <5>1, <5>2
      <4> QED
        BY <1>4, <4>1, <4>2 DEF Joined
    <3> QED
      BY <2>2, <3>1, <3>4, <3>5 DEF HoldsLast
  <2> QED
    BY <2>1, <2>2
<1> QED
  BY <1>4, <1>5, <1>6, <1>7, <1>8, <1>9 DEF SinkInv

\* write_ahead's INSERT.
LEMMA Inserting ==
    ASSUME SinkInv, NEW s \in Sessions, Insert(s)
    PROVE  SinkInv'
<1> USE MaxRowsAssumption
<1> DEFINE k    == sink[s]
           row  == [id |-> inserts + 1, parent_event_id |-> last[s], thread_id |-> s]
           m    == Len(pending[k]) + 1
<1>1. /\ k \in Sinks /\ row \in RowType /\ pending[k] \in Seq(RowType)
      /\ pending' = [pending EXCEPT ![k] = Append(pending[k], row)]
      /\ inserts \in Nat /\ inserts' = inserts + 1
      /\ UNCHANGED <<table, sink, last, acked>>
      /\ state[s] = "active" /\ state' = [state EXCEPT ![s] = "inserted"]
      /\ \A l \in Sinks \ {k} : pending[l] = <<>>
  BY DEF SinkInv, SinkTypeOK, RowType, Insert, LockedOut
<1>2. /\ pending'[k] \in Seq(RowType) /\ DOMAIN pending'[k] = DOMAIN pending[k] \cup {m}
      /\ m \notin DOMAIN pending[k] /\ Len(pending'[k]) = m /\ pending'[k] # <<>>
      /\ pending'[k][m] = row
      /\ \A i \in DOMAIN pending[k] : pending'[k][i] = pending[k][i]
      /\ \A l \in Sinks \ {k} : pending'[l] = <<>>
  <2>1. pending'[k] = Append(pending[k], row) /\ \A l \in Sinks \ {k} : pending'[l] = <<>>
    BY <1>1 DEF SinkInv, SinkTypeOK
  <2> HIDE DEF row
  <2>2. /\ Append(pending[k], row) \in Seq(RowType) /\ Append(pending[k], row)[m] = row
        /\ Len(Append(pending[k], row)) = m /\ m \notin DOMAIN pending[k]
        /\ DOMAIN Append(pending[k], row) = DOMAIN pending[k] \cup {m}
        /\ \A i \in DOMAIN pending[k] : Append(pending[k], row)[i] = pending[k][i]
    BY <1>1
  <2>3. Append(pending[k], row) # <<>>
    BY <2>2
  <2> QED
    BY <2>1, <2>2, <2>3
<1>3. \A i \in DOMAIN pending[k] : pending[k][i].thread_id # s
  BY <1>1 DEF SinkInv, Transaction
<1>4. SinkTypeOK'
  BY <1>1, <1>2 DEF SinkInv, SinkTypeOK, Insert
<1>5. OneWriter'
  BY <1>1, <1>2 DEF SinkInv, OneWriter, SinkTypeOK
<1>6. FreshIds'
  <2>1. \A i \in DOMAIN pending[k] : pending[k][i].id \in Nat /\ pending[k][i].id <= inserts
    BY <1>1, RowTypes DEF SinkInv, FreshIds
  <2>2. \A i \in DOMAIN table : table[i].id \in Nat /\ table[i].id <= inserts
    BY <1>1, RowTypes DEF SinkInv, FreshIds, RowType
  <2>3. row.id = inserts + 1
    OBVIOUS
  <2>4. /\ \A i \in DOMAIN table' : table'[i].id <= inserts'
        /\ \A i, j \in DOMAIN table' : table'[i].id = table'[j].id => i = j
    BY <1>1, <2>2 DEF SinkInv, FreshIds
  <2>5. \A i \in DOMAIN pending'[k] :
          /\ pending'[k][i].id <= inserts'
          /\ \A j \in DOMAIN table' : table'[j].id # pending'[k][i].id
    BY <1>1, <1>2, <2>1, <2>2, <2>3 DEF SinkInv, FreshIds
  <2>6. \A i, j \in DOMAIN pending'[k] : pending'[k][i].id = pending'[k][j].id => i = j
    BY <1>1, <1>2, <2>1, <2>3 DEF SinkInv, FreshIds
  <2> QED
    BY <1>2, <2>4, <2>5, <2>6 DEF FreshIds
<1>7. Transaction'
  <2>1. \A i \in DOMAIN pending'[k] :
          /\ sink'[pending'[k][i].thread_id] = k
          /\ state'[pending'[k][i].thread_id] \in {"inserted", "stopped"}
          /\ pending'[k][i].parent_event_id = last'[pending'[k][i].thread_id]
    <3> SUFFICES ASSUME NEW i \in DOMAIN pending'[k]
                 PROVE  /\ sink[pending'[k][i].thread_id] = k
                        /\ state'[pending'[k][i].thread_id] \in {"inserted", "stopped"}
                        /\ pending'[k][i].parent_event_id = last[pending'[k][i].thread_id]
      BY <1>1
    <3>1. CASE i = m
      BY <1>1, <1>2, <3>1 DEF SinkInv, SinkTypeOK
    <3>2. CASE i \in DOMAIN pending[k]
      <4>1. pending[k][i].thread_id \in Sessions /\ pending'[k][i] = pending[k][i]
        BY <1>1, <1>2, <3>2, RowTypes DEF SinkInv
      <4> QED
        BY <1>1, <3>2, <4>1 DEF SinkInv, SinkTypeOK, Transaction
    <3> QED
      BY <1>2, <3>1, <3>2
  <2>2. \A i, j \in DOMAIN pending'[k] :
          pending'[k][i].thread_id = pending'[k][j].thread_id => i = j
    <3>1. row.thread_id = s
      OBVIOUS
    <3> QED
      BY <1>1, <1>2, <1>3, <3>1 DEF SinkInv, Transaction
  <2>3. ASSUME NEW r \in Sessions, state'[r] = "inserted"
        PROVE  /\ pending'[sink'[r]] # <<>>
               /\ pending'[sink'[r]][Len(pending'[sink'[r]])].thread_id = r
    <3>1. r = s
      BY <1>1, <1>2, <2>3 DEF SinkInv, SinkTypeOK, OneWriter, Transaction
    <3> QED
      BY <1>1, <1>2, <3>1
  <2> QED
    BY <1>1, <1>2, <2>1, <2>2, <2>3 DEF Transaction
<1>8. \A r \in Sessions : state'[r] # "stopped" \/ InTransaction(r)'
                          => state[r] # "stopped" \/ InTransaction(r)
  <2> SUFFICES ASSUME NEW r \in Sessions, r # s, InTransaction(r)' PROVE InTransaction(r)
    BY <1>1 DEF SinkInv, SinkTypeOK
  <2>1. sink[r] = k
    BY <1>1, <1>2 DEF InTransaction, SinkInv, SinkTypeOK
  <2> QED
    BY <1>1, <1>2, <2>1 DEF InTransaction
<1> QED
  BY <1>1, <1>4, <1>5, <1>6, <1>7, <1>8, Unread DEF SinkInv

\* A session that begins, or gives up without a commit, and a connection that goes.
LEMMA Moving ==
    ASSUME SinkInv, NEW s \in Sessions,
           Begin(s) \/ InsertRaises(s) \/ CommitRaises(s) \/ Stop(s)
    PROVE  SinkInv'
<1>1. /\ UNCHANGED <<table, pending, inserts, sink, last, acked>>
      /\ \/ /\ state[s] = "new" /\ state' = [state EXCEPT ![s] = "active"]
            /\ \A r \in Sessions : sink[r] = sink[s] => state[r] \in {"new", "stopped"}
         \/ /\ state[s] \in {"active", "inserted"}
            /\ state' = [state EXCEPT ![s] = "stopped"]
  BY DEF Begin, InsertRaises, CommitRaises, Stop
<1>2. SinkTypeOK' /\ OneWriter' /\ FreshIds'
  <2>1. SinkTypeOK' /\ FreshIds'
    BY <1>1 DEF SinkInv, SinkTypeOK, FreshIds
  <2>2. \A r \in Sessions : state'[r] \in {"active", "inserted"} =>
          \/ state[r] \in {"active", "inserted"}
          \/ r = s /\ state[s] = "new"
    BY <1>1 DEF SinkInv, SinkTypeOK
  <2>3. state'[s] \in {"active", "inserted"} =>
          \A r \in Sessions : sink[r] = sink[s] => state[r] \in {"new", "stopped"}
    BY <1>1 DEF SinkInv, SinkTypeOK
  <2>4. \A q, r \in Sessions :
          /\ sink[q] = sink[r]
          /\ state'[q] \in {"active", "inserted"} /\ state'[r] \in {"active", "inserted"}
          => q = r
    BY <2>2, <2>3 DEF SinkInv, OneWriter
  <2> QED
    BY <1>1, <2>1, <2>4 DEF SinkInv, OneWriter
<1>3. Transaction'
  <2>1. ASSUME NEW k \in Sinks, NEW m \in DOMAIN pending[k]
        PROVE  state'[pending[k][m].thread_id] \in {"inserted", "stopped"}
    <3>1. /\ pending[k][m].thread_id \in Sessions
          /\ state[pending[k][m].thread_id] \in {"inserted", "stopped"}
      BY RowTypes DEF SinkInv, Transaction
    <3> QED
      BY <1>1, <3>1 DEF SinkInv, SinkTypeOK
  <2>2. \A r \in Sessions : state'[r] = "inserted" => state[r] = "inserted"
    BY <1>1 DEF SinkInv, SinkTypeOK
  <2> QED
    BY <1>1, <2>1, <2>2 DEF SinkInv, Transaction
<1>4. \A r \in Sessions : state'[r] # "stopped" \/ InTransaction(r)'
                          => state[r] # "stopped" \/ InTransaction(r)
  BY <1>1 DEF SinkInv, SinkTypeOK, InTransaction
<1> QED
  BY <1>1, <1>2, <1>3, <1>4, Unread DEF SinkInv

LEMMA Closing ==
    ASSUME SinkInv, NEW k \in Sinks, Close(k)
    PROVE  SinkInv'
<1>1. /\ UNCHANGED <<table, inserts, sink, last, acked>>
      /\ pending' = [pending EXCEPT ![k] = <<>>]
      /\ state' = [s \in Sessions |-> IF sink[s] = k /\ state[s] # "new"
                                      THEN "stopped" ELSE state[s]]
  BY DEF Close
<1>2. /\ pending'[k] = <<>> /\ \A l \in Sinks \ {k} : pending'[l] = pending[l]
      /\ \A s \in Sessions : state'[s] \in {state[s], "stopped"}
      /\ \A s \in Sessions : sink[s] = k => state'[s] \in {"new", "stopped"}
  BY <1>1 DEF SinkInv, SinkTypeOK
<1>3. SinkTypeOK'
  BY <1>1 DEF SinkInv, SinkTypeOK
<1>4. OneWriter'
  BY <1>1, <1>2 DEF SinkInv, OneWriter, SinkTypeOK
<1>5. FreshIds'
  BY <1>1, <1>2 DEF SinkInv, FreshIds
<1>6. Transaction'
  <2>1. ASSUME NEW l \in Sinks \ {k}, NEW m \in DOMAIN pending[l]
        PROVE  state'[pending[l][m].thread_id] \in {"inserted", "stopped"}
    <3>1. /\ pending[l][m].thread_id \in Sessions
          /\ state[pending[l][m].thread_id] \in {"inserted", "stopped"}
      BY RowTypes DEF SinkInv, Transaction
    <3> QED
      BY <1>2, <3>1
  <2>2. \A s \in Sessions : state'[s] = "inserted" =>
          state[s] = "inserted" /\ sink[s] \in Sinks \ {k}
    BY <1>2 DEF SinkInv, SinkTypeOK
  <2> QED
    BY <1>1, <1>2, <2>1, <2>2 DEF SinkInv, Transaction
<1>7. \A s \in Sessions : state'[s] # "stopped" \/ InTransaction(s)'
                          => state[s] # "stopped" \/ InTransaction(s)
  <2> SUFFICES ASSUME NEW s \in Sessions, InTransaction(s)' PROVE InTransaction(s)
    BY <1>2
  <2>1. sink[s] \in Sinks \ {k}
    BY <1>1, <1>2 DEF InTransaction, SinkInv, SinkTypeOK
  <2> QED
    BY <1>1, <1>2, <2>1 DEF InTransaction
<1> QED
  BY <1>1, <1>3, <1>4, <1>5, <1>6, <1>7, Unread DEF SinkInv

-----------------------------------------------------------------------------

LEMMA SinkInvInit == SinkInit => SinkInv
<1> SUFFICES ASSUME SinkInit PROVE SinkInv
  OBVIOUS
<1>1. SinkTypeOK
  BY MaxRowsAssumption DEF SinkInit, SinkTypeOK, None
<1>2. OneWriter /\ FreshIds /\ Transaction
  BY DEF SinkInit, OneWriter, FreshIds, Transaction
<1>3. Held
  BY DEF SinkInit, Held, HoldsLast, EndsWith
<1> QED
  BY <1>1, <1>2, <1>3 DEF SinkInit, SinkInv, AckedAreCommitted, ThreadsAreChains,
                          GhostsAreLast

LEMMA SinkInvStep ==
    ASSUME SinkInv, SinkStep \/ UNCHANGED sinkvars
    PROVE  SinkInv'
<1>1. ASSUME NEW s \in Sessions, Insert(s) PROVE SinkInv'
  BY <1>1, Inserting
<1>2. ASSUME NEW s \in Sessions, Commit(s) PROVE SinkInv'
  <2>1. LET top == pending[sink[s]][Len(pending[sink[s]])]
        IN  last' = [last EXCEPT ![s] = top.id] /\ acked' = acked \cup {top.id}
    BY <1>2 DEF Commit, SinkInv, SinkTypeOK
  <2> QED
    BY <1>2, <2>1, Committing DEF Commit
<1>3. ASSUME NEW s \in Sessions, DiesAfterCommit(s) PROVE SinkInv'
  BY <1>3, Committing DEF DiesAfterCommit
<1>4. ASSUME NEW s \in Sessions, Begin(s) \/ InsertRaises(s) \/ CommitRaises(s) \/ Stop(s)
      PROVE  SinkInv'
  BY <1>4, Moving
<1>5. ASSUME NEW k \in Sinks, Close(k) PROVE SinkInv'
  BY <1>5, Closing
<1>6. CASE UNCHANGED sinkvars
  BY <1>6 DEF sinkvars, SinkInv, SinkTypeOK, OneWriter, FreshIds, Transaction, Held,
              HoldsLast, EndsWith, InTransaction, AckedAreCommitted, Committed,
              ThreadsAreChains, GhostsAreLast, Siblings
<1> QED
  BY <1>1, <1>2, <1>3, <1>4, <1>5, <1>6 DEF SinkStep

\* write_ahead keeps its word to every session, on any number of connections, whatever
\* raises and whoever dies, and whether or not the file is read afterwards: an id it
\* returned is in the file; every thread is a chain; and only its last row can be one
\* that no session was told about.
THEOREM WriteAheadPromise ==
    FileSpec => [](SinkTypeOK /\ AckedAreCommitted /\ ThreadsAreChains /\ GhostsAreLast)
<1>1. FileInit => SinkInv
  BY SinkInvInit DEF FileInit
<1>2. SinkInv /\ [FileNext]_filevars => SinkInv'
  BY SinkInvStep DEF FileNext, Write, ReadThread, Walk, Verified, filevars
<1>3. SinkInv => SinkTypeOK /\ AckedAreCommitted /\ ThreadsAreChains /\ GhostsAreLast
  BY DEF SinkInv
<1> QED
  BY <1>1, <1>2, <1>3, PTL DEF FileSpec

\* The connections and sessions keep their types.
THEOREM SinkTypeCorrect == FileSpec => []SinkTypeOK
  BY WriteAheadPromise, PTL

\* No session holds an id that a crash or a failed commit can take back.
THEOREM AcknowledgedIsDurable == FileSpec => []AckedAreCommitted
  BY WriteAheadPromise, PTL

\* Sessions that share connections and transactions do not break each other's chains.
THEOREM EachThreadAChain == FileSpec => []ThreadsAreChains
  BY WriteAheadPromise, PTL

\* A row no session was told about has no successor.
THEOREM GhostsEndTheLog == FileSpec => []GhostsAreLast
  BY WriteAheadPromise, PTL

-----------------------------------------------------------------------------

\* The rows the walk has found: visited, or on the stack.
Seen == visited \cup {stack[m] : m \in DOMAIN stack}

\* Where the walk stands, from root r: nothing is on the stack twice or was visited;
\* each row found is r or hangs below a visited one, no deeper than rows were visited;
\* and what hangs below a visited row was found.
Walking(r) ==
    /\ \A m, n \in DOMAIN stack : stack[m] = stack[n] => m = n
    /\ \A m \in DOMAIN stack : stack[m] \notin visited
    /\ r \in Seen
    /\ \E depth \in [Rows -> Nat] : \A i \in Seen :
         /\ depth[i] <= Cardinality(visited)
         /\ \/ i = r /\ depth[i] = 0
            \/ i # r /\ parent[i] \in visited /\ depth[i] = depth[parent[i]] + 1
    /\ \A i \in visited, j \in Rows : parent[j] = i => j \in Seen

WalkInv ==
    /\ parent \in Seq(Int)
    /\ visited \subseteq Rows
    /\ stack \in Seq(Rows)
    /\ outcome \in {"reading", "walking", "ok", "no root", "many roots", "orphans"}
    /\ outcome = "reading" => visited = {} /\ stack = <<>>
    /\ outcome = "no root" => roots = {}
    /\ outcome = "many roots" => \E q, r \in roots : q # r
    /\ outcome \in {"walking", "ok", "orphans"} => \E r \in Rows : roots = {r} /\ Walking(r)
    /\ outcome \in {"ok", "orphans"} => stack = <<>>
    /\ outcome = "ok" => visited = Rows
    /\ outcome = "orphans" => visited # Rows

-----------------------------------------------------------------------------

\* The list comprehension: each row under i, once.
LEMMA Children ==
    ASSUME parent \in Seq(Int), NEW i \in Rows
    PROVE  /\ children(i) \in Seq(Rows)
           /\ \A m, n \in DOMAIN children(i) : children(i)[m] = children(i)[n] => m = n
           /\ \A j \in Rows : parent[j] = i <=> \E m \in DOMAIN children(i) : children(i)[m] = j
<1> DEFINE rows == Len(parent)
           Lists == Seq(Nat)
           F == [k \in Nat |-> [t \in Lists |-> IF parent[k] = i THEN Append(t, k) ELSE t]]
           next(h) == [k \in 0 .. rows |-> IF k = 0 THEN <<>>
                                           ELSE IF parent[k] = i THEN Append(h[k - 1], k)
                                           ELSE h[k - 1]]
           among == CHOOSE h : h = next(h)
<1>1. rows \in Nat /\ Rows = 1 .. rows
  BY DEF Rows
<1>2. among = next(among)
  <2> DEFINE none == <<>>
  <2>1. none \in Lists /\ F \in StepsIn(Lists)
    BY DEF StepsIn
  <2> HIDE DEF Lists, F, none
  <2>2. PICK f \in ValuesIn(Lists, rows) : Iterates(f, F, none, rows)
    BY <1>1, <2>1, Recursion
  <2>3. ASSUME NEW k \in 0 .. rows PROVE f[k] = next(f)[k]
    <3>1. CASE k = 0
      BY <2>2, <3>1 DEF Iterates, none
    <3>2. CASE k # 0
      <4>1. k \in 1 .. rows /\ k \in Nat /\ k - 1 \in 0 .. rows
        BY <1>1, <3>2
      <4>2. f[k] = F[k][f[k - 1]] /\ f[k - 1] \in Lists
        BY <2>2, <4>1 DEF Iterates, ValuesIn
      <4> QED
        BY <3>2, <4>1, <4>2 DEF F
    <3> QED
      BY <3>1, <3>2
  <2>4. f = next(f)
    BY <2>3 DEF ValuesIn
  <2> HIDE DEF next
  <2> QED
    BY <2>4
<1>3. /\ among[0] = <<>>
      /\ \A k \in 1 .. rows : among[k] = IF parent[k] = i THEN Append(among[k - 1], k)
                                         ELSE among[k - 1]
  <2>1. \A k \in 0 .. rows : among[k] = next(among)[k]
    BY <1>2, Zenon
  <2> HIDE DEF among
  <2> QED
    BY <1>1, <2>1
<1>4. children(i) = among[rows]
  BY DEF children
<1> HIDE DEF among, next, F
<1> DEFINE right(k) ==
      /\ among[k] \in Seq(1 .. k)
      /\ \A m, n \in DOMAIN among[k] : among[k][m] = among[k][n] => m = n
      /\ \A j \in 1 .. k : parent[j] = i <=> \E m \in DOMAIN among[k] : among[k][m] = j
           sofar == {k \in Nat : k <= rows => right(k)}
<1>5. 0 \in sofar
  <2>1. <<>> \in Seq(1 .. 0) /\ DOMAIN <<>> = {} /\ 1 .. 0 = {}
    OBVIOUS
  <2>2. right(0)
    BY <1>3, <2>1
  <2> QED
    BY <2>2
<1>6. ASSUME NEW k \in Nat, k \in sofar, k + 1 <= rows PROVE right(k + 1)
  <2> DEFINE old == among[k]
             new == among[k + 1]
  <2>1. right(k) /\ k + 1 \in 1 .. rows
    BY <1>1, <1>6
  <2>2. new = IF parent[k + 1] = i THEN Append(old, k + 1) ELSE old
    BY <1>3, <2>1
  <2>3. /\ old \in Seq(1 .. k) /\ \A m \in DOMAIN old : old[m] \in 1 .. k
        /\ old \in Seq(1 .. k + 1)
    <3>1. old \in Seq(1 .. k)
      BY <2>1
    <3>2. \A m \in DOMAIN old : old[m] \in 1 .. k
      BY <3>1
    <3>3. old \in Seq(1 .. k + 1)
      <4>1. 1 .. k \subseteq 1 .. k + 1
        OBVIOUS
      <4> QED
        BY <3>1, <4>1
    <3> QED
      BY <3>1, <3>2, <3>3
  <2>4. CASE parent[k + 1] = i
    <3>1. /\ new \in Seq(1 .. k + 1) /\ DOMAIN new = DOMAIN old \cup {Len(old) + 1}
          /\ new[Len(old) + 1] = k + 1 /\ \A m \in DOMAIN old : new[m] = old[m]
      BY <2>2, <2>3, <2>4
    <3> HIDE DEF old, new
    <3>2. \A m, n \in DOMAIN new : new[m] = new[n] => m = n
      BY <2>1, <2>3, <3>1 DEF old
    <3>3. ASSUME NEW j \in 1 .. k + 1
          PROVE  parent[j] = i <=> \E m \in DOMAIN new : new[m] = j
      <4>1. CASE j = k + 1
        BY <2>4, <3>1, <4>1
      <4>2. CASE j \in 1 .. k
        <5>1. parent[j] = i <=> \E m \in DOMAIN old : old[m] = j
          BY <2>1, <4>2 DEF old
        <5>2. new[Len(old) + 1] # j
          BY <3>1, <4>2
        <5> QED
          BY <3>1, <5>1, <5>2
      <4> QED
        BY <4>1, <4>2
    <3> QED
      BY <3>1, <3>2, <3>3 DEF new
  <2>5. CASE parent[k + 1] # i
    <3>1. new = old
      BY <2>2, <2>5
    <3>2. ASSUME NEW j \in 1 .. k + 1
          PROVE  parent[j] = i <=> \E m \in DOMAIN old : old[m] = j
      BY <2>1, <2>3, <2>5
    <3> HIDE DEF old, new
    <3> QED
      BY <2>1, <2>3, <3>1, <3>2 DEF old, new
  <2> QED
    BY <2>4, <2>5
<1>7. right(rows)
  <2>1. \A k \in Nat : k \in sofar => k + 1 \in sofar
    <3> HIDE DEF right
    <3> QED
      BY <1>1, <1>6
  <2>2. rows \in sofar
    <3> HIDE DEF sofar
    <3> QED
      BY <1>1, <1>5, <2>1, EveryNumber
  <2> QED
    BY <1>1, <2>2
<1> QED
  BY <1>1, <1>4, <1>7

-----------------------------------------------------------------------------

LEMMA RowsAreFinite ==
    ASSUME parent \in Seq(Int)
    PROVE  /\ IsFiniteSet(Rows) /\ Cardinality(Rows) = Len(parent) /\ Rows = 1 .. Len(parent)
           /\ Len(parent) \in Nat
           /\ \A S \in SUBSET Rows : IsFiniteSet(S) /\ Cardinality(S) \in Nat
                                     /\ Cardinality(S) <= Len(parent)
<1>1. Len(parent) \in Nat /\ Rows = 1 .. Len(parent)
  BY DEF Rows
<1>2. IsFiniteSet(Rows) /\ Cardinality(Rows) = Len(parent)
  BY <1>1, FS_Interval
<1>3. ASSUME NEW S \in SUBSET Rows
      PROVE  IsFiniteSet(S) /\ Cardinality(S) \in Nat /\ Cardinality(S) <= Len(parent)
  BY <1>2, <1>3, FS_Subset, FS_CardinalityType
<1> QED
  BY <1>1, <1>2, <1>3

LEMMA FindingRoot ==
    ASSUME WalkInv, FindRoot
    PROVE  WalkInv'
<1>1. /\ parent' = parent /\ visited' = visited /\ visited = {} /\ stack = <<>>
      /\ parent \in Seq(Int) /\ outcome = "reading"
  BY DEF WalkInv, FindRoot
<1>2. /\ IsFiniteSet(roots) /\ Cardinality(roots) \in Nat /\ roots \subseteq Rows
      /\ roots' = roots /\ Rows' = Rows
  <2>1. roots \subseteq Rows /\ roots' = roots /\ Rows' = Rows
    BY <1>1 DEF roots, Rows
  <2> QED
    BY <1>1, <2>1, RowsAreFinite
<1>3. CASE Cardinality(roots) = 0
  <2>1. ~(Cardinality(roots) > 1) /\ Cardinality(roots) # 1
    BY <1>3
  <2>2. outcome' = "no root" /\ stack' = stack
    BY <1>3, <2>1 DEF FindRoot
  <2>3. roots = {}
    BY <1>2, <1>3, FS_EmptySet
  <2> QED
    BY <1>1, <1>2, <2>2, <2>3 DEF WalkInv
<1>4. CASE Cardinality(roots) > 1
  <2>1. Cardinality(roots) # 0 /\ Cardinality(roots) # 1
    BY <1>2, <1>4
  <2>2. outcome' = "many roots" /\ stack' = stack
    BY <1>4, <2>1 DEF FindRoot
  <2>3. \E q, r \in roots : q # r
    <3> SUFFICES ASSUME \A q, r \in roots : q = r PROVE FALSE
      OBVIOUS
    <3>1. roots # {}
      BY <1>4, FS_EmptySet
    <3>2. PICK r \in roots : roots = {r}
      BY <3>1
    <3> QED
      BY <1>4, <3>2, FS_Singleton
  <2> QED
    BY <1>1, <1>2, <2>2, <2>3 DEF WalkInv
<1>5. CASE Cardinality(roots) = 1
  <2>1. PICK r : roots = {r}
    BY <1>2, <1>5, FS_Singleton
  <2>2. outcome' = "walking" /\ stack' = <<r>> /\ r \in Rows
    <3>1. (CHOOSE q \in roots : TRUE) = r
      BY <2>1
    <3> QED
      BY <1>2, <1>5, <2>1, <3>1 DEF FindRoot
  <2>3. stack' \in Seq(Rows) /\ DOMAIN stack' = {1} /\ stack'[1] = r
    BY <2>2
  <2>4. Seen' = {r} /\ visited' = {} /\ Cardinality(visited') = 0
    BY <1>1, <2>3, FS_EmptySet DEF Seen
  <2>5. Walking(r)'
    <3>1. \E depth \in [Rows' -> Nat] : \A i \in Seen' :
            /\ depth[i] <= Cardinality(visited')
            /\ \/ i = r /\ depth[i] = 0
               \/ i # r /\ parent'[i] \in visited' /\ depth[i] = depth[parent'[i]] + 1
      <4>1. [i \in Rows |-> 0] \in [Rows -> Nat] /\ [i \in Rows |-> 0][r] = 0
        BY <2>2
      <4> QED
        BY <1>2, <2>4, <4>1
    <3> QED
      BY <2>3, <2>4, <3>1 DEF Walking
  <2> QED
    BY <1>1, <1>2, <2>1, <2>2, <2>3, <2>5 DEF WalkInv
<1> QED
  BY <1>2, <1>3, <1>4, <1>5

LEMMA Finishing ==
    ASSUME WalkInv, Finish
    PROVE  WalkInv'
<1>1. /\ UNCHANGED <<parent, visited, stack>> /\ stack = <<>> /\ visited \subseteq Rows
      /\ outcome = "walking"
      /\ outcome' = IF Rows \ visited = {} THEN "ok" ELSE "orphans"
  BY DEF WalkInv, Finish, missing
<1>2. Rows' = Rows /\ roots' = roots /\ \A r : Walking(r)' <=> Walking(r)
  BY <1>1 DEF Rows, roots, Walking, Seen
<1> QED
  BY <1>1, <1>2 DEF WalkInv

\* A row that was not visited, on top of the stack: what hangs below it is new.
LEMMA Popping ==
    ASSUME WalkInv, Pop
    PROVE  WalkInv'
<1> DEFINE top  == Len(stack)
           rest == SubSeq(stack, 1, top - 1)
<1>1. PICK r \in Rows : roots = {r} /\ Walking(r)
  BY DEF WalkInv, Pop
<1>2. PICK current \in Rows :
        /\ current = stack[top] /\ top \in DOMAIN stack /\ current \notin visited
        /\ visited' = visited \cup {current} /\ stack' = rest \o children(current)
        /\ parent' = parent /\ outcome' = outcome /\ outcome = "walking"
        /\ rest \in Seq(Rows) /\ DOMAIN rest = DOMAIN stack \ {top}
        /\ \A m \in DOMAIN rest : rest[m] = stack[m]
  <2>1. stack \in Seq(Rows) /\ stack # <<>>
    BY DEF WalkInv, Pop
  <2>2. top \in DOMAIN stack /\ stack[top] \in Rows /\ stack[top] \notin visited
    BY <1>1, <2>1 DEF Walking
  <2>3. /\ rest \in Seq(Rows) /\ DOMAIN rest = DOMAIN stack \ {top}
        /\ \A m \in DOMAIN rest : rest[m] = stack[m]
    BY <2>1
  <2> QED
    BY <2>2, <2>3 DEF Pop
<1> DEFINE kids == children(current)
<1>3. /\ kids \in Seq(Rows)
      /\ \A m, n \in DOMAIN kids : kids[m] = kids[n] => m = n
      /\ \A j \in Rows : parent[j] = current <=> \E m \in DOMAIN kids : kids[m] = j
      /\ \A m \in DOMAIN kids : kids[m] \in Rows
  <2>1. parent \in Seq(Int)
    BY DEF WalkInv
  <2>2. /\ kids \in Seq(Rows)
        /\ \A m, n \in DOMAIN kids : kids[m] = kids[n] => m = n
        /\ \A j \in Rows : parent[j] = current <=> \E m \in DOMAIN kids : kids[m] = j
    BY <2>1, Children
  <2>3. \A m \in DOMAIN kids : kids[m] \in Rows
    BY <2>2
  <2> QED
    BY <2>2, <2>3
<1> HIDE DEF kids, rest
<1>4. Joined(rest, kids, stack') /\ stack' \in Seq(Rows)
  BY <1>2, <1>3, Joining DEF kids
<1>5. Rows' = Rows /\ roots' = roots
  BY <1>2 DEF Rows, roots
<1>6. /\ Seen \subseteq Rows /\ visited \subseteq Rows
      /\ Seen' = Seen \cup {kids[m] : m \in DOMAIN kids}
  <2>1. Seen \subseteq Rows /\ visited \subseteq Rows
    <3>1. visited \subseteq Rows /\ stack \in Seq(Rows)
      BY DEF WalkInv
    <3>2. \A m \in DOMAIN stack : stack[m] \in Rows
      BY <3>1
    <3> QED
      BY <3>1, <3>2 DEF Seen
  <2>2. {stack'[m] : m \in DOMAIN stack'}
        = {stack[m] : m \in DOMAIN rest} \cup {kids[m] : m \in DOMAIN kids}
    <3>1. \A x : (\E m \in DOMAIN stack' : x = stack'[m])
                <=> (\E m \in DOMAIN rest : x = stack[m]) \/ \E m \in DOMAIN kids : x = kids[m]
      <4>1. /\ \A m \in DOMAIN rest : m \in DOMAIN stack' /\ stack'[m] = stack[m]
            /\ \A m \in DOMAIN kids : Len(rest) + m \in DOMAIN stack'
                                      /\ stack'[Len(rest) + m] = kids[m]
            /\ \A i \in DOMAIN stack' :
                 i \in DOMAIN rest \/ \E m \in DOMAIN kids : i = Len(rest) + m
        BY <1>2, <1>3, <1>4 DEF Joined
      <4> QED
        BY <4>1
    <3> QED
      BY <3>1
  <2>3. Seen = visited \cup {current} \cup {stack[m] : m \in DOMAIN rest}
    BY <1>2 DEF Seen
  <2> QED
    BY <1>2, <2>1, <2>2, <2>3 DEF Seen
<1>7. PICK depth \in [Rows -> Nat] : \A i \in Seen :
        /\ depth[i] <= Cardinality(visited)
        /\ \/ i = r /\ depth[i] = 0
           \/ i # r /\ parent[i] \in visited /\ depth[i] = depth[parent[i]] + 1
  BY <1>1 DEF Walking
<1>8. /\ \A i \in Seen : parent[i] # current
      /\ \A m \in DOMAIN kids : /\ kids[m] \notin Seen /\ kids[m] # current
                               /\ kids[m] # r /\ parent[kids[m]] = current
      /\ current \in Seen /\ r \in Seen
  <2>1. parent[r] = 0 /\ current # 0
    <3>1. Rows = 1 .. Len(parent) /\ Len(parent) \in Nat
      BY RowsAreFinite DEF WalkInv
    <3> QED
      BY <1>1, <3>1 DEF roots, NoParent
  <2>2. \A i \in Seen : parent[i] # current
    BY <1>2, <1>7, <2>1
  <2>3. current \in Seen /\ r \in Seen
    BY <1>1, <1>2 DEF Seen, Walking
  <2> QED
    BY <1>3, <2>2, <2>3
<1>9. Cardinality(visited) \in Nat /\ Cardinality(visited') = Cardinality(visited) + 1
  <2>1. IsFiniteSet(visited) /\ Cardinality(visited) \in Nat
    BY <1>6, RowsAreFinite DEF WalkInv
  <2> QED
    BY <1>2, <2>1, FS_AddElement
<1>10. Walking(r)'
  <2>1. \A m, n \in DOMAIN stack' : stack'[m] = stack'[n] => m = n
    <3>1. /\ \A m, n \in DOMAIN rest : rest[m] = rest[n] => m = n
          /\ \A m \in DOMAIN rest : rest[m] \in Seen
      BY <1>1, <1>2 DEF Walking, Seen
    <3>2. \A m \in DOMAIN rest : \A n \in DOMAIN kids : rest[m] # kids[n]
      BY <1>8, <3>1
    <3>3. /\ \A m \in DOMAIN rest : m \in DOMAIN stack' /\ stack'[m] = rest[m]
          /\ \A m \in DOMAIN kids : Len(rest) + m \in DOMAIN stack'
                                    /\ stack'[Len(rest) + m] = kids[m]
          /\ \A i \in DOMAIN stack' :
               i \in DOMAIN rest \/ \E m \in DOMAIN kids : i = Len(rest) + m
      BY <1>2, <1>3, <1>4 DEF Joined
    <3> QED
      BY <1>3, <3>1, <3>2, <3>3
  <2>2. \A m \in DOMAIN stack' : stack'[m] \notin visited'
    <3>1. \A m \in DOMAIN rest : stack'[m] = stack[m] /\ stack[m] # current
                                /\ stack[m] \notin visited
      BY <1>1, <1>2, <1>4 DEF Walking, Joined
    <3>2. \A m \in DOMAIN kids : kids[m] # current /\ kids[m] \notin visited
      BY <1>8 DEF Seen
    <3> QED
      BY <1>2, <1>4, <3>1, <3>2 DEF Joined
  <2>3. r \in Seen'
    BY <1>6, <1>8
  <2>4. \E d \in [Rows' -> Nat] : \A i \in Seen' :
          /\ d[i] <= Cardinality(visited')
          /\ \/ i = r /\ d[i] = 0
             \/ i # r /\ parent'[i] \in visited' /\ d[i] = d[parent'[i]] + 1
    <3> DEFINE d == [i \in Rows |-> IF parent[i] = current THEN depth[current] + 1 ELSE depth[i]]
    <3>1. /\ d \in [Rows -> Nat]
          /\ \A i \in Rows : parent[i] = current => d[i] = depth[current] + 1
          /\ \A i \in Seen : d[i] = depth[i]
      BY <1>6, <1>8
    <3> HIDE DEF d
    <3>2. ASSUME NEW i \in Seen
          PROVE  /\ d[i] <= Cardinality(visited')
                 /\ \/ i = r /\ d[i] = 0
                    \/ i # r /\ parent'[i] \in visited' /\ d[i] = d[parent'[i]] + 1
      <4>1. d[i] = depth[i] /\ depth[i] \in Nat /\ depth[i] <= Cardinality(visited)
        BY <1>6, <1>7, <3>1
      <4>2. CASE i = r /\ depth[i] = 0
        BY <1>9, <4>1, <4>2
      <4>3. CASE i # r /\ parent[i] \in visited /\ depth[i] = depth[parent[i]] + 1
        <5>1. parent[i] \in Seen
          BY <4>3 DEF Seen
        <5> QED
          BY <1>2, <1>9, <3>1, <4>1, <4>3, <5>1
      <4> QED
        BY <1>7, <4>2, <4>3
    <3>3. ASSUME NEW m \in DOMAIN kids
          PROVE  /\ d[kids[m]] <= Cardinality(visited')
                 /\ kids[m] # r /\ parent'[kids[m]] \in visited'
                 /\ d[kids[m]] = d[parent'[kids[m]]] + 1
      <4>1. /\ parent[kids[m]] = current /\ kids[m] \in Rows
            /\ depth[current] \in Nat /\ depth[current] <= Cardinality(visited)
            /\ d[current] = depth[current]
        BY <1>3, <1>7, <1>8, <3>1
      <4> QED
        BY <1>2, <1>8, <1>9, <3>1, <4>1
    <3> QED
      BY <1>5, <1>6, <3>1, <3>2, <3>3
  <2>5. \A i \in visited', j \in Rows' : parent'[j] = i => j \in Seen'
    BY <1>1, <1>2, <1>3, <1>5, <1>6 DEF Walking
  <2> QED
    BY <2>1, <2>2, <2>3, <2>4, <2>5 DEF Walking
<1>11. visited' \subseteq Rows
  BY <1>2, <1>6
<1> QED
  BY <1>1, <1>2, <1>4, <1>5, <1>10, <1>11 DEF WalkInv

-----------------------------------------------------------------------------

\* The way up: where it starts, each step of it, and that it leaves the rows for good.
LEMMA Climbing ==
    ASSUME parent \in Seq(Int), NEW i \in Rows
    PROVE  /\ Climb(i) \in [0 .. Len(parent) -> Int] /\ Climb(i)[0] = i
           /\ \A k \in 1 .. Len(parent) :
                Climb(i)[k] = IF Climb(i)[k - 1] \in Rows THEN parent[Climb(i)[k - 1]]
                              ELSE Climb(i)[k - 1]
<1> DEFINE rows == Len(parent)
           F == [k \in Nat |-> [t \in Int |-> IF t \in Rows THEN parent[t] ELSE t]]
           next(h) == [k \in 0 .. rows |-> IF k = 0 THEN i
                                           ELSE IF h[k - 1] \in Rows THEN parent[h[k - 1]]
                                           ELSE h[k - 1]]
           up == CHOOSE h : h = next(h)
<1>1. rows \in Nat /\ Rows = 1 .. rows /\ i \in Int
  BY RowsAreFinite
<1>2. F \in StepsIn(Int)
  <2>1. \A t \in Rows : parent[t] \in Int
    BY DEF Rows
  <2> QED
    BY <2>1 DEF StepsIn
<1>3. PICK f \in ValuesIn(Int, rows) : Iterates(f, F, i, rows)
  <2> HIDE DEF F
  <2> QED
    BY <1>1, <1>2, Recursion
<1>4. f = next(f)
  <2>1. ASSUME NEW k \in 0 .. rows PROVE f[k] = next(f)[k]
    <3>1. CASE k = 0
      BY <1>3, <3>1 DEF Iterates
    <3>2. CASE k # 0
      <4>1. k \in 1 .. rows /\ k \in Nat /\ k - 1 \in 0 .. rows
        BY <1>1, <3>2
      <4>2. f[k] = F[k][f[k - 1]] /\ f[k - 1] \in Int
        <5> HIDE DEF F
        <5> QED
          BY <1>3, <4>1 DEF Iterates, ValuesIn
      <4> QED
        BY <3>2, <4>1, <4>2
    <3> QED
      BY <3>1, <3>2
  <2> QED
    BY <1>3, <2>1 DEF ValuesIn
<1>5. up = next(up)
  <2> HIDE DEF next
  <2> QED
    BY <1>4
<1>6. Climb(i) = up
  BY DEF Climb
<1>7. /\ up[0] = i
      /\ \A k \in 1 .. rows : up[k] = IF up[k - 1] \in Rows THEN parent[up[k - 1]] ELSE up[k - 1]
  <2>1. \A k \in 0 .. rows : up[k] = next(up)[k]
    BY <1>5, Zenon
  <2> HIDE DEF up
  <2> QED
    BY <1>1, <2>1
<1>8. up \in [0 .. rows -> Int]
  <2> DEFINE typed == {k \in Nat : k <= rows => up[k] \in Int}
  <2>1. DOMAIN up = 0 .. rows /\ up = [k \in 0 .. rows |-> up[k]]
    <3>1. DOMAIN next(up) = 0 .. rows /\ next(up) = [k \in 0 .. rows |-> next(up)[k]]
      OBVIOUS
    <3> HIDE DEF next, up
    <3> QED
      BY <1>5, <3>1
  <2> HIDE DEF up
  <2>2. 0 \in typed
    BY <1>1, <1>7
  <2>3. \A t \in Rows : parent[t] \in Int
    BY DEF Rows
  <2>4. \A k \in Nat : k \in typed => k + 1 \in typed
    <3> SUFFICES ASSUME NEW k \in Nat, up[k] \in Int, k + 1 <= rows PROVE up[k + 1] \in Int
      BY <1>1
    <3>1. k + 1 \in 1 .. rows /\ k + 1 - 1 = k
      BY <1>1
    <3> QED
      BY <1>7, <2>3, <3>1
  <2>5. \A k \in Nat : k \in typed
    <3> HIDE DEF typed
    <3> QED
      BY <2>2, <2>4, EveryNumber
  <2> QED
    BY <1>1, <2>1, <2>5
<1> HIDE DEF up
<1> QED
  BY <1>6, <1>7, <1>8

LEMMA ClimbFromParent ==
    ASSUME parent \in Seq(Int), NEW i \in Rows, parent[i] \in Rows,
           NEW n \in Nat, n < Len(parent)
    PROVE  Climb(i)[n + 1] = Climb(parent[i])[n]
<1> DEFINE up    == Climb(i)
           above == Climb(parent[i])
           rows  == Len(parent)
           same  == {k \in Nat : k < rows => up[k + 1] = above[k]}
<1>1. rows \in Nat
  BY RowsAreFinite
<1>2. /\ up[0] = i /\ above[0] = parent[i]
      /\ \A k \in 1 .. rows : up[k] = IF up[k - 1] \in Rows THEN parent[up[k - 1]] ELSE up[k - 1]
      /\ \A k \in 1 .. rows : above[k] = IF above[k - 1] \in Rows THEN parent[above[k - 1]]
                                        ELSE above[k - 1]
  BY Climbing
<1> HIDE DEF up, above
<1>3. 0 \in same
  <2> SUFFICES ASSUME 0 < rows PROVE up[1] = above[0]
    OBVIOUS
  <2>1. 1 \in 1 .. rows /\ 1 - 1 = 0
    BY <1>1
  <2> QED
    BY <1>2, <2>1
<1>4. ASSUME NEW k \in Nat, k \in same PROVE k + 1 \in same
  <2> SUFFICES ASSUME k + 1 < rows PROVE up[k + 2] = above[k + 1]
    OBVIOUS
  <2>1. /\ k + 1 \in 1 .. rows /\ k + 2 \in 1 .. rows /\ k + 2 - 1 = k + 1
        /\ k + 1 - 1 = k /\ up[k + 1] = above[k]
    BY <1>1, <1>4
  <2>2. up[k + 2] = IF up[k + 1] \in Rows THEN parent[up[k + 1]] ELSE up[k + 1]
    BY <1>2, <2>1
  <2>3. above[k + 1] = IF above[k] \in Rows THEN parent[above[k]] ELSE above[k]
    BY <1>2, <2>1
  <2> QED
    BY <2>1, <2>2, <2>3
<1>5. n \in same
  <2> HIDE DEF same
  <2> QED
    BY <1>3, <1>4, EveryNumber
<1> QED
  BY <1>5 DEF up, above

\* A walk that visited every row: the way up from each leads to the root.
LEMMA AllReached ==
    ASSUME WalkInv, outcome = "ok"
    PROVE  Replayable
<1> DEFINE rows == Len(parent)
<1>1. /\ parent \in Seq(Int) /\ visited = Rows /\ rows \in Nat /\ Rows = 1 .. rows
      /\ Cardinality(visited) = rows
  BY RowsAreFinite DEF WalkInv
<1>2. PICK r \in Rows : roots = {r} /\ Walking(r)
  BY DEF WalkInv
<1>3. PICK depth \in [Rows -> Nat] : \A i \in Rows :
        /\ depth[i] <= rows
        /\ \/ i = r /\ depth[i] = 0
           \/ i # r /\ parent[i] \in Rows /\ depth[i] = depth[parent[i]] + 1
  <2>1. stack = <<>>
    BY DEF WalkInv
  <2>2. Seen = Rows
    BY <1>1, <2>1 DEF Seen
  <2>3. PICK depth \in [Rows -> Nat] : \A i \in Seen :
          /\ depth[i] <= Cardinality(visited)
          /\ \/ i = r /\ depth[i] = 0
             \/ i # r /\ parent[i] \in visited /\ depth[i] = depth[parent[i]] + 1
    BY <1>2 DEF Walking
  <2> HIDE DEF rows
  <2> QED
    BY <1>1, <2>2, <2>3
<1> DEFINE reach == {d \in Nat : \A i \in Rows : depth[i] = d => Climb(i)[d] = r}
<1>4. 0 \in reach
  <2> SUFFICES ASSUME NEW i \in Rows, depth[i] = 0 PROVE Climb(i)[0] = r
    OBVIOUS
  <2>1. i = r
    <3> SUFFICES ASSUME i # r PROVE FALSE
      OBVIOUS
    <3>1. parent[i] \in Rows /\ depth[i] = depth[parent[i]] + 1
      BY <1>3
    <3>2. depth[parent[i]] \in Nat
      BY <3>1
    <3> QED
      BY <3>1, <3>2
  <2> QED
    BY <1>1, <2>1, Climbing
<1>5. ASSUME NEW d \in Nat, d \in reach PROVE d + 1 \in reach
  <2> SUFFICES ASSUME NEW i \in Rows, depth[i] = d + 1 PROVE Climb(i)[d + 1] = r
    OBVIOUS
  <2>1. d + 1 # 0 /\ d + 1 <= rows
    BY <1>3
  <2>2. parent[i] \in Rows /\ depth[i] = depth[parent[i]] + 1
    BY <1>3, <2>1
  <2>3. depth[parent[i]] = d
    BY <2>2
  <2>4. Climb(parent[i])[d] = r
    BY <1>5, <2>2, <2>3
  <2>5. d < rows
    BY <1>1, <2>1
  <2> QED
    BY <1>1, <2>2, <2>4, <2>5, ClimbFromParent
<1>6. \A d \in Nat : d \in reach
  <2> HIDE DEF reach
  <2> QED
    BY <1>4, <1>5, EveryNumber
<1>7. ASSUME NEW i \in Rows PROVE r \in Ancestor(i)
  <2>1. Climb(i)[depth[i]] = r /\ depth[i] \in 0 .. rows
    BY <1>1, <1>3, <1>6
  <2> QED
    BY <2>1 DEF Ancestor
<1>8. parent[r] = NoParent
  BY <1>2 DEF roots
<1> QED
  BY <1>7, <1>8 DEF Replayable

\* A walk that missed a row: the way up from it never comes to a visited one.
LEMMA Unreached ==
    ASSUME WalkInv, outcome = "orphans"
    PROVE  ~Replayable
<1> SUFFICES ASSUME Replayable PROVE FALSE
  OBVIOUS
<1> DEFINE rows == Len(parent)
<1>1. /\ parent \in Seq(Int) /\ rows \in Nat /\ visited \subseteq Rows /\ visited # Rows
      /\ stack = <<>>
  BY RowsAreFinite DEF WalkInv
<1>2. PICK r \in Rows : roots = {r} /\ Walking(r)
  BY DEF WalkInv
<1>3. r \in visited /\ \A i \in visited, j \in Rows : parent[j] = i => j \in visited
  BY <1>1, <1>2 DEF Walking, Seen
<1>4. PICK i \in Rows : i \notin visited
  BY <1>1
<1>5. r \in Ancestor(i)
  BY <1>2 DEF Replayable, roots
<1>6. PICK n \in 0 .. rows : Climb(i)[n] = r
  BY <1>5 DEF Ancestor
<1> DEFINE up  == Climb(i)
           off == {k \in Nat : k <= rows => up[k] \notin visited}
<1>7. /\ up[0] = i
      /\ \A k \in 1 .. rows : up[k] = IF up[k - 1] \in Rows THEN parent[up[k - 1]] ELSE up[k - 1]
  BY <1>1, Climbing
<1> HIDE DEF up
<1>8. 0 \in off
  BY <1>4, <1>7
<1>9. ASSUME NEW k \in Nat, k \in off PROVE k + 1 \in off
  <2> SUFFICES ASSUME k + 1 <= rows PROVE up[k + 1] \notin visited
    OBVIOUS
  <2>1. k + 1 \in 1 .. rows /\ k + 1 - 1 = k /\ up[k] \notin visited
    BY <1>1, <1>9
  <2> QED
    BY <1>3, <1>7, <2>1
<1>10. n \in off
  <2>1. n \in Nat
    BY <1>1
  <2> HIDE DEF off
  <2> QED
    BY <1>8, <1>9, <2>1, EveryNumber
<1> QED
  BY <1>1, <1>3, <1>6, <1>10 DEF up

\* From a root the way leads nowhere, so no other row is above it.
LEMMA TwoRoots ==
    ASSUME parent \in Seq(Int), NEW q \in roots, NEW p \in Rows, p \in Ancestor(q)
    PROVE  p = q
<1> DEFINE rows == Len(parent)
           up   == Climb(q)
           gone == {k \in Nat : k + 1 <= rows => up[k + 1] = 0}
<1>1. rows \in Nat /\ Rows = 1 .. rows /\ q \in Rows /\ parent[q] = 0
  BY RowsAreFinite DEF roots, NoParent
<1>2. PICK n \in 0 .. rows : up[n] = p
  BY DEF Ancestor
<1>3. /\ up[0] = q
      /\ \A k \in 1 .. rows : up[k] = IF up[k - 1] \in Rows THEN parent[up[k - 1]] ELSE up[k - 1]
  BY <1>1, Climbing
<1> HIDE DEF up
<1>4. 0 \in gone
  <2> SUFFICES ASSUME 1 <= rows PROVE up[1] = 0
    OBVIOUS
  <2>1. 1 \in 1 .. rows /\ 1 - 1 = 0
    BY <1>1
  <2>2. up[1] = IF up[0] \in Rows THEN parent[up[0]] ELSE up[0]
    BY <1>3, <2>1
  <2> QED
    BY <1>1, <1>3, <2>2
<1>5. ASSUME NEW k \in Nat, k \in gone PROVE k + 1 \in gone
  <2> SUFFICES ASSUME k + 2 <= rows PROVE up[k + 2] = 0
    OBVIOUS
  <2>1. k + 2 \in 1 .. rows /\ k + 2 - 1 = k + 1 /\ up[k + 1] = 0 /\ 0 \notin Rows
    BY <1>1, <1>5
  <2> QED
    BY <1>3, <2>1
<1>6. \A k \in Nat : k \in gone
  <2> HIDE DEF gone
  <2> QED
    BY <1>4, <1>5, EveryNumber
<1>7. ASSUME n # 0 PROVE FALSE
  <2>1. n - 1 \in Nat /\ n - 1 + 1 = n
    BY <1>1, <1>7
  <2>2. n - 1 \in gone
    BY <1>6, <2>1
  <2>3. up[n] = 0
    BY <2>1, <2>2
  <2> QED
    BY <1>1, <1>2, <2>3
<1> QED
  BY <1>2, <1>3, <1>7

LEMMA WalkAccepts ==
    ASSUME WalkInv
    PROVE  AcceptsExactlyReplayable /\ NoRowTwice
<1>1. NoRowTwice
  BY DEF WalkInv, NoRowTwice
<1>2. ASSUME Decided PROVE (outcome = "ok") <=> Replayable
  <2>1. outcome \in {"ok", "no root", "many roots", "orphans"}
    BY <1>2 DEF WalkInv, Decided
  <2>2. CASE outcome = "ok"
    BY <2>2, AllReached
  <2>3. CASE outcome = "orphans"
    BY <2>3, Unreached
  <2>4. CASE outcome = "no root"
    <3>1. roots = {}
      BY <2>4 DEF WalkInv
    <3>2. ~Replayable
      BY <3>1 DEF Replayable, roots
    <3> QED
      BY <2>4, <3>2
  <2>5. CASE outcome = "many roots"
    <3>1. PICK q \in roots, r \in roots : q # r
      BY <2>5 DEF WalkInv
    <3>2. parent \in Seq(Int) /\ q \in Rows /\ r \in Rows
      BY DEF WalkInv, roots
    <3>3. ~Replayable
      <4> SUFFICES ASSUME NEW p \in Rows, \A i \in Rows : p \in Ancestor(i) PROVE FALSE
        BY DEF Replayable
      <4>1. p = q /\ p = r
        BY <3>1, <3>2, TwoRoots
      <4> QED
        BY <3>1, <4>1
    <3> QED
      BY <2>5, <3>3
  <2> QED
    BY <2>1, <2>2, <2>3, <2>4, <2>5
<1> QED
  BY <1>1, <1>2 DEF AcceptsExactlyReplayable, Replayable

-----------------------------------------------------------------------------

\* The rows of a thread up to row i.
Upto(s, i) == {j \in 1 .. i : table[j].thread_id = s}

LEMMA PlaceCounts ==
    ASSUME NEW s, NEW i \in Nat
    PROVE  /\ IsFiniteSet(Upto(s, i)) /\ Place(s, i) = Cardinality(Upto(s, i))
           /\ Place(s, i) \in Nat /\ Place(s, 0) = 0
<1>1. IsFiniteSet(1 .. i) /\ Upto(s, i) \subseteq 1 .. i
  BY FS_Interval DEF Upto
<1>2. IsFiniteSet(Upto(s, i)) /\ Cardinality(Upto(s, i)) \in Nat
  BY <1>1, FS_Subset, FS_CardinalityType
<1>3. Upto(s, 0) = {}
  BY DEF Upto
<1> QED
  BY <1>2, <1>3, FS_EmptySet DEF Place, Upto

\* The places of a thread's rows follow one another.
LEMMA PlaceNext ==
    ASSUME NEW s, NEW i \in Nat, NEW j \in Nat, i < j, table[j].thread_id = s,
           \A k \in i + 1 .. j - 1 : table[k].thread_id # s
    PROVE  Place(s, j) = Place(s, i) + 1
<1>1. Upto(s, j) = Upto(s, i) \cup {j} /\ j \notin Upto(s, i)
  BY DEF Upto
<1> QED
  BY <1>1, PlaceCounts, FS_AddElement

LEMMA PlaceSkips ==
    ASSUME NEW s, NEW i \in Nat, table[i + 1].thread_id # s
    PROVE  Place(s, i + 1) = Place(s, i)
<1>1. Upto(s, i + 1) = Upto(s, i)
  BY DEF Upto
<1> QED
  BY <1>1, PlaceCounts

\* Every place up to the number of rows is the place of a row.
LEMMA PlaceTaken ==
    ASSUME NEW s, NEW n \in Nat, NEW p \in 1 .. Place(s, n)
    PROVE  \E i \in 1 .. n : table[i].thread_id = s /\ Place(s, i) = p
<1> DEFINE beyond == {i \in Nat : i <= n /\ p <= Place(s, i)}
<1>1. n \in beyond /\ beyond \subseteq Nat
  BY PlaceCounts
<1>2. PICK i \in beyond : \A j \in beyond : i <= j
  BY <1>1, Least
<1>3. i \in Nat /\ i <= n /\ p <= Place(s, i) /\ p \in Nat /\ Place(s, i) \in Nat
  BY <1>2, PlaceCounts
<1>4. i # 0
  BY <1>3, PlaceCounts
<1>5. i - 1 \in Nat /\ i - 1 \notin beyond /\ i - 1 + 1 = i /\ Place(s, i - 1) \in Nat
  BY <1>2, <1>3, <1>4, PlaceCounts
<1>6. Place(s, i - 1) < p
  BY <1>3, <1>5
<1>7. table[i].thread_id = s
  <2> SUFFICES ASSUME table[i].thread_id # s PROVE FALSE
    OBVIOUS
  <2>1. Place(s, i) = Place(s, i - 1)
    BY <1>5, PlaceSkips
  <2> QED
    BY <1>3, <1>6, <2>1
<1>8. Place(s, i) = Place(s, i - 1) + 1
  BY <1>3, <1>5, <1>7, PlaceNext
<1> QED
  BY <1>3, <1>4, <1>5, <1>6, <1>7, <1>8

\* What the reader makes of a thread the sinks wrote: the parent of each row is the
\* row before it.
LEMMA ReadAsWritten ==
    ASSUME SinkInv, NEW s \in Sessions
    PROVE  \E n \in Nat : parents_of(s) = [p \in 1 .. n |-> p - 1]
<1> DEFINE rows == Len(table)
           mine == {i \in DOMAIN table : table[i].thread_id = s}
           n    == Cardinality(mine)
           row(p) == CHOOSE i \in mine : Place(s, i) = p
           place(id) == IF id = None THEN NoParent
                        ELSE IF \E i \in mine : table[i].id = id
                             THEN Place(s, CHOOSE i \in mine : table[i].id = id)
                             ELSE Elsewhere
<1>1. /\ rows \in Nat /\ DOMAIN table = 1 .. rows
      /\ \A i \in 1 .. rows : table[i].id \in Nat \ {0}
  <2>1. table \in Seq(RowType)
    BY DEF SinkInv, SinkTypeOK
  <2>2. \A i \in DOMAIN table : table[i] \in RowType
    BY <2>1
  <2> QED
    BY <2>1, <2>2 DEF RowType
<1>2. mine = Upto(s, rows) /\ n = Place(s, rows) /\ n \in Nat
  <2>1. mine = Upto(s, rows)
    BY <1>1 DEF Upto
  <2> HIDE DEF mine
  <2> QED
    BY <1>1, <2>1, PlaceCounts
<1>3. parents_of(s) = [p \in 1 .. n |-> place(table[row(p)].parent_event_id)]
  BY DEF parents_of
<1>4. ASSUME NEW p \in 1 .. n PROVE place(table[row(p)].parent_event_id) = p - 1
  <2>1. \E i \in mine : Place(s, i) = p
    <3> HIDE DEF n
    <3>1. \E i \in 1 .. rows : table[i].thread_id = s /\ Place(s, i) = p
      BY <1>1, <1>2, PlaceTaken
    <3> QED
      BY <1>1, <3>1
  <2>2. PICK i \in mine : i = row(p) /\ Place(s, i) = p
    BY <2>1
  <2>3. i \in 1 .. rows /\ table[i].thread_id = s
    BY <1>1, <2>2
  <2> HIDE DEF row, n
  <2>4. \/ /\ table[i].parent_event_id = None
           /\ \A j \in 1 .. i - 1 : table[j].thread_id # s
        \/ \E j \in 1 .. i - 1 : /\ table[j].thread_id = s
                                 /\ table[i].parent_event_id = table[j].id
                                 /\ \A k \in j + 1 .. i - 1 : table[k].thread_id # s
    BY <1>1, <2>3 DEF SinkInv, ThreadsAreChains, Siblings
  <2>5. CASE /\ table[i].parent_event_id = None
             /\ \A j \in 1 .. i - 1 : table[j].thread_id # s
    <3>1. Place(s, i) = Place(s, 0) + 1
      BY <1>1, <2>3, <2>5, PlaceNext
    <3>2. p = 1
      BY <2>2, <2>3, <3>1, PlaceCounts
    <3> QED
      BY <2>2, <2>5, <3>2 DEF NoParent
  <2>6. ASSUME NEW j \in 1 .. i - 1, table[j].thread_id = s,
               table[i].parent_event_id = table[j].id,
               \A k \in j + 1 .. i - 1 : table[k].thread_id # s
        PROVE  place(table[row(p)].parent_event_id) = p - 1
    <3>1. j \in mine /\ table[j].id # None /\ j \in Nat /\ i \in Nat /\ j < i
      BY <1>1, <2>3, <2>6 DEF None
    <3>2. Place(s, i) = Place(s, j) + 1
      BY <2>3, <2>6, <3>1, PlaceNext
    <3>3. (CHOOSE k \in mine : table[k].id = table[j].id) = j
      <4>1. \A k \in mine : table[k].id = table[j].id => k = j
        BY <1>1, <3>1 DEF SinkInv, AckedAreCommitted
      <4> QED
        BY <3>1, <4>1
    <3>4. place(table[j].id) = Place(s, j)
      BY <3>1, <3>3
    <3>5. Place(s, j) \in Nat
      BY <3>1, PlaceCounts
    <3> QED
      BY <2>2, <2>6, <3>2, <3>4, <3>5
  <2> QED
    BY <2>4, <2>5, <2>6
<1> HIDE DEF n, row, place
<1> QED
  BY <1>2, <1>3, <1>4

\* A log in which each row's parent is the row before it can be replayed.
LEMMA ChainsReplay ==
    ASSUME parent \in Seq(Int), parent # <<>>, \A p \in Rows : parent[p] = p - 1
    PROVE  Replayable
<1> DEFINE rows == Len(parent)
<1>1. rows \in Nat /\ Rows = 1 .. rows /\ 1 \in Rows /\ parent[1] = NoParent
  <2>1. rows \in Nat /\ rows # 0 /\ Rows = 1 .. rows
    BY RowsAreFinite
  <2> QED
    BY <2>1 DEF NoParent
<1>2. ASSUME NEW i \in Rows PROVE 1 \in Ancestor(i)
  <2> DEFINE up    == Climb(i)
             below == {k \in Nat : k < i => up[k] = i - k}
  <2>1. /\ up[0] = i
        /\ \A k \in 1 .. rows : up[k] = IF up[k - 1] \in Rows THEN parent[up[k - 1]]
                                       ELSE up[k - 1]
    BY Climbing
  <2> HIDE DEF up
  <2>2. 0 \in below
    BY <1>1, <2>1
  <2>3. ASSUME NEW k \in Nat, k \in below PROVE k + 1 \in below
    <3> SUFFICES ASSUME k + 1 < i PROVE up[k + 1] = i - (k + 1)
      OBVIOUS
    <3>1. k + 1 \in 1 .. rows /\ k + 1 - 1 = k /\ up[k] = i - k /\ i - k \in Rows
      BY <1>1, <2>3
    <3>2. up[k + 1] = parent[i - k]
      BY <2>1, <3>1
    <3> QED
      BY <1>1, <3>1, <3>2
  <2>4. i - 1 \in below /\ i - 1 \in 0 .. rows
    <3>1. i - 1 \in Nat /\ i - 1 \in 0 .. rows
      BY <1>1
    <3> HIDE DEF below
    <3>2. i - 1 \in below
      BY <2>2, <2>3, <3>1, EveryNumber
    <3> QED
      BY <3>1, <3>2
  <2>5. up[i - 1] = 1
    BY <1>1, <2>4
  <2> QED
    BY <2>4, <2>5 DEF up, Ancestor
<1> QED
  BY <1>1, <1>2 DEF Replayable

-----------------------------------------------------------------------------

\* A thread that is read has been written: its rows follow one another.
FileInv ==
    /\ SinkInv /\ WalkInv
    /\ reading = Nobody => outcome = "reading"
    /\ reading \in Sessions => \A p \in Rows : parent[p] = p - 1

LEMMA FileInvInit == FileInit => FileInv
<1> SUFFICES ASSUME FileInit PROVE FileInv
  OBVIOUS
<1>1. SinkInv
  BY SinkInvInit DEF FileInit
<1>2. /\ visited = {} /\ stack = <<>> /\ outcome = "reading" /\ reading \notin Sessions
      /\ \E n \in Nat : parent \in [1 .. n -> Int]
  <2>1. CASE reading = Nobody /\ parent = <<>>
    <3>1. parent \in [1 .. 0 -> Int]
      BY <2>1
    <3> QED
      BY <2>1, <3>1, SessionsAssumption DEF FileInit, Nobody, Stranger, IntegrityInit
  <2>2. CASE reading = Stranger /\ IntegrityInit
    <3>1. PICK n \in 0 .. N : parent \in [1 .. n -> Elsewhere .. n]
      BY <2>2 DEF IntegrityInit
    <3>2. n \in Nat /\ parent \in [1 .. n -> Int]
      BY <3>1, RowsAssumption DEF Elsewhere
    <3> QED
      BY <2>2, <3>2, SessionsAssumption DEF IntegrityInit
  <2> QED
    BY <2>1, <2>2 DEF FileInit
<1>3. parent \in Seq(Int)
  BY <1>2
<1>4. WalkInv
  BY <1>2, <1>3 DEF WalkInv
<1> QED
  BY <1>1, <1>2, <1>4 DEF FileInv

LEMMA FileInvStep == FileInv /\ [FileNext]_filevars => FileInv'
<1> SUFFICES ASSUME FileInv, [FileNext]_filevars PROVE FileInv'
  OBVIOUS
<1>1. SinkInv'
  BY SinkInvStep DEF FileInv, FileNext, Write, ReadThread, Walk, Verified, filevars
<1>2. ASSUME UNCHANGED ivars PROVE WalkInv' /\ Rows' = Rows /\ outcome' = outcome
  <2>1. UNCHANGED <<parent, visited, stack, outcome, Rows, roots>>
    BY <1>2 DEF ivars, Rows, roots
  <2>2. \A r : Walking(r)' <=> Walking(r)
    BY <2>1 DEF Walking, Seen
  <2> QED
    BY <2>1, <2>2 DEF FileInv, WalkInv
<1>3. CASE Write
  BY <1>1, <1>2, <1>3 DEF Write, FileInv, ivars
<1>4. ASSUME NEW s \in Sessions, ReadThread(s) PROVE FileInv'
  <2>1. PICK n \in Nat : parent' = [p \in 1 .. n |-> p - 1]
    BY <1>4, ReadAsWritten DEF FileInv, ReadThread
  <2>2. parent' \in Seq(Int) /\ \A p \in Rows' : parent'[p] = p - 1
    <3>1. parent' \in [1 .. n -> Int] /\ Rows' = 1 .. n
      BY <2>1 DEF Rows
    <3> QED
      BY <2>1, <3>1
  <2>3. /\ visited' = {} /\ stack' = <<>> /\ outcome' = "reading" /\ reading' = s
    BY <1>4 DEF FileInv, WalkInv, ReadThread
  <2>4. WalkInv'
    BY <2>2, <2>3 DEF WalkInv
  <2> QED
    BY <1>1, <2>2, <2>3, <2>4, SessionsAssumption DEF FileInv
<1>5. CASE Walk
  <2>1. reading' = reading /\ reading # Nobody /\ parent' = parent /\ Rows' = Rows
    BY <1>5 DEF Walk, IntegrityStep, FindRoot, Pop, Finish, Rows
  <2>2. WalkInv'
    BY <1>5, FindingRoot, Popping, Finishing DEF Walk, IntegrityStep, FileInv
  <2> QED
    BY <1>1, <2>1, <2>2 DEF FileInv
<1>6. CASE Verified \/ UNCHANGED filevars
  BY <1>1, <1>2, <1>6 DEF Verified, filevars, FileInv, ivars
<1> QED
  BY <1>3, <1>4, <1>5, <1>6 DEF FileNext

\* The walk decides rightly on every log there can be, of any length: it accepts the
\* ones in which the way up from every row leads to one root, and refuses the others.
THEOREM WalkDecides == FileSpec => []AcceptsExactlyReplayable
<1>1. FileInv => AcceptsExactlyReplayable
  BY WalkAccepts DEF FileInv
<1> QED
  BY <1>1, FileInvInit, FileInvStep, PTL DEF FileSpec

\* No log makes the walk meet a row twice: its cycle error cannot be raised.
THEOREM CycleUnreachable == FileSpec => []NoRowTwice
<1>1. FileInv => NoRowTwice
  BY WalkAccepts DEF FileInv
<1> QED
  BY <1>1, FileInvInit, FileInvStep, PTL DEF FileSpec

\* What the sinks wrote is accepted, thread by thread, whatever raised or died.
THEOREM WrittenLogsAccepted == FileSpec => []SinkLogsAccepted
<1>1. FileInv => SinkLogsAccepted
  <2> SUFFICES ASSUME FileInv, reading \in Sessions, Decided, parent # <<>>
               PROVE  outcome = "ok"
    BY DEF SinkLogsAccepted
  <2>1. parent \in Seq(Int) /\ \A p \in Rows : parent[p] = p - 1
    BY DEF FileInv, WalkInv
  <2>2. Replayable
    BY <2>1, ChainsReplay
  <2>3. AcceptsExactlyReplayable
    BY WalkAccepts DEF FileInv
  <2> QED
    BY <2>2, <2>3 DEF AcceptsExactlyReplayable
<1> QED
  BY <1>1, FileInvInit, FileInvStep, PTL DEF FileSpec

=============================================================================
