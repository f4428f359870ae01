--------------------------- MODULE AblationProofs ---------------------------
(***************************************************************************)
(* What the ablation promises, for any corpus, any number of runs over the *)
(* same roots and any calls that fail: each bug has its two results, flat  *)
(* verdicts are backed by rows and are about the clone's commit, and no    *)
(* worktree is left behind but by git, or tested with another lane's patch. *)
(***************************************************************************)
EXTENDS Ablation, Induction, FiniteSetTheorems

USE DEF trees

Applied == {"none", "applied", "rejected"}
Outcome == {"none", "passed", "failed"}
Verdicts == {"error", "pass", "fail"}
BetweenLanes == {"preparing", "run_bug", "done"}
Working == {"falsification", "coder", "worktree", "apply", "test", "testing", "record",
            "remove", "return"}

Row == [node : {"coder", "runner"}, parent : Nat, apply : Applied, test_passed : Outcome]
FlatLocals == [audit_ids : Seq(Nat), apply : Applied, test_passed : Outcome,
               verdict : Verdicts, failing : BOOLEAN, at : Int]
LaneResult == [bug : Bugs, mode : {"falsification", "flat"}, success : BOOLEAN,
               verdict : Verdicts, test_passed : Outcome, audit_event_ids : Seq(Nat), at : Int]

AType ==
    /\ pc \in BetweenLanes \cup Working
    /\ bug \in Nat
    /\ pc \in Working => bug \in Bugs
    /\ flat \in FlatLocals
    /\ bug_results \in [Bugs -> Seq(LaneResult)]
    /\ rows \in [Threads -> Seq(Row)]
    /\ checkout \in [Threads -> Checkout]
    /\ clone \in [Dirs -> [state : {"none", "cloned", "partial"}, head : Int]]

\* The rows that VerdictHasEvidence asks for, in a log.
Backed(log, ids, verdict, test_passed) ==
    /\ Len(ids) = 2 /\ ids[1] \in DOMAIN log /\ ids[2] \in DOMAIN log
    /\ log[ids[1]].node = "coder" /\ log[ids[2]].node = "runner"
    /\ log[ids[2]].parent = ids[1]
    /\ log[ids[2]].test_passed = test_passed
    /\ verdict = "pass" <=> (test_passed = "passed" /\ log[ids[2]].apply = "applied")

\* What FlatLoop.run holds on its way: the coder's row from there on, and both rows by
\* the time it returns, unless an exception is on its way.
Lane ==
    /\ pc = "coder" => flat.audit_ids = <<>>
    /\ pc \in {"worktree", "apply", "test", "testing", "record"} =>
         /\ Len(flat.audit_ids) = 1
         /\ flat.audit_ids[1] \in DOMAIN rows[thread_id]
         /\ rows[thread_id][flat.audit_ids[1]].node = "coder"
    /\ pc \in {"test", "testing"} => flat.apply = "applied"
    /\ pc = "record" =>
         (flat.verdict = "pass" <=> (flat.test_passed = "passed" /\ flat.apply = "applied"))
    /\ pc \in {"remove", "return"} =>
         \/ flat.failing
         \/ Backed(rows[thread_id], flat.audit_ids, flat.verdict, flat.test_passed)

\* Every verdict returned so far is backed by the log of its bug.
Evidence ==
    \A b \in Bugs : \A i \in DOMAIN bug_results[b] :
        LET r == bug_results[b][i]
        IN  r.verdict \in {"pass", "fail"} =>
                Backed(rows[Thread(r.bug)], r.audit_event_ids, r.verdict, r.test_passed)

-----------------------------------------------------------------------------

LEMMA Appended ==
    ASSUME NEW S, NEW s \in Seq(S), NEW e \in S
    PROVE  /\ Append(s, e) \in Seq(S) /\ Len(s) \in Nat
           /\ Len(Append(s, e)) = Len(s) + 1 /\ Append(s, e)[Len(s) + 1] = e
           /\ DOMAIN Append(s, e) = DOMAIN s \cup {Len(s) + 1}
           /\ \A i \in DOMAIN s : Append(s, e)[i] = s[i]
  OBVIOUS

LEMMA Element ==
    ASSUME NEW S, NEW s \in Seq(S), NEW i \in 1 .. Len(s)
    PROVE  s[i] \in S
  OBVIOUS

LEMMA Concatenation ==
    ASSUME NEW S, NEW s \in Seq(S), NEW t \in Seq(S)
    PROVE  /\ s \o t \in Seq(S)
           /\ \A i \in DOMAIN (s \o t) : \/ \E j \in DOMAIN s : (s \o t)[i] = s[j]
                                         \/ \E j \in DOMAIN t : (s \o t)[i] = t[j]
<1>1. s \o t \in Seq(S) /\ Len(s) \in Nat /\ Len(t) \in Nat /\ Len(s \o t) = Len(s) + Len(t)
  OBVIOUS
<1>2. ASSUME NEW i \in DOMAIN (s \o t)
      PROVE  \/ \E j \in DOMAIN s : (s \o t)[i] = s[j]
             \/ \E j \in DOMAIN t : (s \o t)[i] = t[j]
  <2>1. CASE i <= Len(s)
    BY <1>1, <2>1
  <2>2. CASE ~(i <= Len(s))
    <3>1. i - Len(s) \in DOMAIN t /\ (s \o t)[i] = t[i - Len(s)]
      BY <1>1, <2>2
    <3> QED
      BY <3>1
  <2> QED
    BY <2>1, <2>2
<1> QED
  BY <1>1, <1>2

LEMMA ThreadOfBug == \A b \in Bugs : Thread(b) \in Threads /\ Corpus[b].dir \in Dirs
  BY DEF Threads, Dirs

LEMMA ErrorTyped ==
    ASSUME bug \in Bugs, NEW mode \in {"falsification", "flat"}
    PROVE  ErrorResult(mode) \in LaneResult /\ ErrorResult(mode).verdict = "error"
  BY DEF ErrorResult, Result, LaneResult, Verdicts, Outcome

LEMMA NewTyped == NewFlat \in FlatLocals
  BY DEF NewFlat, FlatLocals, Applied, Outcome, Verdicts

LEMMA SeedTyped ==
    ASSUME clone \in [Dirs -> [state : {"none", "cloned", "partial"}, head : Int]], SeedStep
    PROVE  clone' \in [Dirs -> [state : {"none", "cloned", "partial"}, head : Int]]
<1> PICK b \in Bugs : Setup(b) \/ CheckoutFails(b) \/ CloneDies(b) \/ ApplyFix(b)
  BY DEF SeedStep
<1>1. Corpus[b].commit \in Int /\ -Corpus[b].commit \in Int /\ Corpus[b].dir \in Dirs
  <2>1. Corpus[b] \in SeedBug
    BY SeedAssumption, Element DEF Bugs
  <2>2. Corpus[b].commit \in Nat
    BY <2>1 DEF SeedBug
  <2> QED
    BY <2>2, ThreadOfBug
<1>2. ASSUME NEW state \in {"none", "cloned", "partial"}, NEW h \in Int, Prepare(b, state, h)
      PROVE  clone' \in [Dirs -> [state : {"none", "cloned", "partial"}, head : Int]]
  BY <1>1, <1>2 DEF Prepare
<1>3. clone[Corpus[b].dir] \in [state : {"none", "cloned", "partial"}, head : Int]
  BY <1>1
<1>4. clone[Corpus[b].dir].state \in {"none", "cloned", "partial"}
      /\ clone[Corpus[b].dir].head \in Int
  BY <1>3
<1>5. CASE CheckoutFails(b)
  <2>1. (IF clone[Corpus[b].dir].state = "none" THEN "cloned"
         ELSE clone[Corpus[b].dir].state) \in {"none", "cloned", "partial"}
    BY <1>4
  <2> QED
    BY <1>2, <1>4, <1>5, <2>1 DEF CheckoutFails
<1>6. CASE Setup(b)
  BY <1>1, <1>2, <1>6 DEF Setup
<1>7. CASE CloneDies(b)
  BY <1>2, <1>7 DEF CloneDies, DefaultBranch
<1>8. CASE ApplyFix(b)
  BY <1>1, <1>2, <1>8 DEF ApplyFix
<1> QED
  BY <1>5, <1>6, <1>7, <1>8

\* run_bug is over for a bug: its results join those of the others.
LEMMA NextTyped ==
    ASSUME AType, bug \in Bugs, NEW r \in Seq(LaneResult), NextBug(r)
    PROVE  /\ pc' = "run_bug" /\ bug' \in Nat
           /\ bug_results' \in [Bugs -> Seq(LaneResult)]
<1>1. bug_results[bug] \o r \in Seq(LaneResult)
  BY Concatenation DEF AType
<1> QED
  BY <1>1 DEF AType, NextBug

LEMMA WriteTyped ==
    ASSUME AType, thread_id \in Threads, NEW row \in Row, Write(row)
    PROVE  /\ rows' \in [Threads -> Seq(Row)] /\ flat' \in FlatLocals
           /\ \E ids \in Seq(Nat) : flat' = [flat EXCEPT !.audit_ids = ids]
           /\ flat'.audit_ids = Append(flat.audit_ids, Len(rows[thread_id]) + 1)
<1>1. rows[thread_id] \in Seq(Row) /\ flat.audit_ids \in Seq(Nat)
  BY DEF AType, FlatLocals
<1>2. Append(rows[thread_id], row) \in Seq(Row) /\ Len(rows[thread_id]) + 1 \in Nat
  BY <1>1
<1>3. Append(flat.audit_ids, Len(rows[thread_id]) + 1) \in Seq(Nat)
  BY <1>1, <1>2
<1> QED
  BY <1>2, <1>3 DEF AType, Write, FlatLocals

LEMMA RaisesTyped ==
    ASSUME AType, NEW from \in Working, NEW to \in Working, FlatRaises(from, to)
    PROVE  AType'
  BY DEF AType, FlatRaises, At, FlatLocals, Outside, seedvars, Threads, Thread, Bugs, Dirs

LEMMA TypeStep ==
    ASSUME AType, Lane, [AblationNext]_avars
    PROVE  AType'
<1> USE DEF Working, BetweenLanes
<1>a. bug \in Bugs => thread_id \in Threads
  BY ThreadOfBug DEF thread_id
<1>b. flat \in FlatLocals /\ NewFlat \in FlatLocals
  BY NewTyped DEF AType
<1>c. \A r \in LaneResult : <<r>> \in Seq(LaneResult)
  OBVIOUS
<1>d. \A q, r \in LaneResult : <<q, r>> \in Seq(LaneResult)
  OBVIOUS
<1>1. CASE UnknownRepo \/ SinkRaises
  <2>1. bug \in Bugs /\ UNCHANGED <<flat, rows, checkout, clone>>
    BY <1>1 DEF UnknownRepo, SinkRaises, At, Outside, seedvars
  <2>2. <<ErrorResult("falsification"), ErrorResult("flat")>> \in Seq(LaneResult)
    BY <1>d, <2>1, ErrorTyped
  <2> QED
    BY <1>1, <2>1, <2>2, NextTyped DEF UnknownRepo, SinkRaises, AType
<1>2. CASE FactoryRaises
  <2>1. bug \in Bugs /\ UNCHANGED <<flat, rows, checkout, clone>>
    BY <1>2 DEF FactoryRaises, At, Outside, seedvars
  <2>2. <<ErrorResult("flat")>> \in Seq(LaneResult)
    BY <1>c, <2>1, ErrorTyped
  <2> QED
    BY <1>2, <2>1, <2>2, NextTyped DEF FactoryRaises, AType
<1>3. CASE FlatReturn
  <2> DEFINE r == Result("flat", TRUE, IF flat.failing THEN "error" ELSE flat.verdict,
                         flat.test_passed, flat.audit_ids, flat.at)
  <2>1. bug \in Bugs /\ UNCHANGED <<flat, rows, checkout, clone>>
    BY <1>3 DEF FlatReturn, At, Outside, seedvars
  <2>2. r \in LaneResult
    BY <1>b, <2>1 DEF LaneResult, Result, FlatLocals, Verdicts
  <2>3. <<r>> \in Seq(LaneResult)
    BY <1>c, <2>2
  <2> QED
    BY <1>3, <2>1, <2>3, NextTyped DEF FlatReturn, AType
<1>4. CASE OpenSink
  BY <1>4 DEF OpenSink, At, AType, Outside, seedvars
<1>5. CASE RunFalsification
  <2>1. bug \in Bugs /\ UNCHANGED <<rows, checkout, clone, bug>> /\ flat' = NewFlat
        /\ pc' = "coder"
        /\ bug_results' = [bug_results EXCEPT ![bug] = Append(@, ErrorResult("falsification"))]
    BY <1>5 DEF RunFalsification, At, Outside, seedvars
  <2>2. Append(bug_results[bug], ErrorResult("falsification")) \in Seq(LaneResult)
    BY <2>1, ErrorTyped, Appended DEF AType
  <2> QED
    BY <1>b, <2>1, <2>2 DEF AType
<1>6. CASE FlatCoder
  <2> DEFINE row == [node |-> "coder", parent |-> 0, apply |-> "none", test_passed |-> "none"]
  <2>1. row \in Row
    BY DEF Row, Applied, Outcome
  <2>2. bug \in Bugs /\ Write(row) /\ pc' = "worktree"
        /\ UNCHANGED <<bug, bug_results, checkout, clone>>
    BY <1>6 DEF FlatCoder, At, Outside, seedvars
  <2> QED
    BY <1>a, <2>1, <2>2, WriteTyped DEF AType
<1>7. CASE FlatRecord
  <2> DEFINE parent == flat.audit_ids[Len(flat.audit_ids)]
             row == [node |-> "runner", parent |-> parent, apply |-> flat.apply,
                     test_passed |-> flat.test_passed]
  <2>1. bug \in Bugs /\ Write(row) /\ pc' = "remove"
        /\ UNCHANGED <<bug, bug_results, checkout, clone>>
    BY <1>7 DEF FlatRecord, At, Outside, seedvars
  <2>2. parent \in Nat
    <3>1. pc = "record"
      BY <1>7 DEF FlatRecord, At
    <3>2. flat.audit_ids \in Seq(Nat) /\ Len(flat.audit_ids) = 1
      BY <1>b, <3>1 DEF Lane, FlatLocals
    <3> QED
      BY <3>2
  <2>3. row \in Row
    BY <1>b, <2>2 DEF Row, FlatLocals
  <2> QED
    BY <1>a, <2>1, <2>3, WriteTyped DEF AType
<1>8. CASE CoderRaises \/ WorkRaises \/ RmtreeRaises
  BY <1>8, RaisesTyped DEF CoderRaises, WorkRaises, RmtreeRaises
<1>9. CASE FlatWorktree
  <2>1. bug \in Bugs /\ UNCHANGED <<bug, bug_results, rows, clone>>
    BY <1>9 DEF FlatWorktree, At, Outside, seedvars
  <2>2. checkout[thread_id] \in Checkout /\ create_worktree(checkout[thread_id]).tree \in Checkout
        /\ create_worktree(checkout[thread_id]).ok \in BOOLEAN
    BY <1>a, <2>1 DEF AType, create_worktree, git_worktree_add, Checkout
  <2>3. head \in Int
    <3>1. clone[Corpus[bug].dir] \in [state : {"none", "cloned", "partial"}, head : Int]
      BY <2>1, ThreadOfBug DEF AType
    <3> QED
      BY <3>1 DEF head
  <2> DEFINE made == create_worktree(checkout[thread_id])
  <2>4. /\ checkout' = [checkout EXCEPT ![thread_id] = made.tree]
        /\ pc' = IF made.ok THEN "apply" ELSE "return"
        /\ flat' = [flat EXCEPT !.failing = ~made.ok, !.at = IF made.ok THEN head ELSE 0]
    BY <1>9 DEF FlatWorktree
  <2> HIDE DEF made
  <2>5. (~made.ok) \in BOOLEAN /\ (IF made.ok THEN head ELSE 0) \in Int
    BY <2>3
  <2>6. flat' \in FlatLocals
    BY <1>b, <2>4, <2>5 DEF FlatLocals
  <2>7. checkout' \in [Threads -> Checkout] /\ pc' \in {"apply", "return"}
    BY <2>2, <2>4 DEF AType, made
  <2> QED
    BY <2>1, <2>6, <2>7 DEF AType
<1>10. CASE WorktreeTimesOut \/ FlatRemove \/ RemoveFails \/ RemoveTimesOut
  <2>1. bug \in Bugs /\ UNCHANGED <<bug, bug_results, rows, clone>>
        /\ pc' = "return"
    BY <1>10 DEF WorktreeTimesOut, FlatRemove, RemoveFails, RemoveTimesOut, At, Outside, seedvars
  <2>2. flat' \in FlatLocals
    BY <1>10, <1>b DEF WorktreeTimesOut, FlatRemove, RemoveFails, RemoveTimesOut, FlatLocals
  <2>3. remove_worktree(checkout[thread_id]) \subseteq Checkout
    <3>1. checkout[thread_id] \in Checkout
      BY <1>a, <2>1 DEF AType
    <3> QED
      <4> DEFINE w == checkout[thread_id]
      <4>1. [w EXCEPT !.registered = FALSE] \in Checkout
        BY <3>1 DEF Checkout
      <4>2. NoCheckout \in Checkout
        BY DEF NoCheckout, Checkout
      <4> HIDE DEF w
      <4> QED
        BY <3>1, <4>1, <4>2 DEF remove_worktree, w
  <2>4. \E left \in Checkout : checkout' = [checkout EXCEPT ![thread_id] = left]
    BY <1>10, <2>3 DEF WorktreeTimesOut, FlatRemove, RemoveFails, RemoveTimesOut, Leaves
  <2>5. checkout' \in [Threads -> Checkout]
    BY <2>4 DEF AType
  <2> QED
    BY <2>1, <2>2, <2>5 DEF AType
<1>11. CASE \E status \in {"applied", "rejected"} : FlatApply(status)
  <2>1. bug \in Bugs /\ UNCHANGED <<bug, bug_results, rows, checkout, clone>>
        /\ pc' \in {"test", "record"}
    BY <1>11 DEF FlatApply, At, Outside, seedvars
  <2>2. flat' \in FlatLocals
    BY <1>11, <1>b DEF FlatApply, FlatLocals, Applied, Outcome, Verdicts
  <2> QED
    BY <2>1, <2>2 DEF AType
<1>12. CASE FlatTests \/ TestsReturn \/ TestsTimeOut
  <2>1. bug \in Bugs /\ UNCHANGED <<bug, bug_results, rows, checkout, clone>>
        /\ pc' \in {"testing", "record"}
    BY <1>12 DEF FlatTests, TestsReturn, TestsTimeOut, Tested, At, seedvars
  <2>2. flat' \in FlatLocals
    BY <1>12, <1>b DEF FlatTests, TestsReturn, TestsTimeOut, Tested, Returned, FlatLocals,
                       Outcome, Verdicts
  <2> QED
    BY <2>1, <2>2 DEF AType
<1>13. CASE Collect \/ Begin \/ TestsRun
  BY <1>13 DEF Collect, Begin, TestsRun, lanevars, seedvars, Outside, AType
<1>14. CASE PrepareClones
  BY <1>14, SeedTyped DEF PrepareClones, lanevars, AType
<1>15. CASE OrphanWrites
  <2>1. PICK o \in orphans : checkout' = [checkout EXCEPT ![o.tree].on_disk = TRUE]
    BY <1>15 DEF OrphanWrites
  <2>2. checkout' \in [Threads -> Checkout]
    BY <2>1 DEF AType, Checkout
  <2> QED
    BY <1>15, <2>2 DEF OrphanWrites, Outside, seedvars, AType
<1>16. CASE RunAgain
  <2>1. [b \in Bugs |-> <<>>] \in [Bugs -> Seq(LaneResult)]
    OBVIOUS
  <2> QED
    BY <1>16, <1>b, <2>1 DEF RunAgain, Outside, seedvars, AType
<1>17. CASE UNCHANGED avars
  BY <1>17 DEF avars, lanevars, seedvars, AType
<1> QED
  BY <1>1, <1>2, <1>3, <1>4, <1>5, <1>6, <1>7, <1>8, <1>9, <1>10, <1>11, <1>12, <1>13, <1>14,
     <1>15, <1>16, <1>17 DEF AblationNext, RunStep, FlatStep, World, AblationDone

-----------------------------------------------------------------------------

\* Rows are never taken back.
LEMMA BackedLater ==
    ASSUME NEW log \in Seq(Row), NEW row \in Row, NEW ids, NEW verdict, NEW test,
           Backed(log, ids, verdict, test)
    PROVE  Backed(Append(log, row), ids, verdict, test)
  BY Appended DEF Backed

LEMMA LaneStep ==
    ASSUME AType, Lane, [AblationNext]_avars
    PROVE  Lane'
<1> USE DEF Working, BetweenLanes
<1>a. bug \in Bugs => thread_id \in Threads
  BY ThreadOfBug DEF thread_id
<1>b. flat \in FlatLocals
  BY DEF AType
<1>c. UNCHANGED bug => thread_id' = thread_id
  BY DEF thread_id, Thread
<1>1. CASE UnknownRepo \/ SinkRaises \/ FactoryRaises \/ FlatReturn \/ OpenSink \/ Collect
           \/ Begin \/ RunAgain
  <2>1. pc' \in {"run_bug", "falsification", "done"}
    BY <1>1 DEF UnknownRepo, SinkRaises, FactoryRaises, FlatReturn, NextBug, OpenSink, Collect,
                Begin, RunAgain
  <2> QED
    BY <2>1 DEF Lane
<1>2. CASE RunFalsification
  BY <1>2 DEF RunFalsification, Lane, NewFlat
<1>3. CASE FlatCoder
  <2> DEFINE row == [node |-> "coder", parent |-> 0, apply |-> "none", test_passed |-> "none"]
             log == rows[thread_id]
  <2>1. bug \in Bugs /\ pc = "coder" /\ Write(row) /\ pc' = "worktree" /\ UNCHANGED bug
    BY <1>3 DEF FlatCoder, At
  <2>2. row \in Row /\ row.node = "coder"
    BY DEF Row, Applied, Outcome
  <2>3. /\ log \in Seq(Row) /\ Len(log) \in Nat /\ flat.audit_ids = <<>>
        /\ rows'[thread_id] = Append(log, row)
    BY <1>a, <2>1 DEF AType, Write, Lane
  <2>5. flat'.audit_ids = Append(<<>>, Len(log) + 1)
    BY <1>a, <2>1, <2>2, <2>3, WriteTyped
  <2>6. Len(flat'.audit_ids) = 1 /\ flat'.audit_ids[1] = Len(log) + 1
    BY <2>5
  <2> HIDE DEF row, log
  <2>4. /\ Len(log) + 1 \in DOMAIN Append(log, row) /\ Append(log, row)[Len(log) + 1] = row
    BY <2>2, <2>3, Appended
  <2> QED
    BY <1>c, <2>1, <2>2, <2>3, <2>4, <2>6 DEF Lane
<1>4. CASE FlatRecord
  <2> DEFINE first == flat.audit_ids[Len(flat.audit_ids)]
             row == [node |-> "runner", parent |-> first, apply |-> flat.apply,
                     test_passed |-> flat.test_passed]
             log == rows[thread_id]
  <2>1. bug \in Bugs /\ pc = "record" /\ Write(row) /\ pc' = "remove" /\ UNCHANGED bug
    BY <1>4 DEF FlatRecord, At
  <2>2. /\ flat.audit_ids \in Seq(Nat) /\ Len(flat.audit_ids) = 1 /\ first \in DOMAIN log
        /\ first \in Nat /\ flat.audit_ids[1] = first /\ log[first].node = "coder"
        /\ flat.verdict = "pass" <=> (flat.test_passed = "passed" /\ flat.apply = "applied")
    BY <1>b, <2>1 DEF Lane, FlatLocals
  <2>3. row \in Row /\ row.node = "runner" /\ row.parent = first
        /\ row.test_passed = flat.test_passed /\ row.apply = flat.apply
    BY <1>b, <2>2 DEF Row, FlatLocals
  <2>4. /\ log \in Seq(Row) /\ rows'[thread_id] = Append(log, row)
        /\ flat'.audit_ids = Append(flat.audit_ids, Len(log) + 1)
        /\ flat'.verdict = flat.verdict /\ flat'.test_passed = flat.test_passed
    BY <1>a, <1>b, <2>1, <2>3, WriteTyped DEF AType, Write, FlatLocals
  <2> HIDE DEF row, log, first
  <2>5. /\ Len(log) + 1 \in DOMAIN Append(log, row) /\ Append(log, row)[Len(log) + 1] = row
        /\ first \in DOMAIN Append(log, row) /\ Append(log, row)[first] = log[first]
    BY <2>2, <2>3, <2>4, Appended
  <2>6. /\ Len(flat'.audit_ids) = 2 /\ flat'.audit_ids[1] = first
        /\ flat'.audit_ids[2] = Len(log) + 1
    BY <2>2, <2>4, Appended
  <2>7. Backed(Append(log, row), flat'.audit_ids, flat'.verdict, flat'.test_passed)
    BY <2>2, <2>3, <2>4, <2>5, <2>6 DEF Backed
  <2> QED
    BY <1>c, <2>1, <2>4, <2>7 DEF Lane
<1>5. CASE CoderRaises \/ WorkRaises \/ RmtreeRaises
  <2>1. flat'.failing /\ pc' \in {"remove", "return"}
    BY <1>5, <1>b DEF CoderRaises, WorkRaises, RmtreeRaises, FlatRaises, FlatLocals
  <2> QED
    BY <2>1 DEF Lane
<1>6. CASE FlatWorktree
  <2>1. pc = "worktree" /\ UNCHANGED <<bug, rows>> /\ flat'.audit_ids = flat.audit_ids
        /\ (pc' = "apply" \/ (pc' = "return" /\ flat'.failing))
    BY <1>6, <1>b DEF FlatWorktree, At, FlatLocals
  <2> QED
    BY <1>c, <2>1 DEF Lane
<1>7. CASE WorktreeTimesOut \/ RemoveTimesOut
  <2>1. flat'.failing /\ pc' = "return"
    BY <1>7, <1>b DEF WorktreeTimesOut, RemoveTimesOut, FlatLocals
  <2> QED
    BY <2>1 DEF Lane
<1>8. CASE FlatRemove \/ RemoveFails
  <2>1. pc = "remove" /\ pc' = "return" /\ UNCHANGED <<bug, rows, flat>>
    BY <1>8 DEF FlatRemove, RemoveFails, At
  <2> QED
    BY <1>c, <2>1 DEF Lane
<1>9. ASSUME NEW status \in {"applied", "rejected"}, FlatApply(status) PROVE Lane'
  <2>1. pc = "apply" /\ UNCHANGED <<bug, rows>> /\ flat'.audit_ids = flat.audit_ids
        /\ \/ pc' = "test" /\ flat'.apply = "applied"
           \/ pc' = "record" /\ flat'.apply = "rejected" /\ flat'.verdict = "fail"
    BY <1>9, <1>b DEF FlatApply, At, FlatLocals
  <2> QED
    BY <1>c, <2>1 DEF Lane
<1>10. CASE FlatTests
  <2>1. pc = "test" /\ pc' = "testing" /\ UNCHANGED <<bug, rows, flat>>
    BY <1>10 DEF FlatTests, At
  <2> QED
    BY <1>c, <2>1 DEF Lane
<1>11. CASE TestsReturn \/ TestsTimeOut
  <2>1. PICK result : Tested(result)
    BY <1>11 DEF TestsReturn, TestsTimeOut
  <2>2. pc = "testing" /\ pc' = "record" /\ UNCHANGED <<bug, rows>>
        /\ flat'.audit_ids = flat.audit_ids /\ flat'.apply = flat.apply
        /\ flat'.test_passed = result
        /\ flat'.verdict = IF result = "passed" THEN "pass" ELSE "fail"
    BY <2>1, <1>b DEF Tested, At, FlatLocals
  <2> QED
    BY <1>c, <2>2 DEF Lane
<1>12. CASE TestsRun \/ PrepareClones \/ OrphanWrites \/ UNCHANGED avars
  <2>1. UNCHANGED <<bug, pc, rows, flat>>
    BY <1>12 DEF TestsRun, PrepareClones, OrphanWrites, avars, lanevars
  <2> QED
    BY <1>c, <2>1 DEF Lane
<1> QED
  BY <1>1, <1>2, <1>3, <1>4, <1>5, <1>6, <1>7, <1>8, <1>9, <1>10, <1>11, <1>12
     DEF AblationNext, RunStep, FlatStep, World, AblationDone

\* The results of a bug that is over: none claims a verdict, or the claim is backed.
LEMMA NextBacked ==
    ASSUME AType, Evidence, bug \in Bugs, NEW r \in Seq(LaneResult), NextBug(r), UNCHANGED rows,
           \A j \in DOMAIN r : r[j].verdict \in {"pass", "fail"} =>
               Backed(rows[Thread(r[j].bug)], r[j].audit_event_ids, r[j].verdict, r[j].test_passed)
    PROVE  Evidence'
<1> SUFFICES ASSUME NEW b \in Bugs, NEW i \in DOMAIN bug_results'[b],
                    bug_results'[b][i].verdict \in {"pass", "fail"}
             PROVE  Backed(rows[Thread(bug_results'[b][i].bug)],
                           bug_results'[b][i].audit_event_ids, bug_results'[b][i].verdict,
                           bug_results'[b][i].test_passed)
  BY DEF Evidence
<1>1. bug_results' = [bug_results EXCEPT ![bug] = bug_results[bug] \o r]
      /\ bug_results[bug] \in Seq(LaneResult)
  BY DEF NextBug, AType
<1>2. CASE b = bug
  <2> DEFINE both == bug_results[bug] \o r
  <2>1. bug_results'[b] = both
    BY <1>1, <1>2 DEF AType
  <2>2. \/ \E j \in DOMAIN bug_results[bug] : both[i] = bug_results[bug][j]
        \/ \E j \in DOMAIN r : both[i] = r[j]
    BY <1>1, <2>1, Concatenation
  <2> HIDE DEF both
  <2> QED
    BY <2>1, <2>2 DEF Evidence
<1>3. CASE b # bug
  <2>1. bug_results'[b] = bug_results[b]
    BY <1>1, <1>3 DEF AType
  <2> QED
    BY <2>1 DEF Evidence
<1> QED
  BY <1>2, <1>3

LEMMA WriteBacked ==
    ASSUME AType, Evidence, bug \in Bugs, NEW row \in Row, Write(row), UNCHANGED bug_results
    PROVE  Evidence'
<1> SUFFICES ASSUME NEW b \in Bugs, NEW i \in DOMAIN bug_results[b],
                    bug_results[b][i].verdict \in {"pass", "fail"}
             PROVE  Backed(rows'[Thread(bug_results[b][i].bug)],
                           bug_results[b][i].audit_event_ids, bug_results[b][i].verdict,
                           bug_results[b][i].test_passed)
  BY DEF Evidence
<1> DEFINE r == bug_results[b][i]
           t == Thread(r.bug)
<1>1. r \in LaneResult
  BY Element DEF AType
<1>2. t \in Threads
  BY <1>1, ThreadOfBug DEF LaneResult
<1>3. Backed(rows[t], r.audit_event_ids, r.verdict, r.test_passed)
  BY DEF Evidence
<1>4. rows[t] \in Seq(Row) /\ (rows'[t] = rows[t] \/ rows'[t] = Append(rows[t], row))
  BY <1>2 DEF AType, Write
<1> HIDE DEF r, t
<1>5. Backed(rows'[t], r.audit_event_ids, r.verdict, r.test_passed)
  BY <1>3, <1>4, BackedLater
<1> QED
  BY <1>5 DEF r, t

LEMMA EvidenceStep ==
    ASSUME AType, Lane, Evidence, [AblationNext]_avars
    PROVE  Evidence'
<1>b. flat \in FlatLocals
  BY DEF AType
<1>1. ASSUME UNCHANGED <<rows, bug_results>> PROVE Evidence'
  BY <1>1 DEF Evidence
<1>2. CASE UnknownRepo \/ SinkRaises
  <2> DEFINE r == <<ErrorResult("falsification"), ErrorResult("flat")>>
  <2>1. bug \in Bugs /\ NextBug(r) /\ UNCHANGED rows
    BY <1>2 DEF UnknownRepo, SinkRaises, At
  <2>2. r \in Seq(LaneResult) /\ \A j \in DOMAIN r : r[j].verdict = "error"
    BY <2>1, ErrorTyped
  <2> HIDE DEF r
  <2> QED
    BY <2>1, <2>2, NextBacked
<1>3. CASE FactoryRaises
  <2> DEFINE r == <<ErrorResult("flat")>>
  <2>1. bug \in Bugs /\ NextBug(r) /\ UNCHANGED rows
    BY <1>3 DEF FactoryRaises, At
  <2>2. r \in Seq(LaneResult) /\ \A j \in DOMAIN r : r[j].verdict = "error"
    BY <2>1, ErrorTyped
  <2> HIDE DEF r
  <2> QED
    BY <2>1, <2>2, NextBacked
<1>4. CASE FlatReturn
  <2> DEFINE e == Result("flat", TRUE, IF flat.failing THEN "error" ELSE flat.verdict,
                         flat.test_passed, flat.audit_ids, flat.at)
             r == <<e>>
  <2>1. bug \in Bugs /\ pc = "return" /\ NextBug(r) /\ UNCHANGED rows
    BY <1>4 DEF FlatReturn, At
  <2>2. e \in LaneResult
    BY <1>b, <2>1 DEF LaneResult, Result, FlatLocals, Verdicts
  <2>3. e.verdict \in {"pass", "fail"} =>
          Backed(rows[Thread(e.bug)], e.audit_event_ids, e.verdict, e.test_passed)
    BY <2>1 DEF Lane, Result, thread_id
  <2> HIDE DEF e
  <2>4. r \in Seq(LaneResult) /\ \A j \in DOMAIN r : r[j] = e
    BY <2>2
  <2> HIDE DEF r
  <2> QED
    BY <2>1, <2>3, <2>4, NextBacked
<1>5. CASE RunFalsification
  <2> DEFINE e == ErrorResult("falsification")
  <2>1. bug \in Bugs /\ UNCHANGED rows
        /\ bug_results' = [bug_results EXCEPT ![bug] = Append(@, e)]
    BY <1>5 DEF RunFalsification, At
  <2>2. e \in LaneResult /\ e.verdict = "error"
    BY <2>1, ErrorTyped
  <2> HIDE DEF e
  <2> SUFFICES ASSUME NEW b \in Bugs, NEW i \in DOMAIN bug_results'[b],
                      bug_results'[b][i].verdict \in {"pass", "fail"}
               PROVE  i \in DOMAIN bug_results[b] /\ bug_results'[b][i] = bug_results[b][i]
    BY <2>1 DEF Evidence
  <2>3. CASE b = bug
    <3>1. bug_results[b] \in Seq(LaneResult) /\ bug_results'[b] = Append(bug_results[b], e)
      BY <2>1, <2>3 DEF AType
    <3> QED
      BY <2>2, <3>1, Appended
  <2>4. CASE b # bug
    BY <2>1, <2>4 DEF AType
  <2> QED
    BY <2>3, <2>4
<1>6. CASE FlatCoder
  <2> DEFINE row == [node |-> "coder", parent |-> 0, apply |-> "none", test_passed |-> "none"]
  <2>1. row \in Row
    BY DEF Row, Applied, Outcome
  <2>2. bug \in Bugs /\ Write(row) /\ UNCHANGED bug_results
    BY <1>6 DEF FlatCoder, At
  <2> QED
    BY <2>1, <2>2, WriteBacked
<1>7. CASE FlatRecord
  <2> DEFINE first == flat.audit_ids[Len(flat.audit_ids)]
             row == [node |-> "runner", parent |-> first, apply |-> flat.apply,
                     test_passed |-> flat.test_passed]
  <2>1. bug \in Bugs /\ pc = "record" /\ Write(row) /\ UNCHANGED bug_results
    BY <1>7 DEF FlatRecord, At
  <2>2. first \in Nat
    <3>1. flat.audit_ids \in Seq(Nat) /\ Len(flat.audit_ids) = 1
      BY <1>b, <2>1 DEF Lane, FlatLocals
    <3> QED
      BY <3>1
  <2>3. row \in Row
    BY <1>b, <2>2 DEF Row, FlatLocals
  <2> QED
    BY <2>1, <2>3, WriteBacked
<1>8. CASE RunAgain
  BY <1>8 DEF RunAgain, Evidence
<1>9. CASE OpenSink \/ CoderRaises \/ WorkRaises \/ RmtreeRaises \/ FlatWorktree \/ WorktreeTimesOut
           \/ (\E status \in {"applied", "rejected"} : FlatApply(status)) \/ FlatTests \/ TestsReturn
           \/ TestsTimeOut \/ FlatRemove \/ RemoveFails \/ RemoveTimesOut \/ Collect \/ Begin \/ TestsRun
           \/ PrepareClones \/ OrphanWrites \/ UNCHANGED avars
  BY <1>1, <1>9 DEF OpenSink, CoderRaises, WorkRaises, RmtreeRaises, FlatRaises, FlatWorktree,
     WorktreeTimesOut, FlatApply, FlatTests, TestsReturn, TestsTimeOut, Tested, FlatRemove,
     RemoveFails, RemoveTimesOut, Collect, Begin, TestsRun, PrepareClones, OrphanWrites, avars, lanevars
<1> QED
  BY <1>2, <1>3, <1>4, <1>5, <1>6, <1>7, <1>8, <1>9
     DEF AblationNext, RunStep, FlatStep, World, AblationDone

-----------------------------------------------------------------------------

\* A lane's worktree is on git's list; any other is not, and there is a directory only
\* where somebody can still write.
Clean(t) == /\ ~checkout[t].registered
            /\ checkout[t].on_disk => \E o \in orphans : o.tree = t

Tidy == \A t \in Threads \ stuck : IF InLane(t) THEN checkout[t].registered ELSE Clean(t)

LanePoints == {"apply", "test", "testing", "record", "remove"}

LEMMA TidyStep ==
    ASSUME AType, Tidy, [AblationNext]_avars
    PROVE  Tidy'
<1> USE DEF LanePoints
<1>a. bug \in Bugs => thread_id \in Threads
  BY ThreadOfBug DEF thread_id
<1>b. UNCHANGED bug => thread_id' = thread_id
  BY DEF thread_id, Thread
<1>1. ASSUME pc \notin LanePoints, pc' \notin LanePoints, UNCHANGED <<checkout, orphans, stuck>>
      PROVE  Tidy'
  BY <1>1 DEF Tidy, Clean, InLane
<1>2. ASSUME pc \in LanePoints, pc' \in LanePoints, UNCHANGED <<bug, checkout, stuck>>,
             orphans \subseteq orphans'
      PROVE  Tidy'
  BY <1>b, <1>2 DEF Tidy, Clean, InLane
<1>3. ASSUME At("worktree") \/ At("remove"), pc' = "return", thread_id \in stuck',
             stuck \subseteq stuck', UNCHANGED <<bug, orphans>>,
             \A t \in Threads \ {thread_id} : checkout'[t] = checkout[t]
      PROVE  Tidy'
  BY <1>3 DEF Tidy, Clean, InLane, At
<1>4. CASE UnknownRepo \/ SinkRaises \/ FactoryRaises \/ FlatReturn \/ OpenSink \/ Collect
           \/ Begin \/ RunAgain \/ RunFalsification \/ FlatCoder \/ CoderRaises \/ RmtreeRaises
           \/ PrepareClones
  BY <1>1, <1>4 DEF UnknownRepo, SinkRaises, FactoryRaises, FlatReturn, NextBug, OpenSink,
     Collect, Begin, RunAgain, RunFalsification, FlatCoder, CoderRaises, RmtreeRaises, FlatRaises,
     PrepareClones, At, Outside, testvars, lanevars
<1>5. CASE (\E status \in {"applied", "rejected"} : FlatApply(status)) \/ FlatTests
           \/ FlatRecord \/ WorkRaises \/ TestsRun
  BY <1>2, <1>5 DEF FlatApply, FlatTests, StartPytest, FlatRecord, WorkRaises, FlatRaises,
     TestsRun, TestWorld, Spawn, ChildExits, PytestExits, At, Outside, testvars, lanevars
<1>6. CASE TestsReturn \/ TestsTimeOut
  <2>1. orphans \subseteq orphans'
    BY <1>6 DEF TestsReturn, TestsTimeOut, Returned, TimedOut, Leave
  <2> QED
    BY <1>2, <1>6, <2>1 DEF TestsReturn, TestsTimeOut, Tested, At
<1>7. CASE FlatWorktree
  <2> DEFINE made == create_worktree(checkout[thread_id])
  <2>1. /\ pc = "worktree" /\ bug \in Bugs /\ UNCHANGED <<bug, stuck, orphans>>
        /\ checkout' = [checkout EXCEPT ![thread_id] = made.tree]
        /\ pc' = IF made.ok THEN "apply" ELSE "return"
    BY <1>7 DEF FlatWorktree, At, Outside, testvars
  <2>2. thread_id \notin stuck => made.ok /\ made.tree.registered
    <3>1. thread_id \notin stuck => ~checkout[thread_id].registered
      BY <1>a, <2>1 DEF Tidy, Clean, InLane
    <3>2. checkout[thread_id] \in Checkout
      BY <1>a, <2>1 DEF AType
    <3> QED
      BY <3>1, <3>2 DEF create_worktree, git_worktree_add, Checkout
  <2> HIDE DEF made
  <2>3. ASSUME NEW t \in Threads \ stuck
        PROVE  IF InLane(t)' THEN checkout'[t].registered ELSE Clean(t)'
    <3>1. CASE t = thread_id
      BY <1>a, <1>b, <2>1, <2>2, <3>1 DEF AType, InLane
    <3>2. CASE t # thread_id
      <4>1. checkout'[t] = checkout[t] /\ ~InLane(t) /\ ~InLane(t)'
        BY <1>b, <2>1, <3>2 DEF AType, InLane
      <4> QED
        BY <2>1, <4>1 DEF Tidy, Clean
    <3> QED
      BY <3>1, <3>2
  <2> QED
    BY <2>1, <2>3 DEF Tidy
<1>8. CASE WorktreeTimesOut \/ RemoveFails \/ RemoveTimesOut
  BY <1>3, <1>8 DEF WorktreeTimesOut, RemoveFails, RemoveTimesOut, Leaves, At, AType, Outside, testvars
<1>9. CASE FlatRemove
  <2>1. /\ pc = "remove" /\ pc' = "return" /\ bug \in Bugs /\ UNCHANGED <<bug, stuck, orphans>>
        /\ checkout' = [checkout EXCEPT ![thread_id] = NoCheckout]
    BY <1>9 DEF FlatRemove, At, Outside, testvars
  <2>2. ASSUME NEW t \in Threads \ stuck
        PROVE  ~InLane(t)' /\ Clean(t)'
    <3>1. CASE t = thread_id
      <4>1. checkout'[t] = NoCheckout
        BY <1>a, <2>1, <3>1 DEF AType
      <4> QED
        BY <2>1, <4>1 DEF NoCheckout, Clean, InLane
    <3>2. CASE t # thread_id
      <4>1. checkout'[t] = checkout[t] /\ ~InLane(t) /\ ~InLane(t)'
        BY <2>1, <3>2 DEF AType, InLane
      <4> QED
        BY <2>1, <4>1 DEF Tidy, Clean
    <3> QED
      BY <3>1, <3>2
  <2> QED
    BY <2>1, <2>2 DEF Tidy
<1>10. CASE OrphanWrites
  <2>1. PICK o \in orphans : checkout' = [checkout EXCEPT ![o.tree].on_disk = TRUE]
    BY <1>10 DEF OrphanWrites
  <2>2. UNCHANGED <<pc, bug, stuck, orphans>>
    BY <1>10 DEF OrphanWrites, Outside, testvars
  <2>3. ASSUME NEW t \in Threads
        PROVE  /\ checkout'[t].registered = checkout[t].registered
               /\ checkout'[t].on_disk => checkout[t].on_disk \/ t = o.tree
    <3>1. checkout[t] \in Checkout
      BY DEF AType
    <3> QED
      BY <2>1, <3>1 DEF AType, Checkout
  <2>4. \A t : InLane(t)' = InLane(t)
    BY <1>b, <2>2 DEF InLane
  <2> QED
    BY <2>2, <2>3, <2>4 DEF Tidy, Clean
<1>11. CASE UNCHANGED avars
  BY <1>b, <1>11 DEF avars, lanevars, testvars, Tidy, Clean, InLane
<1> QED
  BY <1>4, <1>5, <1>6, <1>7, <1>8, <1>9, <1>10, <1>11
     DEF AblationNext, RunStep, FlatStep, World, AblationDone

\* Between its worktree's addition and its patch, a lane finds no patch in the directory.
Fresh ==
    /\ applied = [t \in Threads |-> applied[t]]
    /\ pc = "apply" => applied[thread_id] = {}
    /\ pc \in {"test", "testing"} => applied[thread_id] = {lane}

LEMMA FreshStep ==
    ASSUME AType, Fresh, [AblationNext]_avars
    PROVE  Fresh'
<1>a. bug \in Bugs => thread_id \in Threads
  BY ThreadOfBug DEF thread_id
<1>b. UNCHANGED <<runs, bug>> => thread_id' = thread_id /\ lane' = lane
  BY DEF thread_id, Thread, lane
<1>c. Threads' = Threads /\ applied = [t \in Threads |-> applied[t]]
  BY DEF Threads, Thread, Bugs, Fresh
<1>d. ASSUME NEW held, applied' = [applied EXCEPT ![thread_id] = held]
      PROVE  applied' = [t \in Threads |-> applied'[t]]
  BY <1>c, <1>d
<1>1. ASSUME pc' \notin {"apply", "test", "testing"}, UNCHANGED applied PROVE Fresh'
  BY <1>c, <1>1 DEF Fresh
<1>2. ASSUME UNCHANGED <<runs, bug, applied>>,
             pc' = pc \/ (pc = "test" /\ pc' = "testing")
      PROVE  Fresh'
  BY <1>b, <1>c, <1>2 DEF Fresh
<1>3. CASE UnknownRepo \/ OpenSink \/ SinkRaises \/ RunFalsification \/ Collect \/ FlatCoder
           \/ FactoryRaises \/ CoderRaises \/ RmtreeRaises \/ TestsReturn \/ TestsTimeOut
           \/ FlatRecord \/ WorkRaises \/ FlatReturn \/ PrepareClones \/ Begin \/ RunAgain
  <2>1. UNCHANGED applied
    BY <1>3 DEF UnknownRepo, OpenSink, SinkRaises, RunFalsification, Collect, FlatCoder,
       FactoryRaises, CoderRaises, RmtreeRaises, FlatRaises, TestsReturn, TestsTimeOut, Tested,
       FlatRecord, WorkRaises, FlatReturn, PrepareClones, lanevars, Begin, RunAgain
  <2>2. pc' \notin {"apply", "test", "testing"}
    BY <1>3 DEF UnknownRepo, OpenSink, SinkRaises, RunFalsification, Collect, FlatCoder,
       FactoryRaises, CoderRaises, RmtreeRaises, FlatRaises, TestsReturn, TestsTimeOut, Tested,
       FlatRecord, WorkRaises, FlatReturn, NextBug, PrepareClones, lanevars, Begin, RunAgain
  <2> QED
    BY <1>1, <2>1, <2>2
<1>4. CASE WorktreeTimesOut \/ FlatRemove \/ RemoveFails \/ RemoveTimesOut
  <2>1. pc' = "return" /\ \E held : applied' = [applied EXCEPT ![thread_id] = held]
    BY <1>4 DEF WorktreeTimesOut, FlatRemove, RemoveFails, RemoveTimesOut, Leaves
  <2>2. applied' = [t \in Threads |-> applied'[t]]
    BY <1>d, <2>1
  <2> QED
    BY <1>c, <2>1, <2>2 DEF Fresh
<1>5. CASE FlatWorktree
  <2>1. /\ bug \in Bugs /\ UNCHANGED <<runs, bug>> /\ pc' \in {"apply", "return"}
        /\ applied' = [applied EXCEPT ![thread_id] = {}]
    BY <1>5 DEF FlatWorktree, At
  <2>2. applied' = [t \in Threads |-> applied'[t]] /\ applied'[thread_id] = {}
    BY <1>a, <1>c, <1>d, <2>1
  <2> QED
    BY <1>b, <1>c, <2>1, <2>2 DEF Fresh
<1>6. ASSUME NEW status \in {"applied", "rejected"}, FlatApply(status) PROVE Fresh'
  <2>1. CASE status = "applied"
    <3>1. /\ bug \in Bugs /\ pc = "apply" /\ pc' = "test" /\ UNCHANGED <<runs, bug>>
          /\ applied' = [applied EXCEPT ![thread_id] = applied[thread_id] \cup {lane}]
      BY <1>6, <2>1 DEF FlatApply, At
    <3>2. applied[thread_id] \cup {lane} = {lane}
      BY <3>1 DEF Fresh
    <3>3. applied' = [t \in Threads |-> applied'[t]] /\ applied'[thread_id] = {lane}
      BY <1>a, <1>c, <1>d, <3>1, <3>2
    <3> QED
      BY <1>b, <1>c, <3>1, <3>3 DEF Fresh
  <2>2. CASE status = "rejected"
    BY <1>1, <1>6, <2>2 DEF FlatApply
  <2> QED
    BY <2>1, <2>2
<1>7. CASE FlatTests \/ TestsRun \/ OrphanWrites \/ UNCHANGED avars
  BY <1>2, <1>7 DEF FlatTests, At, TestsRun, OrphanWrites, avars, lanevars
<1> QED
  BY <1>3, <1>4, <1>5, <1>6, <1>7 DEF AblationNext, RunStep, FlatStep, World, AblationDone

-----------------------------------------------------------------------------

\* The two results of a bug, in the order of the arms.
Pair(results, b) ==
    /\ Len(results) = 2
    /\ results[1].bug = b /\ results[1].mode = "falsification"
    /\ results[2].bug = b /\ results[2].mode = "flat"

\* What run_bug has returned of each bug, wherever it is: both results of those it is
\* over with, the falsification lane's of the one whose flat lane runs, no others.
Settled ==
    /\ pc = "preparing" => bug = 1
    /\ pc = "done" => ResultsPaired
    /\ pc \in Working => bug \in Bugs
    /\ \A b \in Bugs :
         /\ b < bug => Pair(bug_results[b], b)
         /\ b > bug => bug_results[b] = <<>>
         /\ b = bug => IF pc \in Working \ {"falsification"}
                       THEN /\ Len(bug_results[b]) = 1
                            /\ bug_results[b][1].bug = b
                            /\ bug_results[b][1].mode = "falsification"
                       ELSE bug_results[b] = <<>>

\* What gather's results are put together to, when every bug has its two.
LEMMA Gathered ==
    ASSUME AType, \A b \in Bugs : Pair(bug_results[b], b)
    PROVE  /\ Len(Concatenated) = 2 * Len(Corpus)
           /\ Concatenated \in Seq(LaneResult)
           /\ \A b \in Bugs : /\ Concatenated[2 * b - 1] = bug_results[b][1]
                             /\ Concatenated[2 * b] = bug_results[b][2]
<1> DEFINE n    == Len(Corpus)
           T    == Seq(LaneResult)
           none == <<>>
           F    == [k \in Nat |-> [s \in T |-> IF k \in Bugs THEN s \o bug_results[k] ELSE s]]
           next(h) == [k \in 0 .. n |-> IF k = 0 THEN none ELSE h[k - 1] \o bug_results[k]]
           up   == CHOOSE h : h = next(h)
<1>0. n \in Nat /\ none \in T /\ Bugs = 1 .. n /\ \A b \in Bugs : bug_results[b] \in T
  <2>1. n \in Nat
    BY SeedAssumption
  <2>2. Bugs = 1 .. n
    BY DEF Bugs
  <2>3. \A b \in Bugs : bug_results[b] \in T
    BY DEF AType
  <2> QED
    BY <2>1, <2>2, <2>3
<1>1. F \in StepsIn(T)
  <2>1. \A s \in T, b \in Bugs : s \o bug_results[b] \in T
    BY <1>0, Concatenation
  <2> QED
    BY <2>1 DEF StepsIn
<1>2. \A k \in Bugs, s \in T : F[k][s] = s \o bug_results[k]
  BY <1>0
<1>a. Concatenated = up[n]
  BY DEF Concatenated
<1> HIDE DEF F, none
<1>3. PICK f \in ValuesIn(T, n) : Iterates(f, F, none, n)
  <2> HIDE DEF T, n
  <2> QED
    BY <1>0, <1>1, Recursion
<1>4. f = next(f)
  <2>1. ASSUME NEW k \in 0 .. n PROVE f[k] = IF k = 0 THEN none ELSE f[k - 1] \o bug_results[k]
    <3>1. CASE k = 0
      BY <1>3, <3>1 DEF Iterates
    <3>2. CASE k # 0
      <4>1. k \in 1 .. n /\ k - 1 \in 0 .. n
        BY <1>0, <3>2
      <4>2. f[k - 1] \in T
        BY <1>3, <4>1 DEF ValuesIn
      <4>3. f[k] = F[k][f[k - 1]]
        BY <1>3, <4>1 DEF Iterates
      <4> HIDE DEF T
      <4> QED
        BY <1>0, <1>2, <3>2, <4>1, <4>2, <4>3
    <3> QED
      BY <3>1, <3>2
  <2> QED
    BY <1>3, <2>1 DEF ValuesIn
<1>5. up = next(up)
  <2> HIDE DEF next
  <2> QED
    BY <1>4, Zenon
<1> HIDE DEF up
<1>6. \A k \in 0 .. n : up[k] = IF k = 0 THEN none ELSE up[k - 1] \o bug_results[k]
  <2>1. \A k \in 0 .. n : next(up)[k] = IF k = 0 THEN none ELSE up[k - 1] \o bug_results[k]
    OBVIOUS
  <2>2. \A k : up[k] = next(up)[k]
    <3> HIDE DEF next
    <3> QED
      BY <1>5, Zenon
  <2> QED
    BY <2>1, <2>2
<1> HIDE DEF next
<1> DEFINE inOrder(s, k) ==
             /\ s \in T /\ Len(s) = 2 * k
             /\ \A b \in 1 .. k : /\ s[2 * b - 1] = bug_results[b][1]
                                  /\ s[2 * b] = bug_results[b][2]
           S == {k \in Nat : k <= n => inOrder(up[k], k)}
<1>7. 0 \in S
  <2>1. 0 \in 0 .. n
    BY <1>0
  <2>2. up[0] = IF 0 = 0 THEN none ELSE up[0 - 1] \o bug_results[0]
    BY <1>6, <2>1
  <2>3. up[0] = none
    BY <2>2, Zenon
  <2>4. none \in T /\ Len(none) = 2 * 0 /\ 1 .. 0 = {}
    BY <1>0 DEF none
  <2>5. inOrder(none, 0)
    <3> HIDE DEF T
    <3> QED
      BY <2>4
  <2> QED
    BY <2>3, <2>5
<1>8. ASSUME NEW k \in Nat, k \in S PROVE k + 1 \in S
  <2> SUFFICES ASSUME k + 1 <= n PROVE inOrder(up[k + 1], k + 1)
    OBVIOUS
  <2>1. k + 1 \in 0 .. n /\ k + 1 # 0 /\ k + 1 - 1 = k /\ k + 1 \in Bugs /\ inOrder(up[k], k)
    BY <1>0, <1>8
  <2>2. up[k + 1] = up[k] \o bug_results[k + 1]
    <3>1. PICK j \in 0 .. n : j = k + 1
      BY <2>1
    <3>2. up[j] = IF j = 0 THEN none ELSE up[j - 1] \o bug_results[j]
      BY <1>6
    <3>3. j # 0 /\ j - 1 = k
      BY <3>1
    <3>4. up[j] = up[k] \o bug_results[j]
      BY <3>2, <3>3
    <3> QED
      BY <3>1, <3>4
  <2>a. PICK s : s = up[k]
    OBVIOUS
  <2>b. PICK t : t = bug_results[k + 1]
    OBVIOUS
  <2>3. s \in T /\ t \in T /\ Len(s) = 2 * k /\ Pair(t, k + 1)
    BY <1>0, <2>a, <2>b, <2>1
  <2>4. /\ s \o t \in T /\ Len(s \o t) = Len(s) + Len(t)
        /\ \A i \in 1 .. Len(s) : (s \o t)[i] = s[i]
        /\ \A i \in 1 .. Len(t) : (s \o t)[Len(s) + i] = t[i]
    <3>1. s \in Seq(LaneResult) /\ t \in Seq(LaneResult)
      BY <2>3
    <3>2. s \o t \in Seq(LaneResult) /\ Len(s \o t) = Len(s) + Len(t)
      BY <3>1
    <3>3. \A i \in 1 .. Len(s) : (s \o t)[i] = s[i]
      BY <3>1
    <3>4. \A i \in 1 .. Len(t) : (s \o t)[Len(s) + i] = t[i]
      BY <3>1
    <3> QED
      BY <3>2, <3>3, <3>4
  <2>5. Len(s \o t) = 2 * (k + 1)
    BY <2>3, <2>4 DEF Pair
  <2>6. (s \o t)[2 * (k + 1) - 1] = t[1] /\ (s \o t)[2 * (k + 1)] = t[2]
    <3>1. /\ 1 \in 1 .. Len(t) /\ 2 \in 1 .. Len(t)
          /\ 2 * (k + 1) - 1 = Len(s) + 1 /\ 2 * (k + 1) = Len(s) + 2
      BY <2>3 DEF Pair
    <3> QED
      BY <2>4, <3>1
  <2>7. ASSUME NEW b \in 1 .. k + 1
        PROVE  (s \o t)[2 * b - 1] = bug_results[b][1] /\ (s \o t)[2 * b] = bug_results[b][2]
    <3>1. CASE b = k + 1
      BY <2>b, <2>6, <3>1
    <3>2. CASE b # k + 1
      <4>1. b \in 1 .. k /\ 2 * b - 1 \in 1 .. Len(s) /\ 2 * b \in 1 .. Len(s)
        BY <2>3, <3>2
      <4>2. (s \o t)[2 * b - 1] = s[2 * b - 1] /\ (s \o t)[2 * b] = s[2 * b]
        BY <2>4, <4>1
      <4> QED
        BY <2>a, <2>1, <4>1, <4>2
    <3> QED
      BY <3>1, <3>2
  <2>8. up[k + 1] = s \o t
    BY <2>a, <2>b, <2>2
  <2> QED
    BY <2>4, <2>5, <2>7, <2>8
<1>9. n \in S
  <2> HIDE DEF S
  <2> QED
    BY <1>0, <1>7, <1>8, EveryNumber
<1> QED
  BY <1>0, <1>a, <1>9

\* NextBug with what a bug still lacks.
LEMMA SettledNext ==
    ASSUME AType, Settled, bug \in Bugs, NEW r \in Seq(LaneResult), NextBug(r),
           Pair(bug_results[bug] \o r, bug)
    PROVE  Settled'
<1>1. /\ bug_results' = [bug_results EXCEPT ![bug] = bug_results[bug] \o r]
      /\ bug' = bug + 1 /\ pc' = "run_bug"
  BY DEF NextBug
<1>2. bug_results \in [Bugs -> Seq(LaneResult)] /\ bug \in Nat
  BY DEF AType
<1>3. Bugs' = Bugs /\ Bugs \subseteq Nat
  BY DEF Bugs
<1>4. ASSUME NEW b \in Bugs
      PROVE  /\ b < bug' => Pair(bug_results'[b], b)
             /\ b > bug' => bug_results'[b] = <<>>
             /\ b = bug' => bug_results'[b] = <<>>
  <2>1. CASE b = bug
    <3>1. bug_results'[b] = bug_results[bug] \o r
      BY <1>1, <1>2, <2>1
    <3>2. ~(b > bug') /\ b # bug'
      BY <1>1, <1>2, <2>1
    <3> QED
      BY <2>1, <3>1, <3>2
  <2>2. CASE b # bug
    <3>1. bug_results'[b] = bug_results[b]
      BY <1>1, <1>2, <2>2
    <3>2. (b < bug' => b < bug) /\ (b > bug' \/ b = bug' => b > bug)
      BY <1>1, <1>2, <1>3, <2>2
    <3> QED
      BY <3>1, <3>2 DEF Settled
  <2> QED
    BY <2>1, <2>2
<1> QED
  BY <1>1, <1>3, <1>4 DEF Settled, Working, Pair

\* Steps of a lane that return nothing yet.
LEMMA SettledSame ==
    ASSUME Settled, UNCHANGED <<bug, bug_results>>,
           pc \in Working \ {"falsification"} <=> pc' \in Working \ {"falsification"},
           pc' \notin {"preparing", "done"}, pc' \in Working => bug \in Bugs
    PROVE  Settled'
<1>1. Bugs' = Bugs
  BY DEF Bugs
<1> QED
  BY <1>1 DEF Settled, Pair

LEMMA SettledStep ==
    ASSUME AType, Settled, [AblationNext]_avars
    PROVE  Settled'
<1>a. bug_results \in [Bugs -> Seq(LaneResult)] /\ bug \in Nat /\ flat \in FlatLocals
  BY DEF AType
<1>b. Bugs' = Bugs /\ Bugs \subseteq Nat
  BY DEF Bugs
<1>c. ASSUME NEW e \in LaneResult, bug \in Bugs, e.bug = bug, e.mode = "flat",
             pc \in Working \ {"falsification"}
      PROVE  <<e>> \in Seq(LaneResult) /\ Pair(bug_results[bug] \o <<e>>, bug)
  <2>1. /\ bug_results[bug] \in Seq(LaneResult) /\ Len(bug_results[bug]) = 1
        /\ bug_results[bug][1].bug = bug /\ bug_results[bug][1].mode = "falsification"
    BY <1>a, <1>c DEF Settled
  <2>2. LET s == bug_results[bug] \o <<e>>
        IN  Len(s) = 2 /\ s[1] = bug_results[bug][1] /\ s[2] = e
    BY <2>1
  <2> QED
    BY <1>c, <2>1, <2>2 DEF Pair
<1>1. CASE UnknownRepo \/ SinkRaises
  <2> DEFINE r == <<ErrorResult("falsification"), ErrorResult("flat")>>
  <2>1. bug \in Bugs /\ NextBug(r) /\ pc = "run_bug"
    BY <1>1 DEF UnknownRepo, SinkRaises, At
  <2>2. r \in Seq(LaneResult) /\ Pair(r, bug)
    <3>1. ErrorResult("falsification") \in LaneResult /\ ErrorResult("flat") \in LaneResult
      BY <2>1, ErrorTyped
    <3>2. \A mode : ErrorResult(mode).bug = bug /\ ErrorResult(mode).mode = mode
      BY DEF ErrorResult, Result
    <3> QED
      BY <3>1, <3>2 DEF Pair
  <2>3. bug_results[bug] = <<>>
    BY <2>1 DEF Settled, Working
  <2> HIDE DEF r
  <2>4. bug_results[bug] \o r = r
    BY <2>2, <2>3
  <2> QED
    BY <2>1, <2>2, <2>4, SettledNext
<1>2. CASE FactoryRaises
  <2> DEFINE e == ErrorResult("flat")
  <2>1. bug \in Bugs /\ NextBug(<<e>>) /\ pc = "coder"
    BY <1>2 DEF FactoryRaises, At
  <2>2. e \in LaneResult /\ e.bug = bug /\ e.mode = "flat"
    BY <2>1, ErrorTyped DEF ErrorResult, Result
  <2> HIDE DEF e
  <2>3. <<e>> \in Seq(LaneResult) /\ Pair(bug_results[bug] \o <<e>>, bug)
    BY <1>c, <2>1, <2>2 DEF Working
  <2> QED
    BY <2>1, <2>3, SettledNext
<1>3. CASE FlatReturn
  <2> DEFINE e == Result("flat", TRUE, IF flat.failing THEN "error" ELSE flat.verdict,
                         flat.test_passed, flat.audit_ids, flat.at)
  <2>1. bug \in Bugs /\ NextBug(<<e>>) /\ pc = "return"
    BY <1>3 DEF FlatReturn, At
  <2>2. e \in LaneResult /\ e.bug = bug /\ e.mode = "flat"
    BY <1>a, <2>1 DEF LaneResult, Result, FlatLocals, Verdicts
  <2> HIDE DEF e
  <2>3. <<e>> \in Seq(LaneResult) /\ Pair(bug_results[bug] \o <<e>>, bug)
    BY <1>c, <2>1, <2>2 DEF Working
  <2> QED
    BY <2>1, <2>3, SettledNext
<1>4. CASE RunFalsification
  <2> DEFINE e == ErrorResult("falsification")
  <2>1. /\ bug \in Bugs /\ pc = "falsification" /\ pc' = "coder" /\ UNCHANGED bug
        /\ bug_results' = [bug_results EXCEPT ![bug] = Append(@, e)]
    BY <1>4 DEF RunFalsification, At
  <2>2. e.bug = bug /\ e.mode = "falsification"
    BY DEF ErrorResult, Result
  <2>3. bug_results[bug] = <<>>
    BY <2>1 DEF Settled
  <2>4. /\ Len(bug_results'[bug]) = 1 /\ bug_results'[bug][1] = e
        /\ \A b \in Bugs \ {bug} : bug_results'[b] = bug_results[b]
    BY <1>a, <2>1, <2>3
  <2> HIDE DEF e
  <2>5. ASSUME NEW b \in Bugs
        PROVE  /\ b < bug => Pair(bug_results'[b], b)
               /\ b > bug => bug_results'[b] = <<>>
    <3>1. CASE b = bug
      BY <1>a, <3>1
    <3>2. CASE b # bug
      BY <2>4, <3>2 DEF Settled
    <3> QED
      BY <3>1, <3>2
  <2> QED
    BY <1>b, <2>1, <2>2, <2>4, <2>5 DEF Settled, Working, Pair
<1>5. CASE Collect
  <2>1. pc = "run_bug" /\ pc' = "done" /\ bug > Len(Corpus) /\ lane_results' = Concatenated
        /\ UNCHANGED <<bug, bug_results>>
    BY <1>5 DEF Collect
  <2>2. \A b \in Bugs : b < bug
    BY <1>a, <2>1, SeedAssumption DEF Bugs
  <2>3. \A b \in Bugs : Pair(bug_results[b], b)
    BY <2>2 DEF Settled
  <2>4. ResultsPaired'
    BY <1>b, <2>1, <2>3, Gathered DEF ResultsPaired, Pair
  <2> QED
    BY <1>b, <2>1, <2>4 DEF Settled, Working, Pair
<1>6. CASE Begin \/ RunAgain
  <2>1. bug' = 1 /\ pc' = "run_bug" /\ \A b \in Bugs : bug_results'[b] = <<>>
    <3>1. CASE Begin
      <4>1. bug = 1 /\ pc' = "run_bug" /\ UNCHANGED <<bug, bug_results>>
        BY <3>1 DEF Begin, Settled
      <4>2. \A b \in Bugs : b >= 1 /\ (b = 1 \/ b > 1)
        BY DEF Bugs
      <4> QED
        BY <3>1, <4>1, <4>2 DEF Begin, Settled, Working
    <3>2. CASE RunAgain
      BY <3>2 DEF RunAgain
    <3> QED
      BY <1>6, <3>1, <3>2
  <2>2. \A b \in Bugs : ~(b < 1)
    BY DEF Bugs
  <2> QED
    BY <1>b, <2>1, <2>2 DEF Settled, Working
<1>7. CASE OpenSink
  <2>1. pc = "run_bug" /\ pc' = "falsification" /\ bug \in Bugs /\ UNCHANGED <<bug, bug_results>>
    BY <1>7 DEF OpenSink, At
  <2> QED
    BY <2>1, SettledSame DEF Working
<1>8. CASE FlatCoder \/ CoderRaises \/ FlatWorktree \/ WorktreeTimesOut \/ RmtreeRaises
           \/ (\E status \in {"applied", "rejected"} : FlatApply(status)) \/ FlatTests
           \/ TestsReturn \/ TestsTimeOut \/ FlatRecord \/ WorkRaises \/ FlatRemove
           \/ RemoveFails \/ RemoveTimesOut
  <2>1. /\ pc \in Working \ {"falsification"} /\ pc' \in Working \ {"falsification"}
        /\ bug \in Bugs /\ UNCHANGED <<bug, bug_results>>
    BY <1>8 DEF FlatCoder, CoderRaises, FlatWorktree, WorktreeTimesOut, RmtreeRaises, FlatRaises,
       FlatApply, FlatTests, TestsReturn, TestsTimeOut, Tested, FlatRecord, WorkRaises, FlatRemove,
       RemoveFails, RemoveTimesOut, At, Working
  <2> QED
    BY <2>1, SettledSame DEF Working
<1>9. CASE TestsRun \/ PrepareClones \/ OrphanWrites \/ UNCHANGED avars
  <2>1. UNCHANGED <<pc, bug, bug_results, lane_results>>
    BY <1>9 DEF TestsRun, PrepareClones, OrphanWrites, lanevars, avars
  <2>2. ResultsPaired' <=> ResultsPaired
    BY <1>b, <2>1 DEF ResultsPaired
  <2> QED
    BY <1>b, <2>1, <2>2 DEF Settled, Pair
<1> QED
  BY <1>1, <1>2, <1>3, <1>4, <1>5, <1>6, <1>7, <1>8, <1>9
     DEF AblationNext, RunStep, FlatStep, World, AblationDone

-----------------------------------------------------------------------------

\* What a call that checked something out has left the clone at.
LeftAt(c) == IF c.fix THEN -Corpus[c.bug].commit ELSE Corpus[c.bug].commit

\* A clone is at what some call has checked out in it, if any has.
HeadsLeft ==
    /\ touched \subseteq [bug : Bugs, fix : BOOLEAN]
    /\ \A r \in Dirs :
         LET here == {c \in touched : Corpus[c.bug].dir = r}
         IN  here # {} => /\ clone[r].state = "cloned"
                          /\ \E c \in here : clone[r].head = LeftAt(c)

\* The verdicts of this run, and that of the lane on its way, are about the commit
\* that the clone is at.
VerdictsAtHead ==
    /\ pc \in LanePoints => flat.at = head
    /\ pc = "return" => flat.failing \/ flat.at = head
    /\ \A b \in Bugs : \A i \in DOMAIN bug_results[b] :
         bug_results[b][i].verdict \in {"pass", "fail"} =>
             bug_results[b][i].at = clone[Corpus[bug_results[b][i].bug].dir].head

LEMMA HeadsStep ==
    ASSUME AType, HeadsLeft, SeedStep
    PROVE  HeadsLeft'
<1> USE DEF LeftAt
<1>a. clone \in [Dirs -> [state : {"none", "cloned", "partial"}, head : Int]]
  BY DEF AType
<1> PICK b \in Bugs : Setup(b) \/ CheckoutFails(b) \/ CloneDies(b) \/ ApplyFix(b)
  BY DEF SeedStep
<1> DEFINE dir == Corpus[b].dir
<1>b. dir \in Dirs /\ Bugs' = Bugs /\ Dirs' = Dirs
  BY DEF Dirs, Bugs
<1>1. ASSUME NEW fix \in BOOLEAN, NEW h, h = LeftAt([bug |-> b, fix |-> fix]),
             clone' = [clone EXCEPT ![dir] = [state |-> "cloned", head |-> h]],
             touched' = touched \cup {[bug |-> b, fix |-> fix]}
      PROVE  HeadsLeft'
  <2> DEFINE e == [bug |-> b, fix |-> fix]
  <2>1. touched' \subseteq [bug : Bugs, fix : BOOLEAN]
    BY <1>1 DEF HeadsLeft
  <2>2. ASSUME NEW r \in Dirs, {c \in touched' : Corpus[c.bug].dir = r} # {}
        PROVE  /\ clone'[r].state = "cloned"
               /\ \E c \in {c \in touched' : Corpus[c.bug].dir = r} : clone'[r].head = LeftAt(c)
    <3>1. CASE r = dir
      <4>1. clone'[r].state = "cloned" /\ clone'[r].head = h
        BY <1>a, <1>1, <3>1
      <4>2. e \in {c \in touched' : Corpus[c.bug].dir = r} /\ LeftAt(e) = h
        BY <1>1, <3>1
      <4> QED
        BY <4>1, <4>2
    <3>2. CASE r # dir
      <4>1. clone'[r] = clone[r]
        BY <1>a, <1>1, <3>2
      <4>2. {c \in touched' : Corpus[c.bug].dir = r} = {c \in touched : Corpus[c.bug].dir = r}
        BY <1>1, <3>2
      <4> QED
        BY <2>2, <4>1, <4>2 DEF HeadsLeft
    <3> QED
      BY <3>1, <3>2
  <2> QED
    BY <1>b, <2>1, <2>2 DEF HeadsLeft
<1>2. CASE Setup(b)
  BY <1>1, <1>2 DEF Setup, Prepare
<1>3. CASE ApplyFix(b)
  BY <1>1, <1>3 DEF ApplyFix, Prepare
<1>4. CASE CheckoutFails(b)
  <2> DEFINE was == clone[dir]
             now == [state |-> IF was.state = "none" THEN "cloned" ELSE was.state, head |-> was.head]
  <2>1. clone' = [clone EXCEPT ![dir] = now] /\ UNCHANGED touched
    BY <1>4 DEF CheckoutFails, Prepare
  <2>2. now.head = was.head /\ (was.state = "cloned" => now.state = "cloned")
    OBVIOUS
  <2> HIDE DEF now
  <2>3. ASSUME NEW r \in Dirs
        PROVE  clone'[r].head = clone[r].head /\ (clone[r].state = "cloned" => clone'[r].state = "cloned")
    <3>1. clone'[r] = IF r = dir THEN now ELSE clone[r]
      BY <1>a, <2>1
    <3> QED
      BY <2>2, <3>1
  <2> QED
    BY <1>b, <2>1, <2>3 DEF HeadsLeft
<1>5. CASE CloneDies(b)
  <2>1. /\ clone[dir].state = "none" /\ UNCHANGED touched
        /\ clone' = [clone EXCEPT ![dir] = [state |-> "partial", head |-> DefaultBranch]]
    BY <1>5 DEF CloneDies, Prepare
  <2>2. {c \in touched : Corpus[c.bug].dir = dir} = {}
    BY <1>b, <2>1 DEF HeadsLeft
  <2>3. \A r \in Dirs \ {dir} : clone'[r] = clone[r]
    BY <1>a, <2>1
  <2> QED
    BY <1>b, <2>1, <2>2, <2>3 DEF HeadsLeft
<1> QED
  BY <1>2, <1>3, <1>4, <1>5

\* The results of a bug that is over: none claims a verdict, or the lane's commit is the
\* clone's.
LEMMA NextAtHead ==
    ASSUME AType, VerdictsAtHead, bug \in Bugs, NEW r \in Seq(LaneResult), NextBug(r),
           UNCHANGED clone,
           \A j \in DOMAIN r : r[j].verdict \in {"pass", "fail"} =>
               r[j].at = clone[Corpus[r[j].bug].dir].head
    PROVE  VerdictsAtHead'
<1>1. bug_results' = [bug_results EXCEPT ![bug] = bug_results[bug] \o r]
      /\ bug_results[bug] \in Seq(LaneResult) /\ pc' = "run_bug"
  BY DEF NextBug, AType
<1>2. Bugs' = Bugs
  BY DEF Bugs
<1>3. ASSUME NEW b \in Bugs, NEW i \in DOMAIN bug_results'[b],
             bug_results'[b][i].verdict \in {"pass", "fail"}
      PROVE  bug_results'[b][i].at = clone[Corpus[bug_results'[b][i].bug].dir].head
  <2>1. CASE b = bug
    <3> DEFINE both == bug_results[bug] \o r
    <3>1. bug_results'[b] = both
      BY <1>1, <2>1 DEF AType
    <3>2. \/ \E j \in DOMAIN bug_results[bug] : both[i] = bug_results[bug][j]
          \/ \E j \in DOMAIN r : both[i] = r[j]
      BY <1>1, <1>3, <3>1, Concatenation
    <3> HIDE DEF both
    <3> QED
      BY <1>3, <3>1, <3>2 DEF VerdictsAtHead
  <2>2. CASE b # bug
    <3>1. bug_results'[b] = bug_results[b]
      BY <1>1, <2>2 DEF AType
    <3> QED
      BY <1>3, <3>1 DEF VerdictsAtHead
  <2> QED
    BY <2>1, <2>2
<1> QED
  BY <1>1, <1>2, <1>3 DEF VerdictsAtHead, LanePoints

LEMMA AtHeadStep ==
    ASSUME AType, Settled, VerdictsAtHead, [AblationNext]_avars
    PROVE  VerdictsAtHead'
<1>a. flat \in FlatLocals /\ Bugs' = Bugs
  BY DEF AType, Bugs
<1>b. UNCHANGED <<bug, clone>> => head' = head
  BY DEF head
<1>c. ASSUME UNCHANGED <<bug_results, clone>>, pc' \notin LanePoints,
             pc' = "return" => flat'.failing \/ flat'.at = head'
      PROVE  VerdictsAtHead'
  BY <1>a, <1>c DEF VerdictsAtHead
<1>d. ASSUME UNCHANGED <<bug, bug_results, clone>>, pc \in LanePoints, flat'.at = flat.at
      PROVE  VerdictsAtHead'
  BY <1>a, <1>b, <1>d DEF VerdictsAtHead
<1>1. CASE UnknownRepo \/ SinkRaises
  <2> DEFINE r == <<ErrorResult("falsification"), ErrorResult("flat")>>
  <2>1. bug \in Bugs /\ NextBug(r) /\ UNCHANGED clone
    BY <1>1 DEF UnknownRepo, SinkRaises, At, Outside, seedvars
  <2>2. r \in Seq(LaneResult) /\ \A j \in DOMAIN r : r[j].verdict = "error"
    BY <2>1, ErrorTyped
  <2> HIDE DEF r
  <2> QED
    BY <2>1, <2>2, NextAtHead
<1>2. CASE FactoryRaises
  <2> DEFINE r == <<ErrorResult("flat")>>
  <2>1. bug \in Bugs /\ NextBug(r) /\ UNCHANGED clone
    BY <1>2 DEF FactoryRaises, At, Outside, seedvars
  <2>2. r \in Seq(LaneResult) /\ \A j \in DOMAIN r : r[j].verdict = "error"
    BY <2>1, ErrorTyped
  <2> HIDE DEF r
  <2> QED
    BY <2>1, <2>2, NextAtHead
<1>3. CASE FlatReturn
  <2> DEFINE e == Result("flat", TRUE, IF flat.failing THEN "error" ELSE flat.verdict,
                         flat.test_passed, flat.audit_ids, flat.at)
             r == <<e>>
  <2>1. bug \in Bugs /\ pc = "return" /\ NextBug(r) /\ UNCHANGED clone
    BY <1>3 DEF FlatReturn, At, Outside, seedvars
  <2>2. e \in LaneResult
    BY <1>a, <2>1 DEF LaneResult, Result, FlatLocals, Verdicts
  <2>3. e.verdict \in {"pass", "fail"} => e.at = clone[Corpus[e.bug].dir].head
    BY <2>1 DEF VerdictsAtHead, Result, head
  <2> HIDE DEF e
  <2>4. r \in Seq(LaneResult) /\ \A j \in DOMAIN r : r[j] = e
    BY <2>2
  <2> HIDE DEF r
  <2> QED
    BY <2>1, <2>3, <2>4, NextAtHead
<1>4. CASE RunFalsification
  <2> DEFINE e == ErrorResult("falsification")
  <2>1. /\ bug \in Bugs /\ pc' = "coder" /\ UNCHANGED clone
        /\ bug_results' = [bug_results EXCEPT ![bug] = Append(@, e)]
    BY <1>4 DEF RunFalsification, At, Outside, seedvars
  <2>2. e \in LaneResult /\ e.verdict = "error"
    BY <2>1, ErrorTyped
  <2> HIDE DEF e
  <2>3. ASSUME NEW b \in Bugs, NEW i \in DOMAIN bug_results'[b],
               bug_results'[b][i].verdict \in {"pass", "fail"}
        PROVE  i \in DOMAIN bug_results[b] /\ bug_results'[b][i] = bug_results[b][i]
    <3>1. CASE b = bug
      <4>1. bug_results[b] \in Seq(LaneResult) /\ bug_results'[b] = Append(bug_results[b], e)
        BY <2>1, <3>1 DEF AType
      <4> QED
        BY <2>2, <2>3, <4>1, Appended
    <3>2. CASE b # bug
      BY <2>1, <2>3, <3>2 DEF AType
    <3> QED
      BY <3>1, <3>2
  <2> QED
    BY <1>a, <2>1, <2>3 DEF VerdictsAtHead, LanePoints
<1>5. CASE OpenSink \/ FlatCoder \/ CoderRaises \/ RmtreeRaises \/ WorktreeTimesOut \/ RemoveTimesOut
           \/ Collect
  <2>1. /\ UNCHANGED <<bug_results, clone>> /\ pc' \in {"falsification", "worktree", "return", "done"}
        /\ pc' = "return" => flat'.failing
    BY <1>5, <1>a DEF OpenSink, FlatCoder, CoderRaises, RmtreeRaises, FlatRaises, WorktreeTimesOut,
       RemoveTimesOut, Collect, Outside, seedvars, FlatLocals
  <2> QED
    BY <1>c, <2>1 DEF LanePoints
<1>6. CASE FlatWorktree
  <2>1. /\ UNCHANGED <<bug, bug_results, clone>>
        /\ \/ pc' = "apply" /\ flat'.at = head
           \/ pc' = "return" /\ flat'.failing
    BY <1>6, <1>a DEF FlatWorktree, Outside, seedvars, FlatLocals
  <2> QED
    BY <1>a, <1>b, <2>1 DEF VerdictsAtHead, LanePoints
<1>7. CASE (\E status \in {"applied", "rejected"} : FlatApply(status)) \/ FlatTests \/ TestsReturn
           \/ TestsTimeOut \/ FlatRecord \/ WorkRaises \/ FlatRemove \/ RemoveFails
  <2>1. UNCHANGED <<bug, bug_results, clone>> /\ pc \in LanePoints /\ flat'.at = flat.at
    <3>1. CASE (\E status \in {"applied", "rejected"} : FlatApply(status)) \/ FlatTests \/ FlatRemove
               \/ RemoveFails
      BY <1>a, <3>1 DEF FlatApply, FlatTests, FlatRemove, RemoveFails, At, Outside, seedvars, FlatLocals, LanePoints
    <3>2. CASE TestsReturn \/ TestsTimeOut
      BY <1>a, <3>2 DEF TestsReturn, TestsTimeOut, Tested, At, seedvars, FlatLocals, LanePoints
    <3>3. CASE FlatRecord \/ WorkRaises
      BY <1>a, <3>3 DEF FlatRecord, Write, WorkRaises, FlatRaises, At, Outside, seedvars, FlatLocals,
                        LanePoints
    <3> QED
      BY <1>7, <3>1, <3>2, <3>3
  <2> QED
    BY <1>d, <2>1
<1>8. CASE Begin
  <2>1. UNCHANGED <<bug_results, clone>> /\ pc' = "run_bug"
    BY <1>8 DEF Begin, Outside, seedvars
  <2> QED
    BY <1>c, <2>1 DEF LanePoints
<1>9. CASE RunAgain
  BY <1>9 DEF RunAgain, VerdictsAtHead, LanePoints
<1>10. CASE PrepareClones
  <2>1. pc = "preparing" /\ pc' = "preparing" /\ UNCHANGED bug_results
    BY <1>10 DEF PrepareClones, lanevars
  <2>2. ASSUME NEW b \in Bugs PROVE bug_results[b] = <<>>
    <3>1. bug = 1 /\ (b = 1 \/ b > 1)
      BY <2>1 DEF Settled, Bugs
    <3> QED
      BY <2>1, <3>1 DEF Settled, Working
  <2> QED
    BY <1>a, <2>1, <2>2 DEF VerdictsAtHead, LanePoints
<1>11. CASE TestsRun \/ OrphanWrites \/ UNCHANGED avars
  <2>1. UNCHANGED <<pc, bug, flat, bug_results, clone>>
    BY <1>11 DEF TestsRun, OrphanWrites, lanevars, avars, Outside, seedvars
  <2> QED
    BY <1>a, <1>b, <2>1 DEF VerdictsAtHead
<1> QED
  BY <1>1, <1>2, <1>3, <1>4, <1>5, <1>6, <1>7, <1>8, <1>9, <1>10, <1>11
     DEF AblationNext, RunStep, FlatStep, World, AblationDone

\* The clone is prepared before the corpus is run, and then left alone.
LEMMA HeadsLeftStep ==
    ASSUME AType, HeadsLeft, [AblationNext]_avars
    PROVE  HeadsLeft'
<1>1. CASE PrepareClones
  BY <1>1, HeadsStep DEF PrepareClones
<1>2. ASSUME UNCHANGED <<clone, touched>> PROVE HeadsLeft'
  BY <1>2 DEF HeadsLeft, LeftAt, Bugs, Dirs
<1>3. CASE UnknownRepo \/ OpenSink \/ SinkRaises \/ RunFalsification \/ Collect \/ FlatCoder
           \/ FactoryRaises \/ CoderRaises \/ FlatWorktree \/ WorktreeTimesOut \/ RmtreeRaises
           \/ (\E status \in {"applied", "rejected"} : FlatApply(status)) \/ FlatTests
           \/ TestsReturn \/ TestsTimeOut
           \/ FlatRecord \/ WorkRaises \/ FlatRemove \/ RemoveFails \/ RemoveTimesOut \/ FlatReturn
           \/ Begin \/ TestsRun \/ OrphanWrites \/ RunAgain \/ UNCHANGED avars
  BY <1>2, <1>3 DEF UnknownRepo, OpenSink, SinkRaises, RunFalsification, Collect, FlatCoder,
     FactoryRaises, CoderRaises, FlatWorktree, WorktreeTimesOut, RmtreeRaises, FlatRaises, FlatApply,
     FlatTests, TestsReturn, TestsTimeOut, Tested, FlatRecord, WorkRaises, FlatRemove,
     RemoveFails, RemoveTimesOut, FlatReturn, Begin, TestsRun, OrphanWrites, RunAgain, Outside, seedvars, avars
<1> QED
  BY <1>1, <1>3 DEF AblationNext, RunStep, FlatStep, World, AblationDone

\* Where one bug alone has been checked out in a clone, its verdicts are about its commit.
LEMMA SoleAtCommit ==
    ASSUME AType, HeadsLeft, VerdictsAtHead
    PROVE  SoleBugTested
<1> SUFFICES ASSUME NEW b \in Bugs, NEW i \in DOMAIN bug_results[b],
                    bug_results[b][i].verdict \in {"pass", "fail"},
                    TouchedFor(bug_results[b][i].bug) = {[bug |-> bug_results[b][i].bug, fix |-> FALSE]}
             PROVE  bug_results[b][i].at = Corpus[bug_results[b][i].bug].commit
  BY DEF SoleBugTested, AllResults
<1> DEFINE r    == bug_results[b][i]
           dir  == Corpus[r.bug].dir
           e    == [bug |-> r.bug, fix |-> FALSE]
<1>1. r.bug \in Bugs
  <2>1. r \in LaneResult
    BY Element DEF AType
  <2> QED
    BY <2>1 DEF LaneResult
<1>2. dir \in Dirs
  BY <1>1 DEF Dirs
<1>3. {c \in touched : Corpus[c.bug].dir = dir} = {e}
  BY DEF TouchedFor
<1>4. clone[dir].head = LeftAt(e)
  BY <1>2, <1>3 DEF HeadsLeft
<1>5. LeftAt(e) = Corpus[r.bug].commit
  BY DEF LeftAt
<1>6. r.at = clone[dir].head
  BY DEF VerdictsAtHead
<1> QED
  BY <1>4, <1>5, <1>6

-----------------------------------------------------------------------------
(* Counting. *)

\* Sets that a function pairs off have as many elements.
LEMMA SameSize ==
    ASSUME NEW S, NEW T, IsFiniteSet(S), NEW f \in [S -> T],
           \A x, y \in S : f[x] = f[y] => x = y,
           \A z \in T : \E x \in S : f[x] = z
    PROVE  IsFiniteSet(T) /\ Cardinality(T) = Cardinality(S)
<1>1. f \in Bijection(S, T)
  BY DEF Bijection, Injection, Surjection, IsInjective
<1>2. ExistsBijection(S, T)
  BY <1>1 DEF ExistsBijection
<1> QED
  BY <1>2, FS_Bijection

\* The values of a function on a finite set are finitely many.
LEMMA FiniteValues ==
    ASSUME NEW S, IsFiniteSet(S), NEW f, DOMAIN f = S
    PROVE  IsFiniteSet({f[x] : x \in S})
<1> DEFINE T == {f[x] : x \in S}
           g == [x \in S |-> f[x]]
<1>1. g \in Surjection(S, T)
  BY DEF Surjection
<1> QED
  BY <1>1, FS_Surjection DEF ExistsSurjection

\* The parts of a finite set, summed up, are as many as the set's elements.
LEMMA SumOfParts ==
    ASSUME NEW S, IsFiniteSet(S), NEW D, IsFiniteSet(D), NEW part \in [S -> D],
           NEW tally, DOMAIN tally = D,
           \A k \in D : tally[k].passed = Cardinality({i \in S : part[i] = k})
    PROVE  TotalPassed(tally) = Cardinality(S)
<1> DEFINE within(ks) == {i \in S : part[i] \in ks}
           pick(ks) == CHOOSE k \in ks : TRUE
           next(h) == [ks \in SUBSET D |-> IF ks = {} THEN 0
                                          ELSE tally[pick(ks)].passed + h[ks \ {pick(ks)}]]
           sum == CHOOSE h : h = next(h)
           f == [ks \in SUBSET D |-> Cardinality(within(ks))]
<1>1. TotalPassed(tally) = sum[D]
  BY DEF TotalPassed, MapThenSumSet, MapThenFoldSet
<1>2. within({}) = {} /\ within(D) = S /\ Cardinality({}) = 0
  BY FS_EmptySet
<1>3. ASSUME NEW ks \in SUBSET D, ks # {}
      PROVE  /\ pick(ks) \in ks
             /\ Cardinality(within(ks)) =
                  tally[pick(ks)].passed + Cardinality(within(ks \ {pick(ks)}))
  <2>1. PICK k \in ks : k = pick(ks)
    BY <1>3
  <2> DEFINE one == {i \in S : part[i] = k}
             others == within(ks \ {k})
  <2>2. within(ks) = one \cup others /\ one \cap others = {}
    BY <2>1
  <2>3. IsFiniteSet(one) /\ IsFiniteSet(others)
    BY FS_Subset
  <2>4. Cardinality(one) \in Nat /\ Cardinality(others) \in Nat
    BY <2>3, FS_CardinalityType
  <2>5. tally[k].passed = Cardinality(one)
    BY <2>1
  <2> HIDE DEF one, others, within
  <2>6. Cardinality(within(ks)) = Cardinality(one) + Cardinality(others) - Cardinality({})
    BY <2>2, <2>3, FS_Union
  <2>7. Cardinality(within(ks)) = tally[k].passed + Cardinality(others)
    BY <1>2, <2>4, <2>5, <2>6
  <2> HIDE DEF pick
  <2> QED
    BY <2>1, <2>7 DEF others
<1> HIDE DEF within, pick
<1>4. f = next(f)
  <2>1. ASSUME NEW ks \in SUBSET D
        PROVE  f[ks] = IF ks = {} THEN 0 ELSE tally[pick(ks)].passed + f[ks \ {pick(ks)}]
    BY <1>2, <1>3
  <2> QED
    BY <2>1
<1>5. sum = next(sum)
  <2> HIDE DEF next
  <2> QED
    BY <1>4, Zenon
<1> HIDE DEF sum
<1>6. \A ks \in SUBSET D :
        sum[ks] = IF ks = {} THEN 0 ELSE tally[pick(ks)].passed + sum[ks \ {pick(ks)}]
  <2>1. \A ks \in SUBSET D :
          next(sum)[ks] = IF ks = {} THEN 0 ELSE tally[pick(ks)].passed + sum[ks \ {pick(ks)}]
    OBVIOUS
  <2>2. \A ks : sum[ks] = next(sum)[ks]
    <3> HIDE DEF next
    <3> QED
      BY <1>5, Zenon
  <2> QED
    BY <2>1, <2>2
<1> HIDE DEF next, f
<1> DEFINE wrong == {ks \in SUBSET D : sum[ks] # Cardinality(within(ks))}
           sizes == {Cardinality(ks) : ks \in wrong}
<1>7. \A ks \in SUBSET D : IsFiniteSet(ks) /\ Cardinality(ks) \in Nat
  BY FS_Subset, FS_CardinalityType
<1>8. wrong = {}
  <2> SUFFICES ASSUME wrong # {} PROVE FALSE
    OBVIOUS
  <2>1. PICK n \in sizes : \A m \in sizes : n <= m
    <3>1. sizes \subseteq Nat /\ sizes # {}
      BY <1>7
    <3> HIDE DEF sizes
    <3> QED
      BY <3>1, Least
  <2>2. PICK ks \in wrong : n = Cardinality(ks)
    BY <2>1
  <2>3. ks \in SUBSET D /\ sum[ks] # Cardinality(within(ks))
    BY <2>2
  <2>4. ks # {}
    BY <1>2, <1>6, <2>3
  <2> DEFINE rest == ks \ {pick(ks)}
  <2>5. pick(ks) \in ks /\ rest \in SUBSET D
    BY <1>3, <2>3, <2>4
  <2>6. Cardinality(rest) = n - 1 /\ n \in Nat
    BY <1>7, <2>2, <2>3, <2>5, FS_RemoveElement
  <2>7. rest \notin wrong
    <3>1. rest \in wrong => Cardinality(rest) \in sizes
      OBVIOUS
    <3> HIDE DEF wrong, sizes, rest
    <3> QED
      BY <2>1, <2>6, <3>1
  <2>8. sum[rest] = Cardinality(within(rest))
    BY <2>5, <2>7
  <2> QED
    BY <1>3, <1>6, <2>3, <2>4, <2>8
<1> QED
  BY <1>1, <1>2, <1>8

\* The places of an arm's results: the odd ones, or the even ones.
Places(o) == {2 * b - o : b \in Bugs}

\* An arm has a result of each bug, and of some bugs as many as those are.
LEMMA ArmSize ==
    ASSUME NEW o \in {0, 1}, NEW B \in SUBSET Bugs
    PROVE  /\ IsFiniteSet({2 * b - o : b \in B}) /\ IsFiniteSet(B) /\ IsFiniteSet(Bugs)
           /\ Cardinality({2 * b - o : b \in B}) = Cardinality(B)
           /\ Cardinality(Bugs) = Len(Corpus)
<1>1. Len(Corpus) \in Nat
  BY SeedAssumption
<1>2. IsFiniteSet(Bugs) /\ Cardinality(Bugs) = Len(Corpus)
  BY <1>1, FS_Interval DEF Bugs
<1>3. IsFiniteSet(B)
  BY <1>2, FS_Subset
<1> DEFINE T == {2 * b - o : b \in B}
           f == [b \in B |-> 2 * b - o]
<1>4. f \in [B -> T] /\ (\A x, y \in B : f[x] = f[y] => x = y) /\ \A z \in T : \E x \in B : f[x] = z
  <2>1. \A b \in B : b \in Nat
    BY DEF Bugs
  <2> QED
    BY <2>1
<1> HIDE DEF f, T
<1>5. IsFiniteSet(T) /\ Cardinality(T) = Cardinality(B)
  BY <1>3, <1>4, SameSize
<1> QED
  BY <1>2, <1>3, <1>5 DEF T

\* An arm's tallies are those of the corpus, and add up to its passes.
LEMMA ArmBalanced ==
    ASSUME NEW o \in {0, 1}, NEW L, \A b \in Bugs : L[2 * b - o].bug = b,
           NEW key, DOMAIN key = Bugs
    PROVE  LET tally == Tally(L, Places(o), key)
           IN  /\ [k \in DOMAIN tally |-> tally[k].total] = Distribution(Bugs, key)
               /\ TotalPassed(tally) = passed(L, Places(o))
<1> DEFINE mine == Places(o)
           D == {key[b] : b \in Bugs}
           same(k) == {i \in mine : key[L[i].bug] = k}
           tally == Tally(L, mine, key)
<1>1. {key[L[i].bug] : i \in mine} = D
  BY DEF Places
<1>2. tally = [k \in D |-> [total |-> Cardinality(same(k)), passed |-> passed(L, same(k))]]
  BY <1>1 DEF Tally
<1> HIDE DEF tally
<1>3. ASSUME NEW k \in D
      PROVE  Cardinality(same(k)) = Cardinality({b \in Bugs : key[b] = k})
  <2> DEFINE B == {b \in Bugs : key[b] = k}
  <2>1. same(k) = {2 * b - o : b \in B}
    BY DEF Places
  <2>2. B \in SUBSET Bugs
    OBVIOUS
  <2> HIDE DEF same, B
  <2>3. Cardinality(same(k)) = Cardinality(B)
    BY <2>1, <2>2, ArmSize
  <2> QED
    BY <2>3 DEF B
<1>4. [k \in DOMAIN tally |-> tally[k].total] = Distribution(Bugs, key)
  <2>1. DOMAIN tally = D /\ \A k \in D : tally[k].total = Cardinality(same(k))
    <3> HIDE DEF same, D
    <3> QED
      BY <1>2
  <2>2. \A k \in D : tally[k].total = Cardinality({b \in Bugs : key[b] = k})
    <3> HIDE DEF same
    <3> QED
      BY <1>3, <2>1
  <2> QED
    BY <2>1, <2>2 DEF Distribution
<1> DEFINE S == {i \in mine : L[i].test_passed = "passed"}
           part == [i \in S |-> key[L[i].bug]]
<1>5. IsFiniteSet(S)
  <2>1. IsFiniteSet(mine)
    BY ArmSize DEF Places
  <2> QED
    BY <2>1, FS_Subset
<1>6. IsFiniteSet(D)
  <2>1. IsFiniteSet(Bugs)
    BY ArmSize
  <2> QED
    BY <2>1, FiniteValues
<1>7. part \in [S -> D]
  BY <1>1
<1>8. ASSUME NEW k \in D PROVE tally[k].passed = Cardinality({i \in S : part[i] = k})
  <2>1. tally[k].passed = passed(L, same(k))
    <3> HIDE DEF same, D
    <3> QED
      BY <1>2
  <2>2. {i \in same(k) : L[i].test_passed = "passed"} = {i \in S : part[i] = k}
    OBVIOUS
  <2>3. passed(L, same(k)) = Cardinality({i \in same(k) : L[i].test_passed = "passed"})
    BY DEF passed
  <2> QED
    BY <2>1, <2>2, <2>3
<1>9. DOMAIN tally = D
  <2> HIDE DEF same, D
  <2> QED
    BY <1>2
<1>10. passed(L, mine) = Cardinality(S)
  BY DEF passed
<1> HIDE DEF S, D, part
<1>11. TotalPassed(tally) = Cardinality(S)
  BY <1>5, <1>6, <1>7, <1>8, <1>9, SumOfParts
<1> QED
  BY <1>4, <1>10, <1>11 DEF tally

\* The results of an arm, when each bug has its two.
LEMMA ArmPlaces ==
    ASSUME NEW L \in Seq(LaneResult), Len(L) = 2 * Len(Corpus), NEW o \in {0, 1}, NEW mode,
           \A b \in Bugs : L[2 * b - o].mode = mode /\ L[2 * b - (1 - o)].mode # mode
    PROVE  mode_results(L, mode) = Places(o)
<1>1. Len(Corpus) \in Nat
  BY SeedAssumption
<1>2. ASSUME NEW i \in 1 .. 2 * Len(Corpus)
      PROVE  \E b \in Bugs : i = 2 * b - o \/ i = 2 * b - (1 - o)
  <2> DEFINE b == (i + 1) \div 2
  <2>1. b \in Bugs /\ (i = 2 * b \/ i = 2 * b - 1)
    BY <1>1 DEF Bugs
  <2> HIDE DEF b
  <2>2. b \in Int
    BY <2>1 DEF Bugs
  <2> QED
    BY <2>1, <2>2
<1>3. \A b \in Bugs : 2 * b - o \in 1 .. 2 * Len(Corpus)
  BY <1>1 DEF Bugs
<1>4. DOMAIN L = 1 .. 2 * Len(Corpus)
  OBVIOUS
<1>5. mode_results(L, mode) = {i \in 1 .. 2 * Len(Corpus) : L[i].mode = mode}
  BY <1>4 DEF mode_results, Where
<1> QED
  BY <1>2, <1>3, <1>5 DEF Places

\* What run_corpus returns: the results of all bugs, each of which has its two.
Gathering ==
    pc = "done" => /\ lane_results = Concatenated
                   /\ \A b \in Bugs : Pair(bug_results[b], b)

LEMMA GatheringStep ==
    ASSUME AType, Settled, Gathering, [AblationNext]_avars
    PROVE  Gathering'
<1>b. Bugs' = Bugs
  BY DEF Bugs
<1>1. CASE Collect
  <2>1. pc = "run_bug" /\ bug > Len(Corpus) /\ lane_results' = Concatenated /\ bug_results' = bug_results
    BY <1>1 DEF Collect
  <2>2. \A b \in Bugs : b < bug
    BY <2>1, SeedAssumption DEF Bugs, AType
  <2>3. \A b \in Bugs : Pair(bug_results[b], b)
    BY <2>2 DEF Settled
  <2>4. Concatenated' = Concatenated
    BY <2>1 DEF Concatenated
  <2>5. \A b \in Bugs : Pair(bug_results'[b], b)
    BY <2>1, <2>3
  <2> QED
    BY <1>b, <2>1, <2>4, <2>5 DEF Gathering, Pair
<1>2. CASE pc' # "done"
  BY <1>2 DEF Gathering
<1>3. CASE TestsRun \/ PrepareClones \/ OrphanWrites \/ UNCHANGED avars
  <2>1. UNCHANGED <<pc, bug_results, lane_results>>
    BY <1>3 DEF TestsRun, PrepareClones, OrphanWrites, lanevars, avars
  <2>2. Concatenated' = Concatenated
    BY <2>1 DEF Concatenated
  <2> QED
    BY <1>b, <2>1, <2>2 DEF Gathering, Pair
<1>4. CASE \/ UnknownRepo \/ OpenSink \/ SinkRaises \/ RunFalsification \/ FlatStep
           \/ Begin \/ RunAgain
  <2>1. pc' # "done"
    BY <1>4 DEF UnknownRepo, OpenSink, SinkRaises, RunFalsification, FlatStep, FlatCoder,
       FactoryRaises, CoderRaises, FlatWorktree, WorktreeTimesOut, RmtreeRaises, FlatRaises,
       FlatApply, FlatTests, TestsReturn, TestsTimeOut, Tested, FlatRecord, WorkRaises, FlatRemove,
       RemoveFails, RemoveTimesOut, FlatReturn, NextBug, Begin, RunAgain
  <2> QED
    BY <1>2, <2>1
<1> QED
  BY <1>1, <1>3, <1>4 DEF AblationNext, RunStep, World, AblationDone

-----------------------------------------------------------------------------

AblationInv == /\ AType /\ Lane /\ Evidence /\ Tidy /\ Fresh
               /\ Settled /\ Gathering /\ HeadsLeft /\ VerdictsAtHead

LEMMA AblationInvInit == AblationInit => AblationInv
<1> SUFFICES ASSUME AblationInit PROVE AblationInv
  OBVIOUS
<1>1. AType
  <2>1. /\ [b \in Bugs |-> <<>>] \in [Bugs -> Seq(LaneResult)]
        /\ [t \in Threads |-> <<>>] \in [Threads -> Seq(Row)]
        /\ [t \in Threads |-> NoCheckout] \in [Threads -> Checkout]
    BY DEF NoCheckout, Checkout
  <2>2. [r \in Dirs |-> [state |-> "none", head |-> DefaultBranch]]
          \in [Dirs -> [state : {"none", "cloned", "partial"}, head : Int]]
    BY DEF DefaultBranch
  <2> QED
    BY <2>1, <2>2, NewTyped DEF AblationInit, SeedInit, AType, BetweenLanes, Working
<1>2. Lane /\ Evidence
  BY DEF AblationInit, Lane, Evidence
<1>3. Tidy
  BY DEF AblationInit, Tidy, Clean, InLane, NoCheckout
<1>4. Fresh
  BY DEF AblationInit, Fresh
<1>5. Settled
  <2>1. bug = 1 /\ pc = "preparing" /\ bug_results = [b \in Bugs |-> <<>>]
    BY DEF AblationInit
  <2>2. \A b \in Bugs : ~(b < 1)
    BY DEF Bugs
  <2> QED
    BY <2>1, <2>2 DEF Settled, Working
<1>6. HeadsLeft
  BY DEF AblationInit, SeedInit, HeadsLeft
<1>7. VerdictsAtHead
  BY DEF AblationInit, VerdictsAtHead, LanePoints
<1>8. Gathering
  BY DEF AblationInit, Gathering
<1> QED
  BY <1>1, <1>2, <1>3, <1>4, <1>5, <1>6, <1>7, <1>8 DEF AblationInv

LEMMA AblationInvariance == AblationSpec => []AblationInv
<1>1. AblationInv /\ [AblationNext]_avars => AblationInv'
  BY TypeStep, LaneStep, EvidenceStep, TidyStep, FreshStep, SettledStep, GatheringStep,
     HeadsLeftStep, AtHeadStep
     DEF AblationInv
<1> QED
  BY <1>1, AblationInvInit, PTL DEF AblationSpec

\* Whatever raises in whichever call, of whichever bug and run, a pass or fail of the
\* flat arm has its two rows in the log.
THEOREM VerdictsBacked == AblationSpec => []VerdictHasEvidence
<1>1. AblationInv => VerdictHasEvidence
  <2> SUFFICES ASSUME AblationInv, NEW b \in Bugs, NEW i \in DOMAIN bug_results[b],
                      bug_results[b][i].verdict \in {"pass", "fail"}
               PROVE  LET r   == bug_results[b][i]
                          log == rows[Thread(r.bug)]
                          ids == r.audit_event_ids
                      IN  /\ Len(ids) = 2 /\ ids[2] \in DOMAIN log
                          /\ log[ids[1]].node = "coder" /\ log[ids[2]].node = "runner"
                          /\ log[ids[2]].parent = ids[1]
                          /\ log[ids[2]].test_passed = r.test_passed
                          /\ r.verdict = "pass" <=>
                               (r.test_passed = "passed" /\ log[ids[2]].apply = "applied")
    BY DEF VerdictHasEvidence, AllResults
  <2> QED
    BY DEF AblationInv, Evidence, Backed
<1> QED
  BY <1>1, AblationInvariance, PTL

\* The finally clause leaves no worktree behind, whichever call raised, unless a git
\* worktree call itself hung or failed.
THEOREM WorktreesTidied == AblationSpec => []WorktreesRemoved
<1>1. AblationInv => WorktreesRemoved
  BY DEF AblationInv, Tidy, Clean, WorktreesRemoved
<1> QED
  BY <1>1, AblationInvariance, PTL

\* D5, for every corpus, also one whose bugs get the same names, and whatever git fails to
\* remove: the tests of a lane run on its own patch alone.
THEOREM PatchesTestedAlone == AblationSpec => []TestedAlone
<1>1. AblationInv => TestedAlone
  BY DEF AblationInv, Fresh, TestedAlone
<1> QED
  BY <1>1, AblationInvariance, PTL

\* Whatever raises in whichever lane, a run_corpus that has returned holds two results of
\* each bug, one of each arm, in the order of the corpus.
THEOREM ResultsInPairs == AblationSpec => []ResultsPaired
<1>1. AblationInv => ResultsPaired
  BY DEF AblationInv, Settled, ResultsPaired
<1> QED
  BY <1>1, AblationInvariance, PTL

\* However the calls that prepare the clones fail, a bug whose repository nobody prepared
\* for another bug, or for a fix, gets its verdicts on its own commit.
THEOREM SoleBugOnItsCommit == AblationSpec => []SoleBugTested
<1>1. AblationInv => SoleBugTested
  BY SoleAtCommit DEF AblationInv
<1> QED
  BY <1>1, AblationInvariance, PTL

\* ablation/report.py compute_mode_stats: whatever was raised in whichever lane, both arms'
\* samples are the whole corpus, the tallies by type and by repository are the corpus's and
\* sum up to the passes, and no pass verdict is left out of them.
THEOREM ReportInBalance == AblationSpec => []ReportBalanced
<1>1. ASSUME AblationInv PROVE ReportBalanced
  <2> SUFFICES
        ASSUME pc = "done", NEW mode \in {"falsification", "flat"}
        PROVE  LET stats == compute_mode_stats(lane_results, mode, type_of, repo_of)
                   types == stats.by_bug_type
                   repos == stats.by_repo
               IN  /\ stats.n = Len(Corpus)
                   /\ [k \in DOMAIN types |-> types[k].total] = Distribution(Bugs, type_of)
                   /\ [k \in DOMAIN repos |-> repos[k].total] = Distribution(Bugs, repo_of)
                   /\ stats.n_pass >= Cardinality({i \in mode_results(lane_results, mode) :
                                                     lane_results[i].verdict = "pass"})
                   /\ TotalPassed(types) = stats.n_pass /\ TotalPassed(repos) = stats.n_pass
                   /\ compute_effect_sizes(lane_results) # {} => stats.averaged # {}
    BY DEF ReportBalanced
  <2> DEFINE L == lane_results
             stats == compute_mode_stats(L, mode, type_of, repo_of)
             mine == mode_results(L, mode)
  <2>1. AType /\ Evidence /\ \A b \in Bugs : Pair(bug_results[b], b)
    BY <1>1 DEF AblationInv, Gathering
  <2>2. /\ L \in Seq(LaneResult) /\ Len(L) = 2 * Len(Corpus)
        /\ \A b \in Bugs : L[2 * b - 1] = bug_results[b][1] /\ L[2 * b] = bug_results[b][2]
    BY <1>1, <2>1, Gathered DEF AblationInv, Gathering
  <2> HIDE DEF L
  <2>3. \A b \in Bugs :
          /\ L[2 * b - 1].bug = b /\ L[2 * b - 1].mode = "falsification"
          /\ L[2 * b].bug = b /\ L[2 * b].mode = "flat"
    BY <2>1, <2>2 DEF Pair
  <2>4. PICK o \in {0, 1} : mine = Places(o) /\ \A b \in Bugs : L[2 * b - o].bug = b
    <3>1. \A b \in Bugs : 2 * b - 0 = 2 * b /\ 2 * b - (1 - 0) = 2 * b - 1 /\ 2 * b - (1 - 1) = 2 * b
      BY DEF Bugs
    <3>2. CASE mode = "flat"
      <4>1. \A b \in Bugs : L[2 * b - 0].mode = mode /\ L[2 * b - (1 - 0)].mode # mode
        BY <2>3, <3>1, <3>2
      <4>2. mine = Places(0)
        BY <2>2, <4>1, ArmPlaces
      <4> QED
        BY <2>3, <3>1, <4>2
    <3>3. CASE mode = "falsification"
      <4>1. \A b \in Bugs : L[2 * b - 1].mode = mode /\ L[2 * b - (1 - 1)].mode # mode
        BY <2>3, <3>1, <3>3
      <4>2. mine = Places(1)
        BY <2>2, <4>1, ArmPlaces
      <4> QED
        BY <2>3, <4>2
    <3> QED
      BY <3>2, <3>3
  <2>5. /\ stats.n = Cardinality(mine) /\ stats.n_pass = passed(L, mine)
        /\ stats.averaged = {i \in mine : L[i].success}
        /\ stats.by_bug_type = Tally(L, mine, type_of) /\ stats.by_repo = Tally(L, mine, repo_of)
    BY DEF compute_mode_stats
  <2> HIDE DEF mine, stats
  <2>6. stats.n = Len(Corpus) /\ IsFiniteSet(mine)
    BY <2>4, <2>5, ArmSize DEF Places
  <2>7. /\ DOMAIN type_of = Bugs /\ DOMAIN repo_of = Bugs
    BY DEF type_of, repo_of
  <2>8. LET types == stats.by_bug_type
        IN  /\ [k \in DOMAIN types |-> types[k].total] = Distribution(Bugs, type_of)
            /\ TotalPassed(types) = stats.n_pass
    BY <2>4, <2>5, <2>7, ArmBalanced
  <2>9. LET repos == stats.by_repo
        IN  /\ [k \in DOMAIN repos |-> repos[k].total] = Distribution(Bugs, repo_of)
            /\ TotalPassed(repos) = stats.n_pass
    BY <2>4, <2>5, <2>7, ArmBalanced
  <2>10. stats.n_pass >= Cardinality({i \in mine : L[i].verdict = "pass"})
    <3> DEFINE P == {i \in mine : L[i].test_passed = "passed"}
               V == {i \in mine : L[i].verdict = "pass"}
    <3>1. \A b \in Bugs : \A i \in {1, 2} :
            bug_results[b][i].verdict = "pass" => bug_results[b][i].test_passed = "passed"
      <4>1. \A b \in Bugs : 1 \in DOMAIN bug_results[b] /\ 2 \in DOMAIN bug_results[b]
        <5>1. \A b \in Bugs : bug_results[b] \in Seq(LaneResult) /\ Len(bug_results[b]) = 2
          BY <2>1 DEF AType, Pair
        <5> QED
          BY <5>1
      <4> QED
        BY <2>1, <4>1 DEF Evidence, Backed
    <3>2. \A b \in Bugs : L[2 * b - o].verdict = "pass" => L[2 * b - o].test_passed = "passed"
      <4>1. ASSUME NEW b \in Bugs
            PROVE  L[2 * b - o] = bug_results[b][1] \/ L[2 * b - o] = bug_results[b][2]
        <5>1. 2 * b - 0 = 2 * b
          BY DEF Bugs
        <5> QED
          BY <2>2, <5>1
      <4> QED
        BY <3>1, <4>1
    <3>3. V \subseteq P
      BY <2>4, <3>2 DEF Places
    <3>4. IsFiniteSet(P)
      BY <2>6, FS_Subset
    <3>5. stats.n_pass = Cardinality(P)
      BY <2>5 DEF passed
    <3> HIDE DEF P, V
    <3>6. Cardinality(P) \in Nat /\ Cardinality(V) \in Nat /\ Cardinality(V) <= Cardinality(P)
      BY <3>3, <3>4, FS_Subset, FS_CardinalityType
    <3> QED
      BY <3>5, <3>6 DEF V
  <2>11. compute_effect_sizes(L) # {} => stats.averaged # {}
    <3>1. compute_effect_sizes(L) # {} => Where(L, LAMBDA r : r.mode = mode /\ r.success) # {}
      BY DEF compute_effect_sizes
    <3>2. Where(L, LAMBDA r : r.mode = mode /\ r.success) = {i \in mine : L[i].success}
      BY DEF Where, mine, mode_results
    <3> QED
      BY <2>5, <3>1, <3>2
  <2> QED
    BY <2>6, <2>8, <2>9, <2>10, <2>11 DEF stats, L, mine
<1> QED
  BY <1>1, AblationInvariance, PTL
=============================================================================
