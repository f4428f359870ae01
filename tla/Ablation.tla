------------------------------ MODULE Ablation ------------------------------
(***************************************************************************)
(* ablation/scheduler.py and ablation/control_arm.py: run_corpus over a    *)
(* corpus of seeded bugs, each bug's falsification lane and flat lane, the *)
(* audit database of the bug and the worktree of its flat lane.            *)
(*                                                                         *)
(* The lanes never suspend (the semaphore is free whenever it is asked for *)
(* and nothing else is awaited), so gather runs bug after bug.  An event   *)
(* id is the row's position in its database.                               *)
(***************************************************************************)
EXTENDS Worktree, SeedRepo, TestRun, Report

CONSTANTS
    MaxRuns,     \* bound: calls of run_corpus by one process
    MaxFaults    \* bound: calls that fail in a behaviour, save to empty or remove a worktree

ASSUME AblationAssumption == MaxRuns \in Nat \ {0} /\ MaxFaults \in Nat

VARIABLES
    runs,          \* run_corpus calls begun
    bug,           \* the bug run_bug is at
    pc,
    flat,          \* FlatLoop.run's locals; failing: an exception is on its way
    bug_results,   \* what each run_bug has returned so far
    lane_results,  \* of the run_corpus that has returned
    rows,          \* the rows of each thread
    checkout,      \* the worktree of each thread
    applied,       \* the lanes whose patch is in the directory of each thread
    faulty,        \* bugs for which a call failed in this run
    faults,        \* calls that have failed so far
    stuck          \* threads whose worktree a git call failed or hung on

trees == <<checkout, applied, stuck>>    \* what lanes leave for later ones, besides rows
lanevars == <<runs, bug, pc, flat, bug_results, lane_results, rows, trees, faulty, faults>>
avars == <<lanevars, seedvars, testvars>>

\* Where a bug's flat lane works: audit database and bases root are named for its
\* repository and eight characters of its commit, the thread and its worktree for the
\* hash of the task.  Bugs whose names agree share all three.
Thread(b) == <<Corpus[b].repo, Corpus[b].sha8, Corpus[b].task_hash>>

Threads == {Thread(b) : b \in Bugs}
thread_id == Thread(bug)
head == clone[Corpus[bug].dir].head
lane == <<runs, bug>>

\* at: the commit of the worktree, 0 while there is none.
NewFlat == [audit_ids |-> <<>>, apply |-> "none", test_passed |-> "none",
            verdict |-> "error", failing |-> FALSE, at |-> 0]

Result(mode, success, verdict, test_passed, ids, at) ==
    [bug |-> bug, mode |-> mode, success |-> success, verdict |-> verdict,
     test_passed |-> test_passed, audit_event_ids |-> ids, at |-> at]

ErrorResult(mode) == Result(mode, FALSE, "error", "none", <<>>, 0)

AblationInit ==
    /\ runs = 1 /\ bug = 1 /\ pc = "preparing"
    /\ flat = NewFlat
    /\ bug_results = [b \in Bugs |-> <<>>]
    /\ lane_results = <<>>
    /\ rows = [t \in Threads |-> <<>>]
    /\ checkout = [t \in Threads |-> NoCheckout]
    /\ applied = [t \in Threads |-> {}]
    /\ faulty = {} /\ faults = 0 /\ stuck = {}
    /\ SeedInit /\ TestInit

At(label) == pc = label /\ bug \in Bugs
Fault == /\ faults < MaxFaults
         /\ faults' = faults + 1
         /\ faulty' = faulty \cup {bug}
NoFault == UNCHANGED <<faulty, faults>>    \* or one that is not counted
Outside == UNCHANGED <<seedvars, testvars>>

\* The caller prepares clones, and passes those it has a path for.
PrepareClones == pc = "preparing" /\ SeedStep /\ UNCHANGED <<lanevars, testvars>>

Begin ==
    /\ pc = "preparing"
    /\ pc' = "run_bug"
    /\ UNCHANGED <<runs, bug, flat, bug_results, lane_results, rows, trees>>
    /\ NoFault /\ Outside

\* run_bug is over: gather goes on with the next bug.
NextBug(results) ==
    /\ bug_results' = [bug_results EXCEPT ![bug] = @ \o results]
    /\ bug' = bug + 1
    /\ pc' = "run_bug"

UnknownRepo ==
    /\ At("run_bug") /\ Corpus[bug].repo \notin source_repos
    /\ NextBug(<<ErrorResult("falsification"), ErrorResult("flat")>>)
    /\ faulty' = faulty \cup {bug}
    /\ UNCHANGED <<runs, flat, lane_results, rows, trees, faults>> /\ Outside

\* AuditSink(audit_db) opens the bug's database.
OpenSink ==
    /\ At("run_bug") /\ Corpus[bug].repo \in source_repos
    /\ pc' = "falsification"
    /\ UNCHANGED <<runs, bug, flat, bug_results, lane_results, rows, trees>> /\ NoFault /\ Outside

\* Mutant: run_corpus reports a bug whose run_bug raised once.
SinkRaisesOnce ==
    /\ At("run_bug") /\ Corpus[bug].repo \in source_repos
    /\ NextBug(<<ErrorResult("falsification")>>)
    /\ Fault
    /\ UNCHANGED <<runs, flat, lane_results, rows, trees>> /\ Outside

\* It raises out of run_bug; run_corpus finds the exception among gather's results.
SinkRaises ==
    /\ At("run_bug") /\ Corpus[bug].repo \in source_repos
    /\ NextBug(<<ErrorResult("falsification"), ErrorResult("flat")>>)
    /\ Fault
    /\ UNCHANGED <<runs, flat, lane_results, rows, trees>> /\ Outside

\* build_session_graph is given the WorktreeManager as worktree_root, and
\* Path(worktree_root) raises TypeError, before anything is logged.
RunFalsification ==
    /\ At("falsification")
    /\ bug_results' = [bug_results EXCEPT ![bug] = Append(@, ErrorResult("falsification"))]
    /\ flat' = NewFlat
    /\ pc' = "coder"
    /\ UNCHANGED <<runs, bug, lane_results, rows, trees>> /\ NoFault /\ Outside

-----------------------------------------------------------------------------
(* FlatLoop.run.                                                           *)

\* The try block ends, in the finally clause where there is a worktree.
FlatRaises(from, to) ==
    /\ At(from)
    /\ flat' = [flat EXCEPT !.failing = TRUE]
    /\ pc' = to
    /\ UNCHANGED <<runs, bug, bug_results, lane_results, rows, trees>> /\ Outside

Write(row) ==
    /\ rows' = [rows EXCEPT ![thread_id] = Append(@, row)]
    /\ flat' = [flat EXCEPT !.audit_ids = Append(@, Len(rows[thread_id]) + 1)]

FlatCoder ==
    /\ At("coder")
    /\ Write([node |-> "coder", parent |-> 0, apply |-> "none", test_passed |-> "none"])
    /\ pc' = "worktree"
    /\ UNCHANGED <<runs, bug, bug_results, lane_results, trees>> /\ NoFault /\ Outside

\* The factory, the model or write_ahead raises.  The factory raises outside
\* FlatLoop.run, which makes this the scheduler's error.
FactoryRaises ==
    /\ At("coder")
    /\ NextBug(<<ErrorResult("flat")>>)
    /\ Fault
    /\ UNCHANGED <<runs, flat, lane_results, rows, trees>> /\ Outside

CoderRaises == FlatRaises("coder", "return") /\ Fault

\* git did not do what it was asked to: what is there of the worktree is left.
Leaves(left) ==
    /\ checkout' = [checkout EXCEPT ![thread_id] = left]
    /\ applied' = [applied EXCEPT ![thread_id] = IF left.on_disk THEN @ ELSE {}]
    /\ stuck' = stuck \cup {thread_id}

\* Mutant: a directory that is there is taken as it is.
FlatWorktreeReused ==
    LET was  == checkout[thread_id]
        made == IF was.on_disk THEN [ok |-> TRUE, tree |-> was] ELSE create_worktree(was)
    IN  /\ At("worktree")
        /\ checkout' = [checkout EXCEPT ![thread_id] = made.tree]
        /\ applied' = [applied EXCEPT ![thread_id] = IF was.on_disk THEN @ ELSE {}]
        /\ pc' = IF made.ok THEN "apply" ELSE "return"
        /\ flat' = [flat EXCEPT !.failing = ~made.ok, !.at = IF made.ok THEN head ELSE 0]
        /\ UNCHANGED <<runs, bug, bug_results, lane_results, rows, stuck>> /\ NoFault /\ Outside

\* The worktree is added at the HEAD of the clone, where the directory was emptied.
FlatWorktree ==
    LET made == create_worktree(checkout[thread_id])
    IN  /\ At("worktree")
        /\ checkout' = [checkout EXCEPT ![thread_id] = made.tree]
        /\ applied' = [applied EXCEPT ![thread_id] = {}]
        /\ pc' = IF made.ok THEN "apply" ELSE "return"
        /\ flat' = [flat EXCEPT !.failing = ~made.ok, !.at = IF made.ok THEN head ELSE 0]
        /\ UNCHANGED <<runs, bug, bug_results, lane_results, rows, stuck>> /\ NoFault /\ Outside

\* git worktree add fails, or hangs and is killed; what it leaves is anybody's guess.
WorktreeTimesOut ==
    /\ At("worktree")
    /\ \E left \in Checkout : Leaves(left)
    /\ flat' = [flat EXCEPT !.failing = TRUE]
    /\ pc' = "return"
    /\ Fault
    /\ UNCHANGED <<runs, bug, bug_results, lane_results, rows>> /\ Outside

FlatApply(status) ==
    /\ At("apply")
    /\ flat' = IF status = "applied" THEN [flat EXCEPT !.apply = status]
               ELSE [flat EXCEPT !.apply = status, !.verdict = "fail", !.test_passed = "failed"]
    /\ applied' = IF status = "applied" THEN [applied EXCEPT ![thread_id] = @ \cup {lane}] ELSE applied
    /\ pc' = IF status = "applied" THEN "test" ELSE "record"
    /\ UNCHANGED <<runs, bug, bug_results, lane_results, rows, checkout, stuck>> /\ NoFault /\ Outside

FlatTests ==
    /\ At("test")
    /\ StartPytest
    /\ pc' = "testing"
    /\ UNCHANGED <<runs, bug, flat, bug_results, lane_results, rows, trees, seedvars>>
    /\ NoFault

Tested(result) ==
    /\ At("testing")
    /\ flat' = [flat EXCEPT !.test_passed = result,
                            !.verdict = IF result = "passed" THEN "pass" ELSE "fail"]
    /\ pc' = "record"
    /\ UNCHANGED <<runs, bug, bug_results, lane_results, rows, trees, seedvars>>
    /\ NoFault

\* run_tests returns what pytest exited with, or False at the timeout.
TestsReturn == Tested(pytest) /\ Returned(thread_id, bug)
TestsTimeOut == Tested("failed") /\ TimedOut(thread_id, bug)

TestsRun == pc = "testing" /\ TestWorld /\ UNCHANGED <<lanevars, seedvars>>

\* A child left behind writes a file, and with it the directory it stands in.  What it
\* writes where there is a directory already is not kept track of.
OrphanWrites ==
    /\ \E o \in orphans : /\ ~checkout[o.tree].on_disk
                          /\ checkout' = [checkout EXCEPT ![o.tree].on_disk = TRUE]
    /\ UNCHANGED <<runs, bug, pc, flat, bug_results, lane_results, rows, applied, stuck>>
    /\ NoFault /\ Outside

\* rmtree finds the directory filled again as it empties it, or what git could not
\* delete.
RmtreeRaises ==
    /\ FlatRaises("worktree", "return")
    /\ checkout[thread_id].on_disk
    /\ thread_id \in stuck \/ \E o \in orphans : o.tree = thread_id
    /\ NoFault

\* Mutant: the runner's row does not name the coder's row as its parent.
RecordRootless ==
    /\ At("record")
    /\ Write([node |-> "runner", parent |-> 0, apply |-> flat.apply,
              test_passed |-> flat.test_passed])
    /\ pc' = "remove"
    /\ UNCHANGED <<runs, bug, bug_results, lane_results, trees>> /\ NoFault /\ Outside

FlatRecord ==
    /\ At("record")
    /\ Write([node |-> "runner", parent |-> flat.audit_ids[Len(flat.audit_ids)],
              apply |-> flat.apply, test_passed |-> flat.test_passed])
    /\ pc' = "remove"
    /\ UNCHANGED <<runs, bug, bug_results, lane_results, trees>> /\ NoFault /\ Outside

\* Mutant: no finally clause.
WorkRaisesPastFinally ==
    \E from \in {"apply", "test", "record"} : FlatRaises(from, "return") /\ Fault

\* git apply times out (what it has written by then is not kept track of, as no test runs
\* on it), pytest is not there, write_ahead raises.
WorkRaises == \E from \in {"apply", "test", "record"} : FlatRaises(from, "remove") /\ Fault

FlatRemove ==
    /\ At("remove")
    /\ NoCheckout \in remove_worktree(checkout[thread_id])
    /\ checkout' = [checkout EXCEPT ![thread_id] = NoCheckout]
    /\ applied' = [applied EXCEPT ![thread_id] = {}]
    /\ pc' = "return"
    /\ UNCHANGED <<runs, bug, flat, bug_results, lane_results, rows, stuck>> /\ NoFault /\ Outside

\* git worktree remove exits with an error.  Nobody looks, and the lane's verdict stands.
RemoveFails ==
    /\ At("remove")
    /\ \E left \in remove_worktree(checkout[thread_id]) \ {NoCheckout} : Leaves(left)
    /\ pc' = "return"
    /\ NoFault
    /\ UNCHANGED <<runs, bug, flat, bug_results, lane_results, rows>> /\ Outside

\* git worktree remove hangs and is killed: the finally clause itself raises.
RemoveTimesOut ==
    /\ At("remove")
    /\ \E left \in Checkout : Leaves(left)
    /\ flat' = [flat EXCEPT !.failing = TRUE]
    /\ pc' = "return"
    /\ Fault
    /\ UNCHANGED <<runs, bug, bug_results, lane_results, rows>> /\ Outside

\* FlatLoop.run catches what was raised and returns; the scheduler reports a lane
\* that returned as a success, and sink.close() ends run_bug.
FlatReturn ==
    /\ At("return")
    /\ NextBug(<<Result("flat", TRUE, IF flat.failing THEN "error" ELSE flat.verdict,
                        flat.test_passed, flat.audit_ids, flat.at)>>)
    /\ UNCHANGED <<runs, flat, lane_results, rows, trees>> /\ NoFault /\ Outside

-----------------------------------------------------------------------------

Concatenated == LET upto[b \in 0 .. Len(Corpus)] ==
                        IF b = 0 THEN <<>> ELSE upto[b - 1] \o bug_results[b]
                IN  upto[Len(Corpus)]

\* gather has every result: run_corpus returns.
Collect ==
    /\ pc = "run_bug" /\ bug > Len(Corpus)
    /\ lane_results' = Concatenated
    /\ pc' = "done"
    /\ UNCHANGED <<runs, bug, flat, bug_results, rows, trees>> /\ NoFault /\ Outside

\* The same process runs the corpus once more, over the same roots.
RunAgain ==
    /\ pc = "done" /\ runs < MaxRuns
    /\ runs' = runs + 1 /\ bug' = 1 /\ pc' = "run_bug"
    /\ bug_results' = [b \in Bugs |-> <<>>]
    /\ lane_results' = <<>> /\ flat' = NewFlat
    /\ faulty' = {}
    /\ UNCHANGED <<rows, trees, faults>> /\ Outside

AblationDone == pc = "done" /\ runs = MaxRuns /\ UNCHANGED avars

FlatStep ==
    \/ FlatCoder \/ FactoryRaises \/ CoderRaises
    \/ FlatWorktree \/ WorktreeTimesOut \/ RmtreeRaises
    \/ \E status \in {"applied", "rejected"} : FlatApply(status)
    \/ FlatTests \/ TestsReturn \/ TestsTimeOut
    \/ FlatRecord \/ WorkRaises \/ FlatRemove \/ RemoveFails \/ RemoveTimesOut
    \/ FlatReturn

RunStep == UnknownRepo \/ OpenSink \/ SinkRaises \/ RunFalsification \/ FlatStep \/ Collect

World == PrepareClones \/ Begin \/ TestsRun \/ OrphanWrites \/ RunAgain

AblationNext == RunStep \/ World \/ AblationDone

\* run_corpus goes on by itself; every call it makes ends or has a timeout.  The tests
\* and what they start, and whoever prepares the clones, do as they please.
AblationSpec == AblationInit /\ [][AblationNext]_avars /\ WF_avars(RunStep)

-----------------------------------------------------------------------------

\* The report pairs the arms: whatever was raised, the run holds the two results
\* of each bug, falsification first, in the order of the corpus.
ResultsPaired ==
    pc = "done" =>
        /\ Len(lane_results) = 2 * Len(Corpus)
        /\ \A b \in Bugs :
             /\ lane_results[2 * b - 1].bug = b
             /\ lane_results[2 * b - 1].mode = "falsification"
             /\ lane_results[2 * b].bug = b /\ lane_results[2 * b].mode = "flat"

AllResults == UNION {{bug_results[b][i] : i \in DOMAIN bug_results[b]} : b \in Bugs}

\* A pass or fail verdict of the flat arm is backed by two rows of the bug's log: the
\* coder's, and under it the runner's with that very test result.
VerdictHasEvidence ==
    \A r \in AllResults : r.verdict \in {"pass", "fail"} =>
        LET log == rows[Thread(r.bug)]
            ids == r.audit_event_ids
        IN  /\ Len(ids) = 2 /\ ids[2] \in DOMAIN log
            /\ log[ids[1]].node = "coder" /\ log[ids[2]].node = "runner"
            /\ log[ids[2]].parent = ids[1]
            /\ log[ids[2]].test_passed = r.test_passed
            /\ r.verdict = "pass" <=> (r.test_passed = "passed" /\ log[ids[2]].apply = "applied")

InLane(t) == pc \in {"apply", "test", "testing", "record", "remove"} /\ t = thread_id

\* No lane leaves its worktree behind, however it ended, unless a git worktree call for
\* that thread hung or failed, which nobody looks at or repairs: git has no entry for it,
\* and there is a directory only where a child of the tests, which nobody killed, can
\* still write.
WorktreesRemoved ==
    \A t \in Threads \ stuck : ~InLane(t) =>
        /\ ~checkout[t].registered
        /\ checkout[t].on_disk => \E o \in orphans : o.tree = t

\* D5: the tests run on the clone's code with the patch of this lane and of no other one,
\* whatever directory an earlier lane of this bug, or of a bug whose names agree with its
\* own, has left because git failed on it.
TestedAlone ==
    pc \in {"test", "testing"} => applied[thread_id] = {lane}

type_of == [b \in Bugs |-> Corpus[b].bug_type]
repo_of == [b \in Bugs |-> Corpus[b].repo]

\* The report compares like with like: each arm's sample is the whole corpus, its
\* tallies by type and by repository are the corpus's own distributions and add up to
\* its passes, every pass verdict counts as a pass, and arms are only compared where
\* each has a lane to average.
ReportBalanced ==
    pc = "done" => \A mode \in {"falsification", "flat"} :
        LET stats == compute_mode_stats(lane_results, mode, type_of, repo_of)
            types == stats.by_bug_type
            repos == stats.by_repo
        IN  /\ stats.n = Len(Corpus)
            /\ [k \in DOMAIN types |-> types[k].total] = Distribution(Bugs, type_of)
            /\ [k \in DOMAIN repos |-> repos[k].total] = Distribution(Bugs, repo_of)
            /\ stats.n_pass >= Cardinality({i \in mode_results(lane_results, mode) :
                                              lane_results[i].verdict = "pass"})
            /\ TotalPassed(types) = stats.n_pass /\ TotalPassed(repos) = stats.n_pass
            /\ compute_effect_sizes(lane_results) # {} => stats.averaged # {}

\* A bug is judged on the code its description is about, when nobody has checked out
\* anything else in the clone it shares with the other bugs of its repository.
SoleBugTested ==
    \A r \in AllResults :
        r.verdict \in {"pass", "fail"} /\ TouchedFor(r.bug) = {[bug |-> r.bug, fix |-> FALSE]} =>
            r.at = Corpus[r.bug].commit

\* Whatever the tests start, and whatever fails, a run_corpus that has begun returns.
CorpusReturns == [](pc = "run_bug" => <>(pc = "done"))

\* scheduler.py: "runs falsification loop AND flat control arm for each bug".  A
\* falsification lane only errs on a bug for which some call failed.
FalsificationRuns ==
    \A r \in AllResults :
        r.mode = "falsification" /\ r.verdict = "error" => r.bug \in faulty

\* corpus.py: commit_sha is "the faulty commit".  A bug that setup_seed_repo was
\* called for, and no apply_fix, is tested on its own commit.
TestedOnFaultyCommit ==
    \A r \in AllResults :
        /\ r.verdict \in {"pass", "fail"}
        /\ [bug |-> r.bug, fix |-> FALSE] \in touched
        /\ \A c \in touched : ~c.fix
        => r.at = Corpus[r.bug].commit

\* process.py: "On timeout the process group is killed (not just the parent) - child
\* processes cannot outlive the budget."
ChildrenWithinBudget == \A o \in orphans : o.left # "timeout"

=============================================================================
