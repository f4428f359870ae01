# Verification of the three-cycle orchestrator

TLA+ specifications of the orchestrator in `src/`, the TLC configurations that
check them on small instances, and proofs, checked by TLAPS, of what matters
most for every instance. Paths in this file are relative to
`src/src/orchestrator/`, unless they start with `docs/` or name a file of the
repository's root.

Run a model with `tlc -config <cfg> <module>` and a proof with `tlapm <module>.tla`;
`PROJECT.json` lists every run with its module, its configuration and its
properties, and maps each definition to the lines it models.

## 1. The system

A *session* lets four language models argue about a code change. The coder
proposes a patch, the adversary attacks it, the critic judges the attack, the
arbiter gives a verdict; the verdict sends the patch back to the coder, to a
human, or ends the session. What the human approves is applied to a git
worktree and tested, and failing tests go back to the coder. Every step is
written to an append-only SQLite log before it takes effect.

| Component | State | Operations | Talks to |
|---|---|---|---|
| Falsification graph (`graph/builder.py`, `nodes.py`, `verdict.py`, `state.py`) | the channels of `SessionState`, LangGraph's checkpoint (in memory) | one node each for recon, coder, adversary, critic, arbiter, gate, record_gate, runner; four routing functions | models through adapters, the audit sink, git and pytest, and the driver by `interrupt()` / `Command(resume=...)` |
| Session drivers (`builder.run_session`, `cli.stream_updates`, the TUI's worker in `cli.py`) | the stream they are in, the worktree made beforehand | create the worktree, pull updates, ask `decide`, resume | the graph, the worktree manager |
| Worktree manager (`runner/worktree.py`) | a directory, and git's own list of worktrees | `create_worktree`, `remove_worktree` | git |
| Audit sink (`audit/sink.py`, `event.py`) | one SQLite file; each connection's open transaction | `write_ahead`, `session_events`, `verify_integrity`, `close` | every node that records; the zoo and the ablation read it |
| Adapters and pacer (`adapters/llm/*.py`) | token bucket, failure count, circuit breaker; each calling thread's attempt | `acquire`, `report_success`, `report_rate_limited`, `complete`, `stream`, `astream` | the model services |
| Test runner (`runner/process.py`) | pytest, its pipe, and the processes the tests start | `run_tests` with a timeout | pytest in a subprocess |
| Ablation (`ablation/scheduler.py`, `control_arm.py`) | results per bug, an audit database per bug, a worktree per flat lane | `run_corpus`, `run_bug`, `FlatLoop.run` | all of the above |
| Corpus and report (`ablation/corpus.py`, `report.py`) | a clone directory per repository name; counts | `setup_seed_repo`, `apply_fix`, `compute_mode_stats`, `compute_effect_sizes` | git; the ablation's results |
| Failure zoo (`zoo/view.py`, `curation.py`) | specimens in memory | `rebuild`, `LicenseClassifier.detect` | reads the audit file; a repository's license files |
| Retrieval index (`retrieval/store.py`, `chunker.py`) | a Qdrant folder shared by every session of a repository | chunk, upsert, query | recon |
| Status screen, prompts, roster, fake adapter, scripts, evals | texts, constants, display | - | - |

### What is hard in it

`PROJECT.json` lists the hazards line by line. In groups:

* **Channels outlive the round that wrote them.** `gate_decision`, `attack`,
  `critique` and `test_passed` stay in the state while the loop goes round. An
  approval of an earlier patch must not let a later one through; the arbiter
  must not judge a patch on evidence about another one (except for the attack,
  once its budget is spent, and then on a known one).
* **Two budgets with different comparisons.** `>=` at the arbiter, `<` at the
  runner, and `rubric_fail` is not capped at all.
* **Write-ahead.** The row is durable before the transition; a crash between
  the two, a commit that fails without a rollback, and a later commit that
  takes the old row along must leave a log that can be replayed.
* **Irreversible steps.** `git apply` happens before its row is written.
* **Suspension.** The gate suspends the graph, and three drivers resume it in
  three ways.
* **Threads at a pacer.** A thread sleeps outside the lock while another one
  empties the bucket, trips the breaker, or resets the failure count. A late
  answer trips an open breaker once more.
* **Exceptions at every call** of the ablation's lanes, with a worktree there, and
  calls whose failure nobody looks at.
* **Names that are cut short.** A lane's database, thread and worktree are named for
  eight characters of a commit and a hash modulo a million; a clone for the end of a URL.
* **Processes nobody waits for.** A child of the tests holds the pipe, or goes on
  writing to a worktree that is removed, or is there again.
* **Clones that bugs share.** What a lane tests is what the last preparation
  left checked out.
* **Two processes, one index folder**, and upserts that end half-way.
* **Names and windows.** Nested definitions and overlapping windows of lines:
  off by one, and code is found under a wrong name or at a wrong line.

### What makes each part correct

| Part | Properties |
|---|---|
| Graph | one linear chain of events that the state agrees with; nothing applied without an approval on record for that patch; guard-railed patches reach the human as `escalate`; log and worktree agree; a session ends for a reason its log shows; evidence is about the patch judged; only `rubric_fail` exceeds the coder's budget |
| Drivers | each comes to an end; each interrupt is answered; nothing is applied that nobody decided |
| Sink | what was acknowledged is in the file; no gap, no fork; a row nobody was told of is the last of its thread; `verify_integrity` accepts exactly the replayable logs, and whatever the sink left behind |
| Pacer | the rate bound over any interval; nobody passes an open circuit; requests per slot; the breaker trips in time |
| Ablation | results stay paired; a verdict has its rows; no worktree stays behind where git does as it is told; tests see the patch of their own lane only; the run returns |
| Corpus and report | a bug is tested on its own commit; each arm's sample is the whole corpus |
| Zoo | a specimen's parts belong together; patch, attack and critique are only kept under a license that is known to be permissive |
| Index | one point for a piece of code under a name; a session's own code is there, to the line, and points lead to where it is |

## 2. The modules

An arrow `A <- B` reads "B EXTENDS A".

```
 Session <- Zoo <- MCSession, SessionProofs
 Session, Worktree <- SessionDriver <- MCSessionDriver
 SessionDriver, SessionProofs, GatedApply <- SessionRefinement
 Worktree, SeedRepo, TestRun, Report <- Ablation <- MCAblation, AblationProofs
 AuditSink, Integrity <- AuditFile <- AuditFileProofs
 Pacer <- MCPacer, PacerProofs
 Chunker <- RepoIndex <- MCRepoIndex, RepoIndexProofs
 Licenses <- Curation <- MCCuration, CurationProofs
 Induction <- every proof module
```

Session has an instance of GatedApply, which it implements.

**Session** is the graph. There is one action per node; the runner has three
(`RunnerApply`, `RunnerTest`, `RunnerRecord`), because its process can die
between `git apply`, pytest and the audit row. The variables are the channels of
`SessionState` under their own names, plus `phase` and `node` (where LangGraph
is), `steps` (LangGraph's recursion count of the current stream), `run` (the
runner's local results), `events` (the thread's rows) and `worktree` (the
patches applied, in order). Texts are reduced to the round they are about:
`patch.round = n` is what the n-th coder call returned, `attack = n` an attack on
that patch. So "the verdict is about the wrong patch" is a comparison of
numbers. Whether a patch touches a guard-railed path is one Boolean, chosen when
the patch is proposed; what the arbiter's model prints is a member of
`ArbiterOutputs`, with `malformed` for what `_parse_verdict` does not recognise.
Each node that writes may be `Lost`: the row is in the file, and the node does
not return. `Abort` is any exception or a crash; `MemorySaver` forgets the
session, so nothing resumes after it.

**GatedApply** is what the loop promises, without the loop: drafts, one after the
other; each may be put to a human; only a draft with an approval on record is
applied, once. It knows no verdicts, budgets, rows or tests. `Session`
implements it (`ImplementsGatedApply`), with `stage` computed from `phase`,
`node` and `run`, `approved` from the gate rows, and `applied` the worktree.

**Worktree** has the two functions of the worktree manager as operators over two
Booleans: the directory, and git's entry for it. They differ where it matters:
`shutil.rmtree` deletes the first and not the second. `remove_worktree` is the set of
what `git worktree remove --force` may leave, as the code ignores its exit code: nothing,
everything, or a directory without its entry.

**SessionDriver** composes a session with its driver. `caller` chooses between
the three, and they differ in three definitions: `default_decision`, `answers`
(the TUI ignores `decide`) and `resumed_in` (the plain CLI restarts its loop; the
other two drain a second stream inside the first). An interrupt in the inner
stream is drained as an update (`DropInterrupt`).

**AuditSink** has connections, sessions on them, the committed `table` and each
connection's `pending` rows. An INSERT takes SQLite's write lock, and a failed
commit leaves the row pending; the next commit on the same connection takes it
along. `Close` drops what is pending. Hashes are left out: nothing in the code
compares them.

**Integrity** is `verify_integrity` as a walk with its stack and its visited set,
over every log with any parents at all; `Replayable` defines without a walk what
the walk ought to decide.

**AuditFile** composes the two: the sinks write, all of them stop, and a process
that starts afterwards reads one thread back (`parents_of` turns its rows, with
the parent ids in them, into the log that the walk takes) and verifies it. Or
the file is a stranger's, with any parents at all.

**Pacer** models the bucket, the breaker, and threads inside `complete()` and the
streams. Time passes in ticks; the bucket holds units, of which `Rate` flow in per
tick and `Cost` make a request, so that the arithmetic stays in the integers. The
jitter is any value within the 25 percent. `Retries` holds the number of retries
of NIM's adapter (which retries inside one slot) and of Ollama's, 0. A stream has
no retries, and its reader may leave before the end (`Abandons`). Both parts of
`report_rate_limited`, the one under the lock and the one after it, are actions of
their own.

**TestRun** is `run_tests`: pytest, a process that the tests start, which may hold
the pipe (`attached`) or not, the two ways in which `subprocess.run` comes back,
and the children that are left (`orphans`).

**SeedRepo** has the corpus, and a clone per directory with its HEAD. A directory is
named for the last component of the repository's URL (`dir`), so repositories may share
one. The calls that prepare it are `setup_seed_repo`, where git refuses the checkout (it
has no such commit in another repository's clone) or the clone dies half-way, and
`apply_fix`. Commits are numbers; the fix of commit `n` is `-n`. `sha8` and `task_hash`
are what the names of a lane keep of commit and description.

**Report** is what `report.py` counts and over which lanes, before any statistic:
a tally is a function from a type or a repository to a total and the passes.

**Ablation** extends these with `run_corpus` and both lanes of each bug. The lanes
never suspend, so `gather` runs them one after the other. Which threads, databases
and directories coincide follows from what they are named for (`Thread`), and any two
bugs' names may agree. `applied` has the lanes whose patch is in a directory. A failing
`git worktree remove` (`RemoveFails`) goes unnoticed, as in the code, and is not among
the faults that `MaxFaults` counts; what it leaves meets the next lane of that thread:
`rmtree` raises, or `git worktree add` refuses. Whoever prepares the clones comes first; then there may be an exception at every call,
and the children of the tests write when they like, into worktrees that are gone
too (`OrphanWrites`). A process may run its corpus twice.

**Zoo** extends Session with what `ZooView` would make of its log at any moment.
**Licenses** is `LicenseClassifier`: a license file is the set of the phrases that
are in it, and the rules are tried in the order of the code. **Curation** is
`rebuild` under the policy, over any sessions of any repositories. A specimen has
`texts`, its patch, attack and critique, which `distill` takes away. Its task and tool
calls, which `_distill` leaves as they are, are not modelled (section 6).

**Chunker** is the walk over one file's definitions and the cut into windows. A
definition is where it stands; which one stands in which (`Around`) is computed
from that, as the syntax tree would have it. A class body is walked twice in the
code, and so `parents_below` keeps both parents, and `parent_fqns` has each
definition's. **RepoIndex** is recon's index
over the files of a repository that changes between sessions: the folder's lock,
the ids of points, upserts that end half-way, and the query.

The `MC...` modules give values to the constants of the runs that need sets or
sequences.

## 3. The runs

Runs marked *violation* show a disagreement between the code and what the
repository says of it; each checks one property, and section 6 explains them.

| Run | Distinct states | What it shows |
|---|---|---|
| `Session_rounds` | 23,579 | the graph: types, `ChainLinear`, `ApplyOnlyApproved`, `GateFollowsVerdict`, `WorktreeRecorded`, `EndReason`, `JudgedOnOwnEvidence`, `OverrunOnlyByRubricFail`, the specimen (`SpecimenCoherent`, `SpecimenLagsOneRound`), and that it implements `GatedApply` |
| `Driver_all` | 1,921 | three drivers: `PlainAnswersAll`, `LibraryFailsClosed`, and under fairness `DriverReturns` |
| `AuditFile_written_and_read` | 566,058 | the sink: `AckedAreCommitted`, `ThreadsAreChains`, `GhostsAreLast`; the walk: `AcceptsExactlyReplayable`, `NoRowTwice`, `WalkEnds`; both: `SinkLogsAccepted` |
| `Pacer_shared` | 5,984,344 | `BurstBound`, `NoGrantWhileOpen`, `RequestsPerSlot`, `BreakerInTime` |
| `Ablation_corpus` | 2,144,083 | `ResultsPaired`, `VerdictHasEvidence`, `WorktreesRemoved`, `TestedAlone`, `ReportBalanced`, `SoleBugTested`, and under fairness `CorpusReturns` |
| `Curation_policy` | 154,242 | `OnlyPermissiveTexts`, `CopyleftDistilled` |
| `RepoIndex_shared` | 336,106 | `WorktreeIndexed`, `OnePointPerName`, `PointsLocate` |
| `Driver_unanswered` | violation | `EveryInterruptAnswered` fails for `run_session` |
| `Driver_silent` | violation | `NothingAppliesSilently` fails for the plain CLI |
| `Ablation_falsification` | violation | `FalsificationRuns` fails with no fault at all |
| `Ablation_commit` | violation | `TestedOnFaultyCommit` fails for two bugs of one repository |
| `Ablation_children` | violation | `ChildrenWithinBudget` fails at a timeout |

Every property of a passing run has a mutant in `PROJECT.json`: a plausible
mistake in the code it is about, under which the run reports that property
violated. The mutants stand in the modules, before the definition they replace.

### Bounds

* `Session_rounds`: `MAX_CODER_ROUNDS = 3`, `MAX_ADVERSARY_ROUNDS = 2`, where the
  code has 5 and 4. What matters is that the adversary's budget is positive and
  smaller than the coder's, so that there are rounds with an attack, rounds
  after the last attack, and a round at the coder's limit. `StepLimit = 16` lets
  one stream run three full rounds and one past the budget (`rubric_fail`), and
  then hit the limit. The four outputs are one of each class that
  `decide_verdict` and the routing tell apart: `patch_fix` stands for `replan`
  and `minor_fix`, which are treated alike everywhere, and `malformed` for
  whatever is turned into `escalate`.
* `Driver_all`: budgets 2 and 1 and no guard-railed patches; two gates in one
  session, which is all that tells the drivers apart, need two rounds. A smaller
  instance also keeps the liveness check small.
* `AuditFile_written_and_read`: two connections and three sessions, so that one
  connection serves two sessions (rows taken along by a later commit) while another
  competes for the lock; `MaxRows = 5` lets two sessions have two rows each
  around a failed commit. A stranger's log has up to four rows and any parent for
  each: cycles of length one to three beside a root, forks, gaps, parents in other
  threads.
* `Pacer_shared`: two threads, two calls each, burst 2, half a request per tick,
  a breaker that trips at the first failure or at the second, four ticks; one
  retry and none. Two threads are enough for one to sleep while the other changes
  the pacer; four calls for the burst, the wait after it and a trip; the threshold
  1 for the answers of two requests in flight to trip the breaker one after the
  other. The threads are alike, and no property here is temporal, so their symmetry
  is used.
* `Ablation_corpus`: two bugs of one repository whose commits begin alike and whose
  tasks have one hash, so that all they have is shared, clone, database, thread and
  worktree; two calls that prepare the clone, or one, or none, or ones that fail; one
  failing call anywhere in two runs over the same roots, and any number of failing
  removals, so that a lane meets what an earlier one has left behind. Bugs with one
  directory and two threads, as a fork and its origin, are left to the proofs. The runs
  that show a violation need one run and no failing call; their bugs share a clone only.
* `Curation_policy`: two sessions and the licenses that the policy and the rules
  tell apart, with the phrases that the published texts quote from each other. The
  policy looks at one session at a time; the second is there for it to forget the
  first.
* `RepoIndex_shared`: three sessions (one to leave stale points, one to die in its
  upsert, one to be right nonetheless), two files, three versions of a file: a long
  method in a class in a class, a method of the same name and a function in a
  function, and nothing. A window has 4 lines, and overlaps the next by 2.

### Fairness

Three specifications state it. `DriverSpec` has weak fairness of `DriverStep`:
the driver is a loop that blocks on nothing but model calls, git and pytest,
which have timeouts, and on `decide`, which is a function it calls. `Fail` is not
part of it, so an error is never needed for progress. `FileSpec` has weak fairness
of `Walk`, a plain loop; the writers may stop at any time. `AblationSpec` has weak
fairness of `RunStep`, the steps of `run_corpus` itself, the timeout of a test run
among them. It says nothing of `World`: the tests may hang, their children may
keep the pipe for ever, and nobody needs to prepare anything. That is why
`CorpusReturns` needs the timeout of `run_tests`, and its mutant, which reads the
pipe to its end after the kill, does not return. No other run checks liveness,
and a human who never answers `interrupt()` is behaviour of `Session` (its
specification has no fairness).

Deadlock is checked in every run; the stuttering disjuncts (`Terminated`,
`Finished`, `Verified`, ...) are enabled only where the program has come to
its end, so a model stuck anywhere else is reported.

## 4. What is proved

Every safety invariant that a passing run checks, and the refinement
(`ImplementsGatedApply`), is a theorem for every value of the constants.
`PROJECT.json` lists the theorems with their properties.

Assumptions are the named ASSUMEs of the modules and nothing else:

* Session: the coder's budget and the step limit are positive, the adversary's budget
  is a natural number (`BudgetAssumption`), the arbiter's outputs are verdicts or
  `malformed` (`OutputAssumption`); SessionDriver: the callers are among the three that
  exist (`CallersAssumption`);
* AuditSink and Integrity: the bounds on rows are natural numbers (`MaxRowsAssumption`,
  `RowsAssumption`); AuditFile: no session has the name of nobody or of the stranger
  (`SessionsAssumption`);
* Pacer: rates, burst and backoffs are natural numbers, and those it divides by
  positive (`PacerAssumption`);
* Ablation and SeedRepo: the corpus is a sequence of bugs, there is at least one run,
  and the other bounds are natural numbers (`AblationAssumption`, `SeedAssumption`);
* Curation: a repository has two names of licenses, which may be empty, and a sequence
  of files with their phrases (`CurationAssumption`);
* Chunker and RepoIndex: a window is longer than an overlap, or `range()` raises
  (`StepAssumption`); a definition stands in its file and does not end before it
  begins (`SourcesAssumption`); sizes are natural numbers (`ChunkerAssumption`,
  `TopKAssumption`).

Nothing is assumed about how large they are, about the models' answers, about the
human, or about what fails when.

**Induction.** The provers take no operator as an argument, so the library's induction
theorems cannot be used. `EveryNumber` states induction for a set of numbers instead,
from the well-foundedness of `<` (`Least`); `Recursion` and `Descent` say that what is
defined step by step, with each step a member of a set of functions, exists and
satisfies its equations. `Descent` is for recursion that goes back by any number of
places, as from a definition to the one around it. With these, the recursive functions
of the models (`children`, `Climb`, `Doubled`, `Concatenated`, `parent_fqns`,
`QualifiedNames`) and the community modules' sum over a set are unfolded for arguments
of any size.

**SessionProofs.** None of the safety properties is inductive by itself: that a
gate row follows the arbiter's row, say, depends on what is true when control
reaches the gate. `Handover` says what each node may rely on:

* the patch in the channel is the one of the last coder round, and nothing in
  the worktree is newer than that round;
* from adversary to record_gate that patch has not been applied (`Untried`);
* at the gate and at record_gate the last row is the arbiter's, about this patch,
  with a verdict that may stand before a gate (`escalate` if guard-railed);
* at the runner there is an approving gate row for this patch, and until
  `git apply` has run it is untried;
* the adversary is only reached with budget left; the runner's locals are empty
  elsewhere.

`Inv` is `TypeOK`, `ChainLinear`, `Handover`, `ApplyOnlyApproved` and
`GateFollowsVerdict` together. The proof takes `Next` apart action by action,
with a lemma per action; `Routing` says where each routing function can lead,
`Decided` that a guard-railed patch is always escalated. `Invariance` is
`Spec => []Inv`, and from it follow `TypeCorrect`, `OneChain`, `GateHolds` and
`EscalationReachesGate`.

What the other four properties of a session need is a conjunct of `LogInv` each,
beside `Inv`:

* `Evidence`: which attack and which critique the channels hold at each node, as
  far as the adversary's budget went, so that `JudgedOnOwnEvidence` is inductive;
* `Overrun`: at the coder, a round past the budget has a `rubric_fail` on record;
* `Ending`: the gate has answered when its answer is recorded, so that `EndReason` is
  inductive;
* `Applying`: what a runner has applied is the last patch of the worktree and not on
  record yet, so that `WorktreeRecorded` is.

The zoo reads only rows, so its two properties need to know what the latest row of each
node is about. `Standing` says it by the node that runs next, and agrees with the
channels; of a session that raised only `Window` is left: patch, critique and verdict
are each behind the one before by at most one round. `ZooInv` is one or the other, and
`LatestRow` says what a new row changes.

**SessionRefinement** proves `Spec => ImplementsGatedApply`: initial states map to
initial states, and each action maps to a step of `GatedApply` or to a stutter.
A coder step is `Propose` or, when the process dies, `Close`; an arbiter step
that goes back to the coder is `Drop`; record_gate is `Grant` or `Drop`;
`RunnerApply` is `Apply`. `Inv` is used as the invariant of the refinement.

`GatePromise` proves of `GatedApply` itself that `OnlyApproved` holds always, for any
set of drafts whose rounds are integers. Together with the refinement, this gives the
user's promise of the session a second time, from the abstract side.

`DriversRunSession` proves `DriverSpec => Spec`: what a driver does
is a step of its session or one the session does not see, also when it drains one
stream inside another. So every theorem about sessions holds under each driver
(`DriverTypeCorrect` is the first use). `PlainAnswers` needs that the plain CLI is
never in an inner stream (`OneStream`). `LibraryClosed` needs that, as long as nobody
approves, the runner is never next (`Unapproved`): the property itself says only
that the worktree is empty, and would not exclude a runner about to fill it.

**AuditFileProofs.** `SinkInv` says what the connections keep:

* `OneWriter`: one connection has an open transaction, and one session uses it;
* `FreshIds`: every id was given out by an insert; none stands twice in the table or
  in a transaction, and none is both committed and pending;
* `Transaction`: it holds at most one row per session, the child of the event that
  session holds, and ends with the row of the session that is about to commit.
  The rows before are those that an earlier commit failed to write;
* `Held`: a session that has not stopped, or whose row is still in an open
  transaction, holds the last row of its thread and was told of every row in it. Only
  one that stopped may have a row in the file that it does not know of.

`WriteAheadPromise` takes the writes action by action; the reader changes nothing of
it. The four properties of the sink are its parts.

The walk has an invariant of its own, `WalkInv`, over logs with any parents. From its
root (`Walking`): no row is on the stack twice, none on it was visited; every row found
so far, but the root, hangs below a visited one, and has a depth that does not exceed
the number of rows visited; and whatever hangs below a visited row was found. Then a
walk that accepts leads, by induction on depth, from each row up to the root
(`AcceptsExactlyReplayable`); one that does not has left out a row, and above that row
only rows it has left out, so the way up never meets the root. That nothing is
found twice is `NoRowTwice`. `WrittenLogsAccepted` joins the two: places in a
thread are numbered without a gap, and in what `parents_of` makes of a thread the parent of
each row is the one before (`FileInv`); such a log is replayable (`ChainsReplay`), and the
walk accepts it.

**PacerProofs.** `BurstBound` speaks of two grants; its invariant (`Paid`) of one
grant and now: what was granted since then and is left in the bucket does not
exceed the burst and what flowed in. `RateWaits` and `RateGrants` are the two
outcomes of a turn in `acquire`. For `NoGrantWhileOpen`, `CircuitInv` ties the
breaker to the last trip: while there is one, `circuit_open_until` is its end, and
if the circuit is closed, that time has passed. `RequestsPerSlot` compares two
numbers, and what makes it hold is who sends: `SlotInv` says that each request
so far can be charged to a grant and the number of an attempt, no two to the same,
such that the threads that hold slots hold different ones, with their later
attempts uncharged. For `BreakerInTime`, `CountInv` follows a lone caller: the breaker
has counted all its rate-limited answers but the one it is about to report. The
backoff is a power of two under a ceiling; `Backoffs` says that no jitter makes it
negative, which is what the types need. No theorem here bounds time, threads or calls.

**AblationProofs.** `AblationInv` has nine conjuncts: types; `Lane`, the rows and
locals of `FlatLoop.run` on its way through the try block; `Evidence`, that what was
returned earlier stays backed, since logs only grow (`BackedLater`); `Tidy`, that git's
list has the worktree of the lane that runs and no other, wherever git has done as it
was told; `Fresh`, that from `git worktree add` on only this lane's patch is in its
directory; `Settled`, which results are there of which bug while the run is at
some other; `HeadsLeft`, that a clone is at what some call checked out;
`VerdictsAtHead`, that a verdict is about what its clone is at; and `Gathering`, that
what was returned is what the bugs have. `PatchesTestedAlone` is
`Fresh` where the tests run: git adds no worktree to a directory that is there, and one
that could not be emptied ends the lane, so whatever was left in it, and under whosever
name, is not tested again. For `ReportInBalance` an arm's places in the results are the odd or the even
ones, which the bugs number (`ArmPlaces`), so the counts over places are counts over
bugs; and the parts of a tally add up to the whole, as those of any finite set
(`SumOfParts`).

**CurationProofs.** A specimen with its texts passed the policy under the license that
was detected (`CurationInv`); the rest is about `detect`, for any texts. A copyleft text that
matches no permissive rule is named by a rule for some copyleft license, its own or one it
quotes (`FirstRule`); files that say nothing are passed over (`CopyleftName`); and each
of these licenses is distilled, also in capitals (`CopyleftToDistil`).

**RepoIndexProofs.** The first half is about one file of any length and nesting: the
windows of a long definition cover each of its lines, and each is at the place it
claims (`Windows`, `WindowFor`, `ChunksLocate`); among the parents under which the
walk comes to a definition is the one made of all the classes around it, by induction
over definitions (`ParentFqns`, `FullNameGiven`), so the line of an importable definition
is in a chunk under its full name (`DefinitionsCovered`). The second half is
`IndexInv`: `Begun`, a session past its start has its code; `InPlace`, no two points
have one id, and those with a path of some session are right about that session's code; `Held`, a
session that holds the store has its whole batch in the collection, since nobody else
can upsert until it ends. That of several chunks with one id the batch keeps the last
needs that there is a last (`SomeLast`).

## 5. What is only model-checked, and what is not modelled

Only model-checked: liveness (`DriverReturns`, `WalkEnds`, `CorpusReturns`), since the
prover reasons about neither fairness nor ENABLED; and the five disagreements of
section 6, which are counterexamples.

Not modelled:

* the texts: prompts, parsing of diffs, wording of critiques, token counts. A
  prompt is a function of channels the model has;
* `is_within_worktree`, which the graph does not call; `health()` of the adapters,
  which changes nothing; the scrubbed environment of the tests and their output;
* embeddings, and the fusion of the two rankings: a query returns any `TopK` points.
  Which of them are better is not a property of the code's control, and rankings as
  data make the states of the index too many to enumerate;
* `sink.close()` raising at the end of `run_bug`, which ends as `SinkRaises` does, after
  the lanes; URLs that differ only in `/` and `_`, whose databases coincide;
* what a `git apply` that was killed has written, and what children write into a
  directory that is there: `TestedAlone` is about patches that git says it applied;
* line breaks other than a newline (a form feed, for `splitlines()`) in chunked files;
* characters beyond ASCII in chunked files (see the end of section 6);
* `IncrementalIndex` and `delete_file`, which nothing calls; `filter`, `export` and
  `stats` of the zoo: functions over the list that `rebuild` returns;
* the statistics of the report, in floating point, and its Markdown; the manifest
  and `verify_bug_exposed` of the corpus;
* `ui/status.py`, which only the tests use (cli.py has a screen of its own);
  prompts, roster, fake adapter, scripts and evals: texts, constants, scripted
  answers, and measurements of services.

## 6. Where code and documentation disagree

With a run of their own:

1. **A second gate goes unanswered** (`Driver_unanswered`, `graph/builder.py:283`).
   `run_session` resumes inside the first stream, and nobody looks for
   interrupts in the second. Approve, failing tests, another round, a second
   pass: the session is suspended at its gate when `run_session` returns, though
   its docstring says "when the gate interrupts, ask decide". The plain CLI
   loops, and does not have it (`PlainAnswersAll`).
2. **`--auto-approve` changes nothing** (`Driver_silent`, `cli.py:77`). Without it
   `decide` is None, and `stream_updates` replaces None by a function that
   approves. The flag's help says "default: reject", `docs/index.md:63` "Reject
   (human must approve)".
3. **The falsification lane never runs** (`Ablation_falsification`,
   `ablation/scheduler.py:177`). It is given the `WorktreeManager` where a path
   belongs, and `Path()` raises before the first node.
4. **A bug is tested on another's commit** (`Ablation_commit`,
   `ablation/control_arm.py:74`). The bugs of a repository share one clone, the flat
   lane adds its worktree at that clone's HEAD, and nobody checks out
   `bug.commit_sha`, "the faulty commit" (`corpus.py:22`). Whichever bug was prepared
   last decides. `SoleBugTested` shows what remains true.
5. **Children outlive the budget** (`Ablation_children`, `runner/process.py:55`).
   `process.py:48-49` says that the process group is killed at the timeout;
   `subprocess.run` kills pytest alone.

Noticed while modelling, in the models where they have a place, without a run:

* Distillation keeps what the tests printed (`zoo/view.py:221`). `_distill` replaces
  patch, attack and critique, and hands on `tool_calls`, in which the runner has put
  git's words about the patch and pytest's output (`nodes.py:204-215`), and `task`. Its
  docstring says "No verbatim source code from the original repo" (`view.py:187-189`),
  which the code does not keep. `OnlyPermissiveTexts` and `CopyleftDistilled` therefore
  speak of the three texts and of nothing else.
* `rubric_fail` is not budget-checked (`nodes.py:168`), so the loop may go on past
  the budget until LangGraph's limit raises; `builder.py:6-7` lists it among the
  retry verdicts that are "budget-checked". `OverrunOnlyByRubricFail` says that it
  is the only one that does so. The comment in `verdict.py:26` has budgets of 3 and
  2; the constants are 5 and 4.
* The reason git gave for rejecting a patch is only in the audit row, and the
  coder's next prompt does not have it, though `runner/diff.py:3-4` says that the
  coder retries with it.
* Under `--tui` the worktree is created twice (`cli.py:156`); the second
  `create_worktree` removes the directory, and `git worktree add` refuses a path
  that it still has on its list. `SessionDriver` has this as an exception.
* `NIMAdapter` retries inside the slot it has, so two of three requests are not
  paced, while `base.py:27` says that every request passes through the pacer.
  Critic and arbiter have a pacer each for one model (`cli.py:52`).
* The backoff after a rate limit is computed when the lock is gone (`pacing.py:75`),
  from a failure count that another thread may have reset (`BackOff`).
* A rate limit reported while the breaker is open trips it again
  (`pacing.py:70-72`), and with the jitter the new end may come before the old one:
  a late answer shortens the open window. `NoGrantWhileOpen` counts the last trip.
* `OllamaAdapter.astream` (`ollama.py:52-58`) iterates over what `AsyncClient.chat`
  returns without awaiting it first. Nothing in the repository calls it.
* No session of the graph enters the zoo under the default policy: its root row has
  no license (`nodes.py:95`), `view.py:158` reads the license from that row, and
  `curation.py:55` turns away what has none. `Zoo.root_license` and `Curation` have
  the two halves.
* `upper()` makes `Apache-2.0`, `BSD-3-Clause` and `Unlicense` unknown licenses
  (`curation.py:58`), though they are on the list of those that `curation.py:60`
  always includes. `OnlyPermissiveTexts` holds nonetheless: it errs on the strict side.
  The AGPL's text is taken for the GPL's, which it quotes (`curation.py:170`);
  `CopyleftDistilled` says that this does not make a copyleft text harmless.
  Nothing in `src/` calls `LicenseClassifier`, `setup_seed_repo` or `apply_fix`: their
  callers are modelled as anybody who does.
* Sessions that raised are in the zoo as well (`view.py:77`).
* A flat lane that caught an exception is `success=True` with verdict `error`
  (`scheduler.py:247`), and `report.py:187` averages over the successful ones; a lane
  that erred after its tests had passed counts as a pass, so that passes may exceed
  pass verdicts. Effect sizes are always empty, as no falsification lane succeeds.
* `corpus.py:4` announces at least 5 bugs in each of 3 repositories; `DEFAULT_CORPUS`
  has 17 bugs in 7 repositories, and at most 3 in one.
* A second run of a corpus over the same audit root starts a second root in the
  flat thread (`control_arm.py:130`), which `verify_integrity` refuses. So does a bug
  whose commit begins with the same eight characters (`scheduler.py:128`) and whose task
  is the same, or has the same hash modulo a million (`control_arm.py:154`).
* The exit code of `git worktree remove` is not looked at (`control_arm.py:96`,
  `worktree.py:42`). Where it fails, directory or entry stay, and since `git worktree
  add` refuses a path on its list, each later lane of that thread errs. `RemoveFails`
  has it, `WorktreesRemoved` its exception for it; `TestedAlone` says that no verdict
  is wrong for it.
* A repository whose URL ends like another's is given the other's clone
  (`corpus.py:269`); `Setup` has it.
* `verify_integrity` "runs at startup" (`sink.py:46`), but nothing calls it then.
* The index never deletes a point, so a query may return code that is gone
  (`builder.py:43`); recon's `file_context` is not a key of `SessionState`, so
  what it finds does not reach the coder. A method also stands under shorter names
  (`chunker.py:129`) and takes as many places of the top k. The index
  folder is two levels above the worktree (`builder.py:62`), which its comment
  calls the main repository's. It lies beside the repository (`cli.py:288`), and
  repositories with one parent folder share it.
* `_node_text` cuts a `str` at byte offsets (`chunker.py:231`): behind the first
  character that is not ASCII, names and contents are shifted.

## 7. Plan

Done, in this order: Session with its audit rows and properties; its invariant,
proved; GatedApply and the refinement, proved; SessionDriver over Worktree;
AuditSink and Integrity; Pacer; Ablation; Zoo and Curation; RepoIndex. Then: the two
halves of the audit log composed (AuditFile); the ablation with the clones it works
on, the processes its tests leave behind, the report, and liveness; streams at the
pacer, and late answers at an open breaker; the chunker and the license rules; and
the first proofs about the log, the drivers, the sink, the pacer and the ablation. Then
the proofs of the remaining invariants: the walk over the audit file, the specimens,
the pacer's slots and counts, the report, the policy and the index.

To come:

1. Prove more: that the rows a session writes are a sink's (`Session` as one of the
   sessions of `AuditSink`, by refinement), so that `WrittenLogsAccepted` holds of the
   logs that `SpecimenOfItsPatch` reads; action properties of the log and the index (no
   committed row changes, no point of a running session is taken away); that
   `LicenseClassifier` finds each published license by its own text.
2. Model more: two repositories beside one index folder; `IncrementalIndex`, once
   something calls it; the fusion of rankings as a pure operator over short lists,
   in a run of its own.
