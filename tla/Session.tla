------------------------------ MODULE Session ------------------------------
(***************************************************************************)
(* One falsification session: the compiled LangGraph of graph/builder.py,  *)
(* the nodes of graph/nodes.py and the rows they write through             *)
(* AuditSink.write_ahead, over one git worktree.                           *)
(*                                                                         *)
(* Texts are abstracted to the coder round they belong to: patch n is what *)
(* the n-th coder call returned, attack n and critique n were written      *)
(* about patch n (0 is the empty string of the initial state).  An event   *)
(* id is the event's position in the thread's log; 0 is None.              *)
(***************************************************************************)
EXTENDS Integers, Sequences

CONSTANTS
    MAX_CODER_ROUNDS,      \* verdict.py: 5
    MAX_ADVERSARY_ROUNDS,  \* verdict.py: 4
    StepLimit,             \* LangGraph's recursion limit, per stream call
    ArbiterOutputs,        \* what the arbiter model may print on its verdict line
    PatchGuarded           \* may a proposed patch touch a guard-railed path?

Verdict == {"pass", "patch_fix", "rubric_fail", "replan", "minor_fix",
            "escalate", "budget_exhausted"}
Decisions == {"approve", "reject", "other"}     \* what decide() may return

ASSUME BudgetAssumption ==
    /\ MAX_CODER_ROUNDS \in Nat \ {0}
    /\ MAX_ADVERSARY_ROUNDS \in Nat
    /\ StepLimit \in Nat \ {0}
ASSUME OutputAssumption ==
    /\ ArbiterOutputs \subseteq Verdict \cup {"malformed"}
    /\ PatchGuarded \subseteq BOOLEAN

VARIABLES
    phase,            \* "running", "interrupted" at the gate, "ended", "raised"
    node,             \* the graph node that runs next
    steps,            \* supersteps taken in the current stream call
    patch, attack, critique,
    coder_rounds, adversary_rounds,
    verdict, escalated, gate_decision, test_passed,
    last_event_id,
    run,              \* the runner node's locals: apply_result and test_result
    events,           \* the rows of this thread in the audit database
    worktree          \* the patches git apply has put into the worktree, in order

loop     == <<patch, attack, critique, coder_rounds, adversary_rounds>>
judgment == <<verdict, escalated>>
channels == <<loop, judgment, gate_decision, test_passed, last_event_id>>
control  == <<phase, node, steps>>
vars     == <<control, channels, run, events, worktree>>

NoPatch == [round |-> 0, guarded |-> FALSE]
NotRun  == [apply |-> "none", test |-> "none"]
TestPassed == {"none", "passed", "failed"}      \* None, True, False
Nodes == {"recon", "coder", "adversary", "critic", "arbiter", "gate",
          "record_gate", "runner", "END"}

PatchType == [round : Nat, guarded : BOOLEAN]
AuditEvent == [node : Nodes, parent : Nat, patch : PatchType,
               verdict : Verdict \cup {""}, gate : {"none", "approve", "reject"},
               apply : {"none", "applied", "rejected"}, test : TestPassed]

-----------------------------------------------------------------------------
(* The routing table.                                                      *)

\* Mutant: the adversary still attacks when its budget is spent (<= for <).
RouteFromCoderOffByOne(rounds) ==
    IF rounds <= MAX_ADVERSARY_ROUNDS THEN "adversary" ELSE "critic"

\* Mutant: the adversary only attacks the first patch.
RouteFromCoderFirstOnly(rounds) ==
    IF rounds = 0 /\ MAX_ADVERSARY_ROUNDS > 0 THEN "adversary" ELSE "critic"

route_from_coder(rounds) ==
    IF rounds < MAX_ADVERSARY_ROUNDS THEN "adversary" ELSE "critic"

\* Mutant: an escalated patch is sent back to the coder like any other defect,
\* and a pass ends the session without asking.
RouteFromArbiterNoGate(v) ==
    CASE v = "pass" -> "END"
      [] v = "budget_exhausted" -> "END"
      [] OTHER -> "coder"

\* Mutant: a pass verdict goes straight to the runner.
RouteFromArbiterSkipsGate(v) ==
    CASE v = "pass" -> "runner"
      [] v = "escalate" -> "gate"
      [] v = "budget_exhausted" -> "END"
      [] OTHER -> "coder"

route_from_arbiter(v) ==
    CASE v \in {"pass", "escalate"} -> "gate"
      [] v = "budget_exhausted" -> "END"
      [] v \in {"patch_fix", "rubric_fail", "replan", "minor_fix"} -> "coder"
      [] OTHER -> "END"

\* Mutant: anything the human answers runs the patch.
RouteFromRecordGateAlways(decision) == "runner"

route_from_record_gate(decision) ==
    IF decision = "approve" THEN "runner" ELSE "END"

\* Mutant: failed tests go back to the coder whatever the budget.
RouteFromRunnerNoBudget(passed, rounds) ==
    IF passed = "passed" THEN "END" ELSE "coder"

route_from_runner(passed, rounds) ==
    CASE passed = "passed" -> "END"
      [] passed # "passed" /\ rounds < MAX_CODER_ROUNDS -> "coder"
      [] OTHER -> "END"

-----------------------------------------------------------------------------
(* The arbiter's verdict: parsed, capped by the budget, then escalated.    *)

_parse_verdict(output) == IF output \in Verdict THEN output ELSE "escalate"

escalation_hit(p) == p.guarded

\* Mutant: what the arbiter passes is not looked at for guard-railed paths.
DecideVerdictPassUnescalated(output, p, rounds) ==
    LET parsed == _parse_verdict(output)
        capped == IF /\ rounds >= MAX_CODER_ROUNDS
                     /\ parsed \in {"patch_fix", "replan", "minor_fix"}
                  THEN "budget_exhausted" ELSE parsed
    IN  IF escalation_hit(p) /\ parsed # "pass" THEN "escalate" ELSE capped

decide_verdict(output, p, rounds) ==
    LET parsed == _parse_verdict(output)
        capped == IF /\ rounds >= MAX_CODER_ROUNDS
                     /\ parsed \in {"patch_fix", "replan", "minor_fix"}
                  THEN "budget_exhausted" ELSE parsed
    IN  IF escalation_hit(p) THEN "escalate" ELSE capped

-----------------------------------------------------------------------------
(* The audit log of the thread.                                            *)

\* An event as _emit builds it: the parent is the last event the state knows.
Event(n, p) ==
    [node |-> n, parent |-> last_event_id, patch |-> p, verdict |-> "",
     gate |-> "none", apply |-> "none", test |-> "none"]

\* write_ahead persisted the row: INSERT and commit.
write_ahead(e) == events' = Append(events, e)

\* Mutant: the node keeps the id it started with.
SameEventId == last_event_id

NextEventId == Len(events) + 1

\* The row is durable but the node never returns: the process died between the
\* commit and the transition, or the commit reported an error for a row that
\* reached the disk.
Lost == /\ phase' = "raised"
        /\ UNCHANGED <<node, steps, channels, run>>

-----------------------------------------------------------------------------
(* The graph: one action per node, and the runner's two subprocesses apart. *)

Init ==
    /\ phase = "running" /\ node = "recon" /\ steps = 0
    /\ patch = NoPatch /\ attack = 0 /\ critique = 0
    /\ coder_rounds = 0 /\ adversary_rounds = 0
    /\ verdict = "" /\ escalated = FALSE
    /\ gate_decision = "none" /\ test_passed = "none"
    /\ last_event_id = 0
    /\ run = NotRun
    /\ events = <<>>
    /\ worktree = <<>>

At(n) == phase = "running" /\ node = n /\ steps < StepLimit

Goto(n) == /\ node' = n
           /\ phase' = IF n = "END" THEN "ended" ELSE "running"
           /\ steps' = steps + 1

\* Whatever recon finds, SessionState has no file_context key for it.
Recon ==
    /\ At("recon")
    /\ Goto("coder")
    /\ UNCHANGED <<channels, run, events, worktree>>

CoderProposes(new) ==
    /\ At("coder")
    /\ write_ahead(Event("coder", new))
    /\ \/ Lost
       \/ /\ patch' = new
          /\ coder_rounds' = new.round
          /\ last_event_id' = NextEventId
          /\ Goto(route_from_coder(adversary_rounds))
          /\ UNCHANGED <<attack, critique, adversary_rounds, judgment, gate_decision,
                         test_passed, run>>
    /\ UNCHANGED worktree

Coder == \E guarded \in PatchGuarded :
             CoderProposes([round |-> coder_rounds + 1, guarded |-> guarded])

Adversary ==
    /\ At("adversary")
    /\ write_ahead(Event("adversary", patch))
    /\ \/ Lost
       \/ /\ attack' = patch.round
          /\ adversary_rounds' = adversary_rounds + 1
          /\ last_event_id' = NextEventId
          /\ Goto("critic")
          /\ UNCHANGED <<patch, critique, coder_rounds, judgment, gate_decision,
                         test_passed, run>>
    /\ UNCHANGED worktree

Critic ==
    /\ At("critic")
    /\ write_ahead(Event("critic", patch))
    /\ \/ Lost
       \/ /\ critique' = patch.round
          /\ last_event_id' = NextEventId
          /\ Goto("arbiter")
          /\ UNCHANGED <<patch, attack, coder_rounds, adversary_rounds, judgment,
                         gate_decision, test_passed, run>>
    /\ UNCHANGED worktree

ArbiterDecides(decided) ==
    /\ At("arbiter")
    /\ write_ahead([Event("arbiter", patch) EXCEPT !.verdict = decided])
    /\ \/ Lost
       \/ /\ verdict' = decided
          /\ escalated' = escalation_hit(patch)
          /\ last_event_id' = NextEventId
          /\ Goto(route_from_arbiter(decided))
          /\ UNCHANGED <<loop, gate_decision, test_passed, run>>
    /\ UNCHANGED worktree

Arbiter == \E output \in ArbiterOutputs :
               ArbiterDecides(decide_verdict(output, patch, coder_rounds))

\* interrupt() suspends the graph and returns control to the driver.
GateInterrupt ==
    /\ At("gate")
    /\ phase' = "interrupted"
    /\ UNCHANGED <<node, steps, channels, run, events, worktree>>

normalize(decision) == IF decision \in {"approve", "reject"} THEN decision ELSE "reject"

\* Command(resume=decision) starts a new stream: the gate body runs again, this
\* time to its end.
Resume(decision) ==
    /\ phase = "interrupted"
    /\ phase' = "running" /\ node' = "record_gate" /\ steps' = 1
    /\ gate_decision' = normalize(decision)
    /\ UNCHANGED <<loop, judgment, test_passed, last_event_id, run, events, worktree>>

RecordGate ==
    /\ At("record_gate")
    /\ write_ahead([Event("gate", patch) EXCEPT !.gate = gate_decision])
    /\ \/ Lost
       \/ /\ last_event_id' = NextEventId
          /\ Goto(route_from_record_gate(gate_decision))
          /\ UNCHANGED <<loop, judgment, gate_decision, test_passed, run>>
    /\ UNCHANGED worktree

\* apply_patch: empty, binary and check-rejected patches leave the worktree as
\* it is.
RunnerApply ==
    /\ At("runner") /\ run = NotRun
    /\ \/ /\ run' = [NotRun EXCEPT !.apply = "applied"]
          /\ worktree' = Append(worktree, patch)
       \/ /\ run' = [NotRun EXCEPT !.apply = "rejected"]
          /\ UNCHANGED worktree
    /\ UNCHANGED <<control, channels, events>>

\* run_tests: a timeout is a failure.
RunnerTest ==
    /\ At("runner") /\ run = [apply |-> "applied", test |-> "none"]
    /\ \E result \in {"passed", "failed"} : run' = [run EXCEPT !.test = result]
    /\ UNCHANGED <<control, channels, events, worktree>>

\* Mutant: the runner writes its event before it touches the worktree, so that
\* it cannot say what git apply did.
RunnerEventBlank == [Event("runner", patch) EXCEPT !.gate = gate_decision]

RunnerEvent == [Event("runner", patch) EXCEPT !.gate = gate_decision,
                                              !.apply = run.apply, !.test = run.test]

RunnerRecord ==
    /\ At("runner")
    /\ run.apply = "rejected" \/ run.test # "none"
    /\ write_ahead(RunnerEvent)
    /\ \/ Lost
       \/ /\ test_passed' = run.test
          /\ last_event_id' = NextEventId
          /\ run' = NotRun
          /\ Goto(route_from_runner(run.test, coder_rounds))
          /\ UNCHANGED <<loop, judgment, gate_decision>>
    /\ UNCHANGED worktree

\* An adapter, a subprocess or the sink raises, or the process dies.  The
\* checkpointer is in memory, so the session does not come back.
Abort ==
    /\ phase \in {"running", "interrupted"}
    /\ phase' = "raised"
    /\ UNCHANGED <<node, steps, channels, run, events, worktree>>

\* LangGraph stops a stream that has not ended within its recursion limit.
GraphRecursionError ==
    /\ phase = "running" /\ steps = StepLimit
    /\ phase' = "raised"
    /\ UNCHANGED <<node, steps, channels, run, events, worktree>>

Terminated == phase \in {"ended", "raised"} /\ UNCHANGED vars

GraphStep == \/ Recon \/ Coder \/ Adversary \/ Critic \/ Arbiter
             \/ GateInterrupt \/ RecordGate
             \/ RunnerApply \/ RunnerTest \/ RunnerRecord
             \/ GraphRecursionError

Next == \/ GraphStep
        \/ \E decision \in Decisions : Resume(decision)
        \/ Abort
        \/ Terminated

Spec == Init /\ [][Next]_vars

-----------------------------------------------------------------------------
(* Properties.                                                             *)

\* The channels keep their types, and the adversary its budget: the graph never
\* buys more attacks than MAX_ADVERSARY_ROUNDS.
TypeOK ==
    /\ phase \in {"running", "interrupted", "ended", "raised"}
    /\ node \in Nodes
    /\ steps \in 0 .. StepLimit
    /\ patch \in PatchType
    /\ attack \in Nat /\ critique \in Nat
    /\ coder_rounds \in Nat
    /\ adversary_rounds \in 0 .. MAX_ADVERSARY_ROUNDS
    /\ verdict \in Verdict \cup {""}
    /\ escalated \in BOOLEAN
    /\ gate_decision \in {"none", "approve", "reject"}
    /\ test_passed \in TestPassed
    /\ last_event_id \in Nat
    /\ run \in [apply : {"none", "applied", "rejected"}, test : TestPassed]
    /\ events \in Seq(AuditEvent)
    /\ worktree \in Seq(PatchType)

\* D7: the log of a thread is one chain, each event the child of the one written
\* before it, and a session that has not raised holds the chain's last id: no
\* node has recorded a transition that the state does not know of, or the
\* reverse.
ChainLinear ==
    /\ \A i \in DOMAIN events : events[i].parent = i - 1
    /\ phase # "raised" => last_event_id = Len(events)

\* Nothing reaches the worktree without a human's approve on record for that very
\* patch (the runner is irreversible and "runs only after the HITL gate
\* approves"), and no patch is applied twice.
ApplyOnlyApproved ==
    /\ \A i \in DOMAIN worktree : \E j \in DOMAIN events :
         events[j].node = "gate" /\ events[j].gate = "approve" /\ events[j].patch = worktree[i]
    /\ \A i, j \in DOMAIN worktree : i < j => worktree[i].round < worktree[j].round

\* The human is only asked about a patch the arbiter has just judged, with pass
\* or escalate, and with escalate whenever the patch touches a guard-railed path:
\* D5 is not lost on the way from the arbiter to the gate, however many rounds
\* and gates came before.
GateFollowsVerdict ==
    \A j \in DOMAIN events : events[j].node = "gate" =>
        /\ j > 1
        /\ events[j - 1].node = "arbiter"
        /\ events[j - 1].patch = events[j].patch
        /\ events[j - 1].verdict \in
             (IF events[j].patch.guarded THEN {"escalate"} ELSE {"pass", "escalate"})

\* The audit log and the worktree agree: every patch the log calls applied is in
\* the worktree, and every patch in the worktree has its runner event, save the
\* one a runner is working on or was working on when the session raised.
RunnerRecorded(p) ==
    \E j \in DOMAIN events :
        events[j].node = "runner" /\ events[j].apply = "applied" /\ events[j].patch = p

WorktreeRecorded ==
    /\ \A j \in DOMAIN events : events[j].apply = "applied" =>
         \E i \in DOMAIN worktree : worktree[i] = events[j].patch
    /\ \A i \in DOMAIN worktree :
         \/ RunnerRecorded(worktree[i])
         \/ i = Len(worktree) /\ node = "runner" /\ run.apply = "applied"

\* A session only ends for a reason its log shows: the budget ran out at the
\* arbiter, the human did not approve, the tests passed, or they did not and the
\* coder has no round left.
EndReason ==
    phase = "ended" =>
        LET final == events[Len(events)]
        IN  \/ final.node = "arbiter" /\ final.verdict = "budget_exhausted"
            \/ final.node = "gate" /\ final.gate = "reject"
            \/ final.node = "runner" /\ final.test = "passed"
            \/ final.node = "runner" /\ coder_rounds >= MAX_CODER_ROUNDS

\* The arbiter judges the current patch on a critique of that patch; its attack
\* is one on that patch too while the adversary has budget, and the last one
\* bought once it has none.  The budget is spent on the earliest patches.
JudgedOnOwnEvidence ==
    phase = "running" /\ node \in {"critic", "arbiter"} =>
        /\ attack = IF patch.round <= MAX_ADVERSARY_ROUNDS
                    THEN patch.round ELSE MAX_ADVERSARY_ROUNDS
        /\ node = "arbiter" => critique = patch.round

\* Past its budget the coder is only called again on a rubric_fail verdict.
OverrunOnlyByRubricFail ==
    \A j \in DOMAIN events :
        events[j].node = "coder" /\ events[j].patch.round > MAX_CODER_ROUNDS =>
            events[j - 1].node = "arbiter" /\ events[j - 1].verdict = "rubric_fail"

-----------------------------------------------------------------------------
(* Session implements GatedApply: an approval counts from its row on, and   *)
(* the grant lasts from there until git apply has run.                     *)

stage_of(ph, nd, locals) ==
    CASE ph \in {"ended", "raised"} -> "closed"
      [] ph = "interrupted" \/ (ph = "running" /\ nd = "record_gate") -> "asking"
      [] ph = "running" /\ nd = "runner" /\ locals = NotRun -> "granted"
      [] ph = "running" /\ nd \in {"adversary", "critic", "arbiter", "gate"} -> "open"
      [] OTHER -> "idle"

GateStage == stage_of(phase, node, run)

ApprovedPatches ==
    {events[j].patch : j \in {i \in DOMAIN events :
        events[i].node = "gate" /\ events[i].gate = "approve"}}

Gated == INSTANCE GatedApply
    WITH Draft <- PatchType, stage <- GateStage, draft <- patch,
         approved <- ApprovedPatches, applied <- worktree

\* The loop, its routing, its audit rows and its runner together are one way of
\* asking a human before an irreversible step.
ImplementsGatedApply == Gated!GSpec

=============================================================================
