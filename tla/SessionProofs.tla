--------------------------- MODULE SessionProofs ---------------------------
(***************************************************************************)
(* What holds of a session for every budget, every recursion limit, every  *)
(* set of arbiter outputs and whichever patches are guard-railed: that it   *)
(* keeps to its gate, and what its log tells about it.  None of the safety  *)
(* invariants of Session is inductive alone: each needs to know what the   *)
(* node that runs next can rely on.  Handover says it.                     *)
(***************************************************************************)
EXTENDS Zoo, Induction

Alive == phase \in {"running", "interrupted"}

\* The arbiter's verdict that may stand before a gate for patch p.
GateVerdicts(p) == IF p.guarded THEN {"escalate"} ELSE {"pass", "escalate"}

Approved(p) ==
    \E j \in DOMAIN events :
        events[j].node = "gate" /\ events[j].gate = "approve" /\ events[j].patch = p

\* The patch in the channel has not been tried yet.
Untried == \A i \in DOMAIN worktree : worktree[i].round < patch.round

\* What each node may rely on when control reaches it.
Handover ==
    /\ patch.round = coder_rounds
    /\ \A i \in DOMAIN worktree : worktree[i].round <= coder_rounds
    /\ Alive /\ node # "runner" => run = NotRun
    /\ Alive /\ run.apply = "none" => run = NotRun
    /\ Alive /\ node = "adversary" => adversary_rounds < MAX_ADVERSARY_ROUNDS
    /\ Alive /\ node \in {"adversary", "critic", "arbiter", "gate", "record_gate"} => Untried
    /\ phase = "interrupted" => node = "gate"
    /\ Alive /\ node \in {"gate", "record_gate"} =>
         /\ Len(events) > 0
         /\ events[Len(events)].node = "arbiter"
         /\ events[Len(events)].patch = patch
         /\ events[Len(events)].verdict \in GateVerdicts(patch)
    /\ Alive /\ node = "runner" => Approved(patch)
    /\ Alive /\ node = "runner" /\ run = NotRun => Untried

Inv == TypeOK /\ ChainLinear /\ Handover /\ ApplyOnlyApproved /\ GateFollowsVerdict

-----------------------------------------------------------------------------

\* The sets the routing functions range over.
LEMMA Routing ==
    /\ \A n \in Nat : route_from_coder(n) \in {"adversary", "critic"}
    /\ \A n \in Nat : route_from_coder(n) = "adversary" => n < MAX_ADVERSARY_ROUNDS
    /\ \A v \in Verdict : route_from_arbiter(v) \in {"gate", "coder", "END"}
    /\ \A v \in Verdict : route_from_arbiter(v) = "gate" => v \in {"pass", "escalate"}
    /\ \A d : route_from_record_gate(d) \in {"runner", "END"}
    /\ \A d : route_from_record_gate(d) = "runner" => d = "approve"
    /\ \A t, n : route_from_runner(t, n) \in {"coder", "END"}
  BY BudgetAssumption DEF route_from_coder, route_from_arbiter, route_from_record_gate,
                          route_from_runner, Verdict

\* The arbiter always decides, and a guard-railed patch is always escalated.
LEMMA Decided ==
    ASSUME NEW output \in ArbiterOutputs, NEW p \in PatchType, NEW rounds \in Nat
    PROVE  /\ decide_verdict(output, p, rounds) \in Verdict
           /\ p.guarded => decide_verdict(output, p, rounds) = "escalate"
  BY OutputAssumption DEF decide_verdict, _parse_verdict, escalation_hit, Verdict, PatchType

\* An event as the nodes build it is a row of the audit table.
LEMMA EventType ==
    ASSUME last_event_id \in Nat, NEW n \in Nodes, NEW p \in PatchType
    PROVE  Event(n, p) \in AuditEvent
  BY DEF Event, AuditEvent, TestPassed, Verdict

-----------------------------------------------------------------------------

\* A session lost on the way keeps its channels as they were.
LEMMA LostKeeps ==
    Lost => /\ phase' = "raised" /\ node' = node /\ steps' = steps
            /\ patch' = patch /\ attack' = attack /\ critique' = critique
            /\ coder_rounds' = coder_rounds /\ adversary_rounds' = adversary_rounds
            /\ verdict' = verdict /\ escalated' = escalated
            /\ gate_decision' = gate_decision /\ test_passed' = test_passed
            /\ last_event_id' = last_event_id /\ run' = run
  BY DEF Lost, channels, loop, judgment

\* Control stays among the nodes, and the step it took was within the limit.
LEMMA GotoType ==
    ASSUME NEW n \in Nodes, NEW m \in Nodes,
           steps \in 0 .. StepLimit, At(n), Goto(m)
    PROVE  /\ phase' \in {"running", "ended"}
           /\ node' \in Nodes
           /\ steps' \in 0 .. StepLimit
  BY BudgetAssumption DEF At, Goto

\* A step writes no row, or one row below the last event the state knows; only the
\* gate's recorder writes gate rows, and about the patch in the channel.
Quiet == events' = events /\ last_event_id' = last_event_id /\ (phase = "raised" => phase' = "raised")

Row(e) == /\ phase = "running"
          /\ events' = Append(events, e)
          /\ e.parent = last_event_id
          /\ phase' = "raised" \/ last_event_id' = NextEventId
          /\ e.node = "gate" => node = "record_gate" /\ e.patch = patch

\* A step leaves the log alone or writes one row, the child of the event the session
\* holds; and only record_gate writes gate rows.
LEMMA Rows == [Next]_vars => Quiet \/ \E e : Row(e)
<1> SUFFICES ASSUME [Next]_vars PROVE Quiet \/ \E e : Row(e)
  OBVIOUS
<1>1. CASE Coder
  <2> PICK guarded \in PatchGuarded :
             CoderProposes([round |-> coder_rounds + 1, guarded |-> guarded])
    BY <1>1 DEF Coder
  <2> Row(Event("coder", [round |-> coder_rounds + 1, guarded |-> guarded]))
    BY DEF Row, CoderProposes, write_ahead, Event, Lost, At
  <2> QED
    OBVIOUS
<1>2. CASE Adversary
  <2> Row(Event("adversary", patch))
    BY <1>2 DEF Row, Adversary, write_ahead, Event, Lost, At
  <2> QED
    OBVIOUS
<1>3. CASE Critic
  <2> Row(Event("critic", patch))
    BY <1>3 DEF Row, Critic, write_ahead, Event, Lost, At
  <2> QED
    OBVIOUS
<1>4. CASE Arbiter
  <2> PICK output \in ArbiterOutputs :
             ArbiterDecides(decide_verdict(output, patch, coder_rounds))
    BY <1>4 DEF Arbiter
  <2> DEFINE decided == decide_verdict(output, patch, coder_rounds)
  <2> Row([Event("arbiter", patch) EXCEPT !.verdict = decided])
    <3> HIDE DEF decided
    <3> QED
      BY DEF Row, ArbiterDecides, write_ahead, Event, Lost, At, decided
  <2> QED
    OBVIOUS
<1>5. CASE RecordGate
  <2> Row([Event("gate", patch) EXCEPT !.gate = gate_decision])
    BY <1>5 DEF Row, RecordGate, write_ahead, Event, Lost, At
  <2> QED
    OBVIOUS
<1>6. CASE RunnerRecord
  <2> Row(RunnerEvent)
    BY <1>6 DEF Row, RunnerRecord, RunnerEvent, write_ahead, Event, Lost, At
  <2> QED
    OBVIOUS
<1>7. ASSUME NEW decision \in Decisions, Resume(decision) PROVE Quiet
  BY <1>7 DEF Resume, Quiet
<1>8. CASE Recon \/ GateInterrupt \/ RunnerApply \/ RunnerTest
           \/ Abort \/ GraphRecursionError \/ UNCHANGED vars
  BY <1>8 DEF Recon, GateInterrupt, RunnerApply, RunnerTest, Abort, GraphRecursionError,
              At, vars, control, channels, Quiet
<1> QED
  BY <1>1, <1>2, <1>3, <1>4, <1>5, <1>6, <1>7, <1>8 DEF Next, GraphStep, Terminated

\* Every step keeps the channels' types and the adversary's budget.
LEMMA TypeStep == Inv /\ [Next]_vars => TypeOK'
<1> SUFFICES ASSUME Inv, [Next]_vars PROVE TypeOK'
  OBVIOUS
<1>a. TypeOK /\ Handover
  BY DEF Inv
<1>b. /\ steps \in 0 .. StepLimit /\ last_event_id \in Nat /\ patch \in PatchType
      /\ coder_rounds \in Nat /\ adversary_rounds \in 0 .. MAX_ADVERSARY_ROUNDS
      /\ events \in Seq(AuditEvent) /\ worktree \in Seq(PatchType)
      /\ gate_decision \in {"none", "approve", "reject"}
  BY <1>a DEF TypeOK
<1>c. /\ patch.round \in Nat
      /\ \A e \in AuditEvent : write_ahead(e) => /\ events' \in Seq(AuditEvent)
                                                 /\ NextEventId \in Nat
  <2>1. patch.round \in Nat
    BY <1>b DEF PatchType
  <2>2. ASSUME NEW e \in AuditEvent, write_ahead(e)
        PROVE  events' \in Seq(AuditEvent) /\ NextEventId \in Nat
    BY <1>b, <2>2 DEF write_ahead, NextEventId
  <2> QED
    BY <2>1, <2>2
<1>1. CASE Recon
  <2>1. "recon" \in Nodes /\ "coder" \in Nodes
    BY DEF Nodes
  <2> QED
    BY <1>1, <1>a, <1>b, <2>1, GotoType DEF TypeOK, Recon, channels, loop, judgment
<1>2. CASE Coder
  <2> PICK guarded \in PatchGuarded :
             CoderProposes([round |-> coder_rounds + 1, guarded |-> guarded])
    BY <1>2 DEF Coder
  <2> DEFINE new == [round |-> coder_rounds + 1, guarded |-> guarded]
  <2>a. coder_rounds + 1 \in Nat
    BY <1>b
  <2>b. guarded \in BOOLEAN
    BY OutputAssumption
  <2>1. new \in PatchType /\ new.round \in Nat
    BY <2>a, <2>b DEF PatchType
  <2>2. Event("coder", new) \in AuditEvent
    BY <1>b, <2>1, EventType DEF Nodes
  <2>3. route_from_coder(adversary_rounds) \in Nodes
    BY <1>b, Routing, BudgetAssumption DEF Nodes
  <2>4. events' \in Seq(AuditEvent) /\ NextEventId \in Nat
    BY <1>c, <2>2 DEF CoderProposes
  <2>5. "coder" \in Nodes
    BY DEF Nodes
  <2>6. CASE Lost
    BY <1>a, <2>4, <2>6, LostKeeps DEF CoderProposes, TypeOK
  <2>7. CASE ~Lost
    BY <1>a, <1>b, <2>1, <2>3, <2>4, <2>5, <2>7, GotoType DEF CoderProposes, judgment, TypeOK
  <2> QED
    BY <2>6, <2>7
<1>3. CASE Adversary
  <2>1. Event("adversary", patch) \in AuditEvent
    BY <1>b, EventType DEF Nodes
  <2>2. events' \in Seq(AuditEvent) /\ NextEventId \in Nat
    BY <1>3, <1>c, <2>1 DEF Adversary
  <2>3. "adversary" \in Nodes /\ "critic" \in Nodes
    BY DEF Nodes
  <2>4. adversary_rounds < MAX_ADVERSARY_ROUNDS
    BY <1>3, <1>a DEF Adversary, At, Handover, Alive
  <2>4a. adversary_rounds + 1 \in 0 .. MAX_ADVERSARY_ROUNDS
    BY <1>b, <2>4, BudgetAssumption
  <2>5. CASE Lost
    BY <1>3, <1>a, <2>2, <2>5, LostKeeps DEF Adversary, TypeOK
  <2>6. CASE ~Lost
    BY <1>3, <1>a, <1>b, <1>c, <2>2, <2>3, <2>4a, <2>6, GotoType DEF Adversary, judgment, TypeOK
  <2> QED
    BY <2>5, <2>6
<1>4. CASE Critic
  <2>1. Event("critic", patch) \in AuditEvent
    BY <1>b, EventType DEF Nodes
  <2>2. events' \in Seq(AuditEvent) /\ NextEventId \in Nat
    BY <1>4, <1>c, <2>1 DEF Critic
  <2>3. "critic" \in Nodes /\ "arbiter" \in Nodes
    BY DEF Nodes
  <2>4. CASE Lost
    BY <1>4, <1>a, <2>2, <2>4, LostKeeps DEF Critic, TypeOK
  <2>5. CASE ~Lost
    BY <1>4, <1>a, <1>b, <1>c, <2>2, <2>3, <2>5, GotoType DEF Critic, judgment, TypeOK
  <2> QED
    BY <2>4, <2>5
<1>5. CASE Arbiter
  <2> PICK output \in ArbiterOutputs :
             ArbiterDecides(decide_verdict(output, patch, coder_rounds))
    BY <1>5 DEF Arbiter
  <2> DEFINE decided == decide_verdict(output, patch, coder_rounds)
  <2>1. decided \in Verdict
    BY <1>b, Decided
  <2> HIDE DEF decided
  <2>2. [Event("arbiter", patch) EXCEPT !.verdict = decided] \in AuditEvent
    <3>1. Event("arbiter", patch) \in AuditEvent
      BY <1>b, EventType DEF Nodes
    <3> QED
      BY <2>1, <3>1 DEF AuditEvent
  <2>3. events' \in Seq(AuditEvent) /\ NextEventId \in Nat
    BY <1>c, <2>2 DEF ArbiterDecides, decided
  <2>4. "arbiter" \in Nodes /\ route_from_arbiter(decided) \in Nodes
    BY <2>1, Routing DEF Nodes
  <2>5. escalation_hit(patch) \in BOOLEAN
    BY <1>b DEF escalation_hit, PatchType
  <2>6. CASE Lost
    BY <1>a, <2>3, <2>6, LostKeeps DEF ArbiterDecides, TypeOK
  <2>7. CASE ~Lost
    BY <1>a, <1>b, <2>1, <2>3, <2>4, <2>5, <2>7, GotoType DEF ArbiterDecides, decided, loop, TypeOK
  <2> QED
    BY <2>6, <2>7
<1>6. CASE GateInterrupt
  BY <1>6, <1>a DEF GateInterrupt, TypeOK, channels, loop, judgment
<1>7. ASSUME NEW decision \in Decisions, Resume(decision) PROVE TypeOK'
  <2>1. normalize(decision) \in {"approve", "reject"} /\ "record_gate" \in Nodes
    BY DEF normalize, Nodes
  <2>2. 1 \in 0 .. StepLimit
    BY BudgetAssumption
  <2> QED
    BY <1>7, <1>a, <2>1, <2>2 DEF Resume, TypeOK, loop, judgment
<1>8. CASE RecordGate
  <2>1. [Event("gate", patch) EXCEPT !.gate = gate_decision] \in AuditEvent
    <3>1. Event("gate", patch) \in AuditEvent
      BY <1>b, EventType DEF Nodes
    <3> QED
      BY <1>b, <3>1 DEF AuditEvent
  <2>2. events' \in Seq(AuditEvent) /\ NextEventId \in Nat
    BY <1>8, <1>c, <2>1 DEF RecordGate
  <2>3. "record_gate" \in Nodes /\ route_from_record_gate(gate_decision) \in Nodes
    BY Routing DEF Nodes
  <2>4. CASE Lost
    BY <1>8, <1>a, <2>2, <2>4, LostKeeps DEF RecordGate, TypeOK
  <2>5. CASE ~Lost
    BY <1>8, <1>a, <1>b, <2>2, <2>3, <2>5, GotoType DEF RecordGate, loop, judgment, TypeOK
  <2> QED
    BY <2>4, <2>5
<1>9. CASE RunnerApply
  <2>1. run' \in [apply : {"none", "applied", "rejected"}, test : TestPassed]
    BY <1>9 DEF RunnerApply, NotRun, TestPassed
  <2>2. worktree' \in Seq(PatchType)
    BY <1>9, <1>b DEF RunnerApply
  <2> QED
    BY <1>9, <1>a, <2>1, <2>2 DEF RunnerApply, TypeOK, control, channels, loop, judgment
<1>10. CASE RunnerTest
  <2>1. run' \in [apply : {"none", "applied", "rejected"}, test : TestPassed]
    BY <1>10 DEF RunnerTest, TestPassed
  <2> QED
    BY <1>10, <1>a, <2>1 DEF RunnerTest, TypeOK, control, channels, loop, judgment
<1>11. CASE RunnerRecord
  <2>a. /\ run.apply \in {"none", "applied", "rejected"} /\ run.test \in TestPassed
        /\ NotRun \in [apply : {"none", "applied", "rejected"}, test : TestPassed]
    BY <1>a DEF TypeOK, NotRun, TestPassed
  <2>1. RunnerEvent \in AuditEvent
    <3>1. Event("runner", patch) \in AuditEvent
      BY <1>b, EventType DEF Nodes
    <3> QED
      BY <1>b, <2>a, <3>1 DEF RunnerEvent, AuditEvent
  <2>2. events' \in Seq(AuditEvent) /\ NextEventId \in Nat
    BY <1>11, <1>c, <2>1 DEF RunnerRecord
  <2>3. "runner" \in Nodes /\ route_from_runner(run.test, coder_rounds) \in Nodes
    BY Routing DEF Nodes
  <2>4. CASE Lost
    BY <1>11, <1>a, <2>2, <2>4, LostKeeps DEF RunnerRecord, TypeOK
  <2>5. CASE ~Lost
    BY <1>11, <1>a, <1>b, <2>a, <2>2, <2>3, <2>5, GotoType
       DEF RunnerRecord, loop, judgment, TypeOK
  <2> QED
    BY <2>4, <2>5
<1>12. CASE Abort \/ GraphRecursionError
  BY <1>12, <1>a DEF Abort, GraphRecursionError, TypeOK, channels, loop, judgment
<1>13. CASE UNCHANGED vars
  BY <1>13, <1>a DEF vars, TypeOK, control, channels, loop, judgment
<1> QED
  BY <1>1, <1>2, <1>3, <1>4, <1>5, <1>6, <1>7, <1>8, <1>9, <1>10, <1>11, <1>12, <1>13
     DEF Next, GraphStep, Terminated

\* Every step keeps the log one chain.
LEMMA ChainStep == Inv /\ [Next]_vars => ChainLinear'
<1> SUFFICES ASSUME Inv, [Next]_vars PROVE ChainLinear'
  OBVIOUS
<1>1. ChainLinear /\ events \in Seq(AuditEvent)
  BY DEF Inv, TypeOK
<1>2. CASE Quiet
  BY <1>1, <1>2 DEF ChainLinear, Quiet
<1>3. ASSUME NEW e, Row(e) PROVE ChainLinear'
  <2>1. e.parent = Len(events)
    BY <1>1, <1>3 DEF ChainLinear, Row
  <2>2. \A i \in DOMAIN events' : events'[i].parent = i - 1
    BY <1>1, <1>3, <2>1 DEF ChainLinear, Row
  <2>3. phase' # "raised" => last_event_id' = Len(events')
    BY <1>1, <1>3 DEF Row, NextEventId
  <2> QED
    BY <2>2, <2>3 DEF ChainLinear
<1> QED
  BY <1>2, <1>3, Rows

\* A gate row is always written right under the arbiter's row on the same patch.
LEMMA GateStep == Inv /\ [Next]_vars => GateFollowsVerdict'
<1> SUFFICES ASSUME Inv, [Next]_vars PROVE GateFollowsVerdict'
  OBVIOUS
<1>1. GateFollowsVerdict /\ Handover /\ events \in Seq(AuditEvent)
  BY DEF Inv, TypeOK
<1>2. CASE Quiet
  BY <1>1, <1>2 DEF GateFollowsVerdict, Quiet
<1>3. ASSUME NEW e, Row(e) PROVE GateFollowsVerdict'
  <2>1. e.node = "gate" =>
          /\ Len(events) > 0
          /\ events[Len(events)].node = "arbiter"
          /\ events[Len(events)].patch = e.patch
          /\ events[Len(events)].verdict \in GateVerdicts(e.patch)
    BY <1>1, <1>3 DEF Handover, Alive, Row
  <2>2. /\ DOMAIN events' = 1 .. Len(events) + 1
        /\ events'[Len(events) + 1] = e
        /\ \A j \in 1 .. Len(events) : events'[j] = events[j]
    BY <1>1, <1>3 DEF Row
  <2> SUFFICES ASSUME NEW j \in DOMAIN events', events'[j].node = "gate"
               PROVE  /\ j > 1
                      /\ events'[j - 1].node = "arbiter"
                      /\ events'[j - 1].patch = events'[j].patch
                      /\ events'[j - 1].verdict \in GateVerdicts(events'[j].patch)
    BY DEF GateFollowsVerdict, GateVerdicts
  <2>3. CASE j = Len(events) + 1
    BY <1>1, <2>1, <2>2, <2>3
  <2>4. CASE j \in 1 .. Len(events)
    BY <1>1, <2>2, <2>4 DEF GateFollowsVerdict, GateVerdicts
  <2> QED
    BY <1>1, <2>2, <2>3, <2>4
<1> QED
  BY <1>2, <1>3, Rows

\* An approval, once on record, stays there.
LEMMA ApprovedStays ==
    ASSUME TypeOK, [Next]_vars, NEW p, Approved(p)
    PROVE  Approved(p)'
<1>1. events \in Seq(AuditEvent)
  BY DEF TypeOK
<1>2. CASE Quiet
  BY <1>2 DEF Quiet, Approved
<1>3. ASSUME NEW e, Row(e) PROVE Approved(p)'
  BY <1>1, <1>3 DEF Row, Approved
<1> QED
  BY <1>2, <1>3, Rows

\* Only the runner touches the worktree, and it appends the patch in the channel.
LEMMA WorktreeSteps ==
    [Next]_vars => \/ worktree' = worktree
                   \/ RunnerApply /\ worktree' = Append(worktree, patch)
  BY DEF Next, GraphStep, Recon, Coder, CoderProposes, Adversary, Critic, Arbiter,
         ArbiterDecides, GateInterrupt, Resume, RecordGate, RunnerApply, RunnerTest,
         RunnerRecord, Abort, GraphRecursionError, Terminated, vars

\* git apply only ever adds a patch that is approved and newer than all applied ones.
LEMMA ApplyStep == Inv /\ [Next]_vars => ApplyOnlyApproved'
<1> SUFFICES ASSUME Inv, [Next]_vars PROVE ApplyOnlyApproved'
  OBVIOUS
<1>1. /\ TypeOK /\ Handover /\ ApplyOnlyApproved
      /\ worktree \in Seq(PatchType)
  BY DEF Inv, TypeOK
<1>2. \A i \in DOMAIN worktree : Approved(worktree[i])
  BY <1>1 DEF ApplyOnlyApproved, Approved
<1>3. CASE worktree' = worktree
  <2>1. \A i \in DOMAIN worktree' : Approved(worktree[i])'
    BY <1>1, <1>2, <1>3, ApprovedStays
  <2> QED
    BY <1>1, <1>3, <2>1 DEF ApplyOnlyApproved, Approved
<1>4. CASE RunnerApply /\ worktree' = Append(worktree, patch)
  <2>1. Approved(patch) /\ Untried
    BY <1>1, <1>4 DEF RunnerApply, At, Handover, Alive
  <2>2. events' = events
    BY <1>4 DEF RunnerApply
  <2>3. /\ DOMAIN worktree' = 1 .. Len(worktree) + 1
        /\ worktree'[Len(worktree) + 1] = patch
        /\ \A i \in 1 .. Len(worktree) : worktree'[i] = worktree[i]
    BY <1>1, <1>4
  <2>4. \A i \in DOMAIN worktree' : Approved(worktree'[i])
    BY <1>1, <1>2, <2>1, <2>3
  <2>5. \A i, j \in DOMAIN worktree' : i < j => worktree'[i].round < worktree'[j].round
    BY <1>1, <2>1, <2>3 DEF Untried, ApplyOnlyApproved
  <2> QED
    BY <2>2, <2>4, <2>5 DEF ApplyOnlyApproved, Approved
<1> QED
  BY <1>3, <1>4, WorktreeSteps

\* A session that stops hands over nothing.
LEMMA HandoverStops ==
    ASSUME Handover, ~Alive', patch' = patch, coder_rounds' = coder_rounds, worktree' = worktree
    PROVE  Handover'
  BY DEF Handover, Alive

\* Each node leaves the next one what that one relies on.
LEMMA HandoverStep == Inv /\ [Next]_vars => Handover'
<1> SUFFICES ASSUME Inv, [Next]_vars PROVE Handover'
  OBVIOUS
<1>a. /\ TypeOK /\ Handover
      /\ events \in Seq(AuditEvent) /\ worktree \in Seq(PatchType)
      /\ coder_rounds \in Nat /\ patch \in PatchType
  BY DEF Inv, TypeOK
<1>c. /\ adversary_rounds \in Nat
      /\ patch.round = coder_rounds
      /\ \A i \in DOMAIN worktree : worktree[i].round \in Nat /\ worktree[i].round <= coder_rounds
  <2>1. adversary_rounds \in 0 .. MAX_ADVERSARY_ROUNDS
    BY <1>a DEF TypeOK
  <2>2. \A i \in DOMAIN worktree : worktree[i] \in PatchType
    BY <1>a
  <2>3. \A p \in PatchType : p.round \in Nat
    BY DEF PatchType
  <2> QED
    BY <1>a, <2>1, <2>2, <2>3, BudgetAssumption DEF Handover
<1>b. Lost /\ worktree' = worktree => Handover'
  BY <1>a, LostKeeps, HandoverStops DEF Alive
<1>1. CASE Recon
  BY <1>1, <1>a DEF Recon, At, Goto, channels, loop, Handover, Alive
<1>2. CASE Coder
  <2> PICK guarded \in PatchGuarded :
             CoderProposes([round |-> coder_rounds + 1, guarded |-> guarded])
    BY <1>2 DEF Coder
  <2>1. CASE Lost
    BY <1>b, <2>1 DEF CoderProposes
  <2>2. CASE ~Lost
    <3>1. /\ patch'.round = coder_rounds + 1 /\ coder_rounds' = coder_rounds + 1
          /\ worktree' = worktree /\ run' = run /\ run = NotRun
          /\ node' = route_from_coder(adversary_rounds) /\ phase' # "interrupted"
          /\ adversary_rounds' = adversary_rounds
      BY <1>a, <2>2 DEF CoderProposes, Goto, At, Handover, Alive
    <3>2. Untried'
      BY <1>a, <1>c, <3>1 DEF Untried
    <3>3. /\ node' \in {"adversary", "critic"}
          /\ node' = "adversary" => adversary_rounds < MAX_ADVERSARY_ROUNDS
      BY <1>c, <3>1, Routing
    <3>4. \A i \in DOMAIN worktree' : worktree'[i].round <= coder_rounds'
      BY <1>a, <1>c, <3>1
    <3> QED
      BY <3>1, <3>2, <3>3, <3>4 DEF Handover
  <2> QED
    BY <2>1, <2>2
<1>3. CASE Adversary
  <2>1. CASE Lost
    BY <1>3, <1>b, <2>1 DEF Adversary
  <2>2. CASE ~Lost
    BY <1>3, <1>a, <2>2 DEF Adversary, At, Goto, judgment, Handover, Alive, Untried
  <2> QED
    BY <2>1, <2>2
<1>4. CASE Critic
  <2>1. CASE Lost
    BY <1>4, <1>b, <2>1 DEF Critic
  <2>2. CASE ~Lost
    BY <1>4, <1>a, <2>2 DEF Critic, At, Goto, judgment, Handover, Alive, Untried
  <2> QED
    BY <2>1, <2>2
<1>5. CASE Arbiter
  <2> PICK output \in ArbiterOutputs :
             ArbiterDecides(decide_verdict(output, patch, coder_rounds))
    BY <1>5 DEF Arbiter
  <2> DEFINE decided == decide_verdict(output, patch, coder_rounds)
             row     == [Event("arbiter", patch) EXCEPT !.verdict = decided]
  <2>1. CASE Lost
    BY <1>b, <2>1 DEF ArbiterDecides
  <2>2. CASE ~Lost
    <3>1. decided \in Verdict /\ (patch.guarded => decided = "escalate")
      BY <1>a, Decided
    <3> HIDE DEF decided
    <3>2. /\ row.node = "arbiter" /\ row.patch = patch /\ row.verdict = decided
      BY DEF Event
    <3>3. /\ node' = route_from_arbiter(decided) /\ phase' # "interrupted"
          /\ run' = run /\ run = NotRun /\ worktree' = worktree
          /\ patch' = patch /\ coder_rounds' = coder_rounds
          /\ events' = Append(events, row)
          /\ Untried
      BY <1>a, <2>2 DEF ArbiterDecides, decided, write_ahead, At, Goto, loop, Handover, Alive
    <3>4. /\ node' \in {"gate", "coder", "END"}
          /\ node' = "gate" => decided \in GateVerdicts(patch)
      BY <3>1, <3>3, Routing DEF GateVerdicts
    <3>5. Len(events') > 0 /\ events'[Len(events')] = row
      BY <1>a, <3>3
    <3> HIDE DEF row
    <3>6. Untried'
      BY <3>3 DEF Untried
    <3> QED
      BY <1>a, <3>2, <3>3, <3>4, <3>5, <3>6 DEF Handover
  <2> QED
    BY <2>1, <2>2
<1>6. CASE GateInterrupt
  BY <1>6, <1>a DEF GateInterrupt, At, channels, loop, Handover, Alive, Untried
<1>7. ASSUME NEW decision \in Decisions, Resume(decision) PROVE Handover'
  BY <1>7, <1>a DEF Resume, loop, Handover, Alive, Untried
<1>8. CASE RecordGate
  <2>1. CASE Lost
    BY <1>8, <1>b, <2>1 DEF RecordGate
  <2>2. CASE ~Lost
    <3> DEFINE row == [Event("gate", patch) EXCEPT !.gate = gate_decision]
    <3>1. row.node = "gate" /\ row.patch = patch /\ row.gate = gate_decision
      BY DEF Event
    <3>2. /\ node' = route_from_record_gate(gate_decision) /\ phase' # "interrupted"
          /\ run' = run /\ run = NotRun /\ worktree' = worktree
          /\ patch' = patch /\ coder_rounds' = coder_rounds
          /\ events' = Append(events, row)
          /\ Untried
      BY <1>8, <1>a, <2>2 DEF RecordGate, write_ahead, At, Goto, loop, Handover, Alive
    <3> HIDE DEF row
    <3>3. node' \in {"runner", "END"} /\ (node' = "runner" => gate_decision = "approve")
      BY <3>2, Routing
    <3>4. events'[Len(events) + 1] = row /\ Len(events) + 1 \in DOMAIN events'
      BY <1>a, <3>2
    <3>5. node' = "runner" => Approved(patch)'
      BY <3>1, <3>2, <3>3, <3>4 DEF Approved
    <3>6. Untried'
      BY <3>2 DEF Untried
    <3> QED
      BY <1>a, <3>2, <3>3, <3>5, <3>6 DEF Handover
  <2> QED
    BY <2>1, <2>2
<1>9. CASE RunnerApply
  <2>1. /\ phase' = "running" /\ node' = "runner" /\ patch' = patch
        /\ coder_rounds' = coder_rounds /\ events' = events /\ run'.apply # "none"
        /\ Approved(patch)
    BY <1>9, <1>a DEF RunnerApply, At, NotRun, control, channels, loop, Handover, Alive
  <2>2. \A i \in DOMAIN worktree' : worktree'[i].round <= coder_rounds
    <3>1. CASE worktree' = worktree
      BY <1>c, <3>1
    <3>2. CASE worktree' = Append(worktree, patch)
      <4>1. \A i \in DOMAIN worktree' :
              (i \in DOMAIN worktree /\ worktree'[i] = worktree[i]) \/ worktree'[i] = patch
        BY <1>a, <3>2
      <4> QED
        BY <1>a, <1>c, <4>1
    <3> QED
      BY <1>9, <3>1, <3>2 DEF RunnerApply
  <2>3. Approved(patch)'
    BY <2>1 DEF Approved
  <2>4. patch.round = coder_rounds /\ run' # NotRun
    BY <1>a, <2>1 DEF Handover, NotRun
  <2> QED
    BY <2>1, <2>2, <2>3, <2>4 DEF Handover
<1>10. CASE RunnerTest
  <2>1. /\ phase' = "running" /\ node' = "runner" /\ patch' = patch
        /\ coder_rounds' = coder_rounds /\ events' = events /\ worktree' = worktree
        /\ run'.apply = "applied" /\ Approved(patch)
    BY <1>10, <1>a DEF RunnerTest, At, control, channels, loop, Handover, Alive
  <2>2. Approved(patch)' /\ run' # NotRun
    BY <2>1 DEF Approved, NotRun
  <2> QED
    BY <1>a, <2>1, <2>2 DEF Handover
<1>11. CASE RunnerRecord
  <2>1. CASE Lost
    BY <1>11, <1>b, <2>1 DEF RunnerRecord
  <2>2. CASE ~Lost
    <3>1. node' \in {"coder", "END"}
      BY <1>11, <2>2, Routing DEF RunnerRecord, Goto
    <3> QED
      BY <1>11, <1>a, <2>2, <3>1 DEF RunnerRecord, Goto, loop, Handover
  <2> QED
    BY <2>1, <2>2
<1>12. CASE Abort \/ GraphRecursionError
  BY <1>12, <1>a, HandoverStops DEF Abort, GraphRecursionError, channels, loop, Alive
<1>13. CASE UNCHANGED vars
  BY <1>13, <1>a DEF vars, control, channels, loop, Handover, Alive, Untried, Approved
<1> QED
  BY <1>1, <1>2, <1>3, <1>4, <1>5, <1>6, <1>7, <1>8, <1>9, <1>10, <1>11, <1>12, <1>13
     DEF Next, GraphStep, Terminated

-----------------------------------------------------------------------------

\* A session as run_session starts it satisfies the invariant.
LEMMA InitInv == Init => Inv
<1> SUFFICES ASSUME Init PROVE Inv
  OBVIOUS
<1>a. /\ phase = "running" /\ node = "recon" /\ steps = 0 /\ run = NotRun
      /\ patch = NoPatch /\ coder_rounds = 0 /\ adversary_rounds = 0
      /\ last_event_id = 0 /\ events = <<>> /\ worktree = <<>>
  BY DEF Init
<1>1. TypeOK
  <2>1. steps \in 0 .. StepLimit /\ adversary_rounds \in 0 .. MAX_ADVERSARY_ROUNDS
    BY <1>a, BudgetAssumption
  <2>2. patch \in PatchType /\ escalated \in BOOLEAN
    BY DEF Init, PatchType, NoPatch
  <2>3. events \in Seq(AuditEvent) /\ worktree \in Seq(PatchType)
    BY <1>a
  <2>4. run \in [apply : {"none", "applied", "rejected"}, test : TestPassed]
    BY DEF Init, NotRun, TestPassed
  <2> QED
    BY <2>1, <2>2, <2>3, <2>4 DEF Init, TypeOK, Nodes, TestPassed
<1>2. ChainLinear /\ ApplyOnlyApproved /\ GateFollowsVerdict
  BY <1>a DEF ChainLinear, ApplyOnlyApproved, GateFollowsVerdict
<1>3. Handover
  <2>1. DOMAIN worktree = {} /\ patch.round = coder_rounds /\ run = NotRun
        /\ phase = "running" /\ node = "recon"
    BY <1>a DEF NoPatch
  <2> QED
    BY <2>1 DEF Handover
<1> QED
  BY <1>1, <1>2, <1>3 DEF Inv

\* The inductive invariant: types, the chain, the gate, and what the nodes hand over.
THEOREM Invariance == Spec => []Inv
<1>1. Inv /\ [Next]_vars => Inv'
  BY TypeStep, ChainStep, HandoverStep, ApplyStep, GateStep DEF Inv
<1> QED
  BY <1>1, InitInv, PTL DEF Spec

\* The channels of a session keep their types and the adversary its budget.
THEOREM TypeCorrect == Spec => []TypeOK
<1>1. Inv => TypeOK
  BY DEF Inv
<1> QED
  BY <1>1, Invariance, PTL

\* write_ahead and the id that each node hands on keep the log of a thread one
\* chain, whatever raises or crashes.
THEOREM OneChain == Spec => []ChainLinear
<1>1. Inv => ChainLinear
  BY DEF Inv
<1> QED
  BY <1>1, Invariance, PTL

\* No patch is applied without its own approval on record, nor twice.
THEOREM GateHolds == Spec => []ApplyOnlyApproved
<1>1. Inv => ApplyOnlyApproved
  BY DEF Inv
<1> QED
  BY <1>1, Invariance, PTL

\* The human is asked about the patch the arbiter judged, with escalate on record
\* for every guard-railed one.
THEOREM EscalationReachesGate == Spec => []GateFollowsVerdict
<1>1. Inv => GateFollowsVerdict
  BY DEF Inv
<1> QED
  BY <1>1, Invariance, PTL

-----------------------------------------------------------------------------
(* What the log of a session tells: why it ended, what the arbiter judged on, why the *)
(* coder was called past its budget, what is in the worktree, and what the zoo reads.  *)

\* The attacks bought by the time of coder round n.
Bought(n) == IF n <= MAX_ADVERSARY_ROUNDS THEN n ELSE MAX_ADVERSARY_ROUNDS

\* The adversary has attacked each patch as long as its budget lasted, the current one
\* included once control is past it.
Evidence ==
    /\ attack = adversary_rounds
    /\ Alive /\ node = "adversary" => attack = coder_rounds - 1
    /\ Alive /\ node # "adversary" => attack = Bought(coder_rounds)
    /\ Alive /\ node = "arbiter" => critique = coder_rounds

\* Control comes to the coder out of budget from the arbiter alone.
Overrun ==
    /\ Alive /\ node = "recon" => coder_rounds = 0
    /\ Alive /\ node = "coder" /\ coder_rounds >= MAX_CODER_ROUNDS =>
         /\ Len(events) > 0
         /\ events[Len(events)].node = "arbiter"
         /\ events[Len(events)].verdict = "rubric_fail"
    /\ \A j \in DOMAIN events :
         events[j].node = "coder" /\ events[j].patch.round > MAX_CODER_ROUNDS =>
             j > 1 /\ events[j - 1].node = "arbiter" /\ events[j - 1].verdict = "rubric_fail"

\* The gate has answered when its answer is recorded.
Ending ==
    /\ Alive /\ node = "record_gate" => gate_decision \in {"approve", "reject"}
    /\ EndReason

\* What a runner has applied is the last patch in the worktree, and not on record yet.
Applying ==
    /\ run.apply = "applied" =>
         node = "runner" /\ Len(worktree) > 0 /\ worktree[Len(worktree)] = patch
    /\ WorktreeRecorded

LogInv == Evidence /\ Overrun /\ Ending /\ Applying

-----------------------------------------------------------------------------

\* The routing and the parser, as far as the log depends on them.
LEMMA Destinations ==
    /\ \A n \in Nat : route_from_coder(n) \in {"adversary", "critic"}
    /\ \A n \in Nat : route_from_coder(n) = "adversary" <=> n < MAX_ADVERSARY_ROUNDS
    /\ \A v \in Verdict : route_from_arbiter(v) = "END" => v = "budget_exhausted"
    /\ \A v \in Verdict : route_from_arbiter(v) \in {"gate", "coder", "END"}
    /\ \A v \in Verdict : route_from_arbiter(v) = "coder" =>
                            v \in {"patch_fix", "rubric_fail", "replan", "minor_fix"}
    /\ \A d : route_from_record_gate(d) = "END" => d # "approve"
    /\ \A d : route_from_record_gate(d) \in {"runner", "END"}
    /\ \A t, n : route_from_runner(t, n) \in {"coder", "END"}
    /\ \A t, n : route_from_runner(t, n) = "coder" => n < MAX_CODER_ROUNDS
    /\ \A t : \A n \in Nat : route_from_runner(t, n) = "END"
                             => t = "passed" \/ n >= MAX_CODER_ROUNDS
  BY BudgetAssumption DEF route_from_coder, route_from_arbiter, route_from_record_gate,
                          route_from_runner, Verdict

\* Past the budget, only a rubric_fail goes back to the coder.
LEMMA PastBudget ==
    ASSUME NEW output \in ArbiterOutputs, NEW p \in PatchType, NEW rounds \in Nat,
           rounds >= MAX_CODER_ROUNDS,
           decide_verdict(output, p, rounds) \in {"patch_fix", "rubric_fail", "replan", "minor_fix"}
    PROVE  decide_verdict(output, p, rounds) = "rubric_fail"
  BY OutputAssumption DEF decide_verdict, _parse_verdict, escalation_hit, Verdict, PatchType

\* The row a step has written is the last one, and the others stay.
LEMMA Written ==
    ASSUME TypeOK, NEW e, write_ahead(e)
    PROVE  /\ Len(events) \in Nat /\ Len(events') = Len(events) + 1
           /\ DOMAIN events = 1 .. Len(events) /\ DOMAIN events' = 1 .. Len(events) + 1
           /\ events'[Len(events) + 1] = e
           /\ \A j \in DOMAIN events : events'[j] = events[j]
<1>1. events \in Seq(AuditEvent) /\ events' = Append(events, e)
  BY DEF TypeOK, write_ahead
<1> QED
  BY <1>1

-----------------------------------------------------------------------------

\* The numbers the invariant is about.
LEMMA Counters ==
    ASSUME Inv
    PROVE  /\ coder_rounds \in Nat /\ attack \in Nat /\ adversary_rounds \in Nat
           /\ adversary_rounds <= MAX_ADVERSARY_ROUNDS /\ MAX_ADVERSARY_ROUNDS \in Nat
           /\ MAX_CODER_ROUNDS \in Nat \ {0} /\ patch.round = coder_rounds
<1>1. coder_rounds \in Nat /\ attack \in Nat /\ adversary_rounds \in 0 .. MAX_ADVERSARY_ROUNDS
  BY DEF Inv, TypeOK
<1>2. patch.round = coder_rounds
  BY DEF Inv, Handover
<1> QED
  BY <1>1, <1>2, BudgetAssumption

LEMMA EvidenceStep == Inv /\ Evidence /\ [Next]_vars => Evidence'
<1> SUFFICES ASSUME Inv, Evidence, [Next]_vars PROVE Evidence'
  OBVIOUS
<1>a. /\ coder_rounds \in Nat /\ adversary_rounds \in Nat /\ attack \in Nat
      /\ MAX_ADVERSARY_ROUNDS \in Nat /\ patch.round = coder_rounds
      /\ adversary_rounds <= MAX_ADVERSARY_ROUNDS
  BY Counters
<1>b. Lost => Evidence'
  BY LostKeeps DEF Evidence, Alive
<1>1. CASE Recon
  BY <1>1 DEF Recon, At, Goto, channels, loop, Evidence, Alive
<1>2. ASSUME NEW guarded \in PatchGuarded,
             CoderProposes([round |-> coder_rounds + 1, guarded |-> guarded]), ~Lost
      PROVE  Evidence'
  <2>1. /\ coder_rounds' = coder_rounds + 1 /\ attack' = attack
        /\ adversary_rounds' = adversary_rounds /\ Alive /\ node = "coder"
        /\ node' = route_from_coder(adversary_rounds)
    BY <1>2 DEF CoderProposes, At, Goto, Alive
  <2>2. attack = Bought(coder_rounds) /\ attack = adversary_rounds
    BY <2>1 DEF Evidence
  <2>3. CASE adversary_rounds < MAX_ADVERSARY_ROUNDS
    <3>1. node' = "adversary" /\ attack = coder_rounds
      BY <1>a, <2>1, <2>2, <2>3, Destinations DEF Bought
    <3> QED
      BY <1>a, <2>1, <2>2, <3>1 DEF Evidence
  <2>4. CASE adversary_rounds = MAX_ADVERSARY_ROUNDS
    <3>1. node' = "critic" /\ MAX_ADVERSARY_ROUNDS <= coder_rounds
      BY <1>a, <2>1, <2>2, <2>4, Destinations DEF Bought
    <3> QED
      BY <1>a, <2>1, <2>2, <2>4, <3>1 DEF Evidence, Bought
  <2> QED
    BY <1>a, <2>3, <2>4
<1>3. CASE Adversary /\ ~Lost
  <2>1. /\ attack' = coder_rounds /\ adversary_rounds' = adversary_rounds + 1
        /\ coder_rounds' = coder_rounds /\ node' = "critic" /\ Alive /\ node = "adversary"
    BY <1>3, <1>a DEF Adversary, At, Goto, Alive
  <2>2. adversary_rounds = coder_rounds - 1 /\ adversary_rounds < MAX_ADVERSARY_ROUNDS
    BY <2>1 DEF Evidence, Inv, Handover
  <2> QED
    BY <1>a, <2>1, <2>2 DEF Evidence, Bought
<1>4. CASE Critic /\ ~Lost
  BY <1>4, <1>a DEF Critic, At, Goto, judgment, Evidence, Alive
<1>5. ASSUME NEW output \in ArbiterOutputs,
             ArbiterDecides(decide_verdict(output, patch, coder_rounds)), ~Lost
      PROVE  Evidence'
  <2>1. decide_verdict(output, patch, coder_rounds) \in Verdict
    BY Decided DEF Inv, TypeOK
  <2>2. node' \in {"gate", "coder", "END"}
    BY <1>5, <2>1, Destinations DEF ArbiterDecides, Goto
  <2> QED
    BY <1>5, <2>2 DEF ArbiterDecides, At, loop, Evidence, Alive
<1>6. CASE GateInterrupt
  BY <1>6 DEF GateInterrupt, At, channels, loop, Evidence, Alive
<1>7. ASSUME NEW decision \in Decisions, Resume(decision) PROVE Evidence'
  BY <1>7 DEF Resume, loop, Evidence, Alive, Inv, Handover
<1>8. CASE RecordGate /\ ~Lost
  <2>1. node' \in {"runner", "END"}
    BY <1>8, Destinations DEF RecordGate, Goto
  <2> QED
    BY <1>8, <2>1 DEF RecordGate, At, loop, Evidence, Alive
<1>9. CASE RunnerApply \/ RunnerTest
  BY <1>9 DEF RunnerApply, RunnerTest, control, channels, loop, Evidence, Alive
<1>10. CASE RunnerRecord /\ ~Lost
  <2>1. node' \in {"coder", "END"}
    BY <1>10, Destinations DEF RunnerRecord, Goto
  <2> QED
    BY <1>10, <2>1 DEF RunnerRecord, At, loop, Evidence, Alive
<1>11. CASE Abort \/ GraphRecursionError
  BY <1>11 DEF Abort, GraphRecursionError, channels, loop, Evidence, Alive
<1>12. CASE UNCHANGED vars
  BY <1>12 DEF vars, control, channels, loop, Evidence, Alive
<1> QED
  BY <1>b, <1>1, <1>2, <1>3, <1>4, <1>5, <1>6, <1>7, <1>8, <1>9, <1>10, <1>11, <1>12
     DEF Next, GraphStep, Terminated, Coder, Arbiter

\* A row that is not the coder's, or the coder's with the right to it, keeps the promise.
LEMMA OverrunRow ==
    ASSUME TypeOK, Overrun, NEW e, write_ahead(e),
           e.node = "coder" /\ e.patch.round > MAX_CODER_ROUNDS =>
             /\ Len(events) > 0
             /\ events[Len(events)].node = "arbiter"
             /\ events[Len(events)].verdict = "rubric_fail"
    PROVE  \A j \in DOMAIN events' :
             events'[j].node = "coder" /\ events'[j].patch.round > MAX_CODER_ROUNDS =>
               j > 1 /\ events'[j - 1].node = "arbiter" /\ events'[j - 1].verdict = "rubric_fail"
<1>1. /\ Len(events) \in Nat /\ DOMAIN events = 1 .. Len(events)
      /\ DOMAIN events' = 1 .. Len(events) + 1 /\ events'[Len(events) + 1] = e
      /\ \A j \in DOMAIN events : events'[j] = events[j]
  BY Written
<1> SUFFICES ASSUME NEW j \in DOMAIN events', events'[j].node = "coder",
                    events'[j].patch.round > MAX_CODER_ROUNDS
             PROVE  /\ j > 1
                    /\ events'[j - 1].node = "arbiter"
                    /\ events'[j - 1].verdict = "rubric_fail"
  OBVIOUS
<1>2. CASE j = Len(events) + 1
  BY <1>1, <1>2
<1>3. CASE j \in DOMAIN events
  <2>1. /\ j > 1 /\ events[j - 1].node = "arbiter" /\ events[j - 1].verdict = "rubric_fail"
    BY <1>1, <1>3 DEF Overrun
  <2>2. events'[j - 1] = events[j - 1]
    BY <1>1, <1>3, <2>1
  <2> QED
    BY <2>1, <2>2
<1> QED
  BY <1>1, <1>2, <1>3

\* The other rows are not the coder's; the arbiter's is the last one when its verdict
\* sends control back.
LEMMA OverrunStep == Inv /\ Overrun /\ [Next]_vars => Overrun'
<1> SUFFICES ASSUME Inv, Overrun, [Next]_vars PROVE Overrun'
  OBVIOUS
<1>a. TypeOK /\ coder_rounds \in Nat /\ patch \in PatchType /\ MAX_CODER_ROUNDS \in Nat \ {0}
      /\ patch.round = coder_rounds
  BY BudgetAssumption DEF Inv, TypeOK, Handover
<1>b. ASSUME NEW e, write_ahead(e), e.node # "coder", coder_rounds' = coder_rounds,
             ~Alive' \/ node' \notin {"recon", "coder"}
      PROVE  Overrun'
  BY <1>a, <1>b, OverrunRow DEF Overrun
<1>1. CASE Recon
  BY <1>1, <1>a DEF Recon, At, Goto, channels, loop, Overrun, Alive
<1>2. ASSUME NEW guarded \in PatchGuarded,
             CoderProposes([round |-> coder_rounds + 1, guarded |-> guarded])
      PROVE  Overrun'
  <2> DEFINE e == Event("coder", [round |-> coder_rounds + 1, guarded |-> guarded])
  <2>1. write_ahead(e) /\ e.node = "coder" /\ e.patch.round = coder_rounds + 1
        /\ Alive /\ node = "coder"
    BY <1>2 DEF CoderProposes, Event, At, Alive
  <2>2. e.patch.round > MAX_CODER_ROUNDS =>
          /\ Len(events) > 0
          /\ events[Len(events)].node = "arbiter"
          /\ events[Len(events)].verdict = "rubric_fail"
    BY <1>a, <2>1 DEF Overrun
  <2> HIDE DEF e
  <2>3. ~Alive' \/ node' \in {"adversary", "critic"}
    <3>1. adversary_rounds \in Nat
      BY Counters
    <3>2. route_from_coder(adversary_rounds) \in {"adversary", "critic"}
      BY <3>1, Destinations
    <3> QED
      BY <1>2, <3>2 DEF CoderProposes, Lost, Goto, Alive
  <2> QED
    BY <1>a, <2>1, <2>2, <2>3, OverrunRow DEF Overrun
<1>3. CASE Adversary
  BY <1>3, <1>b DEF Adversary, Event, Lost, channels, loop, Goto, Alive
<1>4. CASE Critic
  BY <1>4, <1>b DEF Critic, Event, Lost, channels, loop, Goto, Alive
<1>5. ASSUME NEW output \in ArbiterOutputs,
             ArbiterDecides(decide_verdict(output, patch, coder_rounds))
      PROVE  Overrun'
  <2> DEFINE decided == decide_verdict(output, patch, coder_rounds)
             e       == [Event("arbiter", patch) EXCEPT !.verdict = decided]
  <2>1. decided \in Verdict /\ e.node = "arbiter" /\ e.verdict = decided
        /\ write_ahead(e) /\ coder_rounds' = coder_rounds
    BY <1>a, <1>5, Decided DEF ArbiterDecides, Event, Lost, channels, loop
  <2>2. \/ ~Alive' \/ node' \in {"gate", "END"}
        \/ /\ node' = "coder"
           /\ decided \in {"patch_fix", "rubric_fail", "replan", "minor_fix"}
    <3> HIDE DEF decided
    <3> QED
      BY <1>5, <2>1, Destinations DEF ArbiterDecides, decided, Lost, Goto, Alive
  <2>3. node' = "coder" /\ coder_rounds >= MAX_CODER_ROUNDS /\ Alive' => decided = "rubric_fail"
    BY <1>a, <2>2, PastBudget
  <2>4. Len(events') > 0 /\ events'[Len(events')] = e
    BY <1>a, <2>1, Written
  <2> HIDE DEF decided, e
  <2> QED
    BY <1>a, <2>1, <2>2, <2>3, <2>4, OverrunRow DEF Overrun
<1>6. ASSUME UNCHANGED <<events, coder_rounds>>, ~Alive' \/ node' \notin {"recon", "coder"}
      PROVE  Overrun'
  BY <1>6 DEF Overrun
<1>7. CASE RecordGate
  <2>1. ~Alive' \/ node' \in {"runner", "END"}
    BY <1>7, Destinations DEF RecordGate, Lost, Goto, Alive
  <2> QED
    BY <1>7, <1>b, <2>1 DEF RecordGate, Event, Lost, channels, loop
<1>8. CASE RunnerRecord
  <2>1. RunnerEvent.node = "runner" /\ write_ahead(RunnerEvent) /\ coder_rounds' = coder_rounds
    BY <1>8 DEF RunnerRecord, RunnerEvent, Event, Lost, channels, loop
  <2>2. ~Alive' \/ node' = "END" \/ (node' = "coder" /\ coder_rounds < MAX_CODER_ROUNDS)
    BY <1>8, Destinations DEF RunnerRecord, Lost, Goto, Alive
  <2> QED
    BY <1>a, <2>1, <2>2, OverrunRow DEF Overrun
<1>9. CASE GateInterrupt \/ RunnerApply \/ RunnerTest \/ Abort \/ GraphRecursionError
  BY <1>6, <1>9 DEF GateInterrupt, RunnerApply, RunnerTest, Abort, GraphRecursionError,
                    At, control, channels, loop, Alive
<1>10. ASSUME NEW decision \in Decisions, Resume(decision) PROVE Overrun'
  BY <1>6, <1>10 DEF Resume, loop
<1>11. CASE UNCHANGED vars
  BY <1>11 DEF vars, control, channels, loop, Overrun, Alive
<1> QED
  BY <1>1, <1>2, <1>3, <1>4, <1>5, <1>7, <1>8, <1>9, <1>10, <1>11
     DEF Next, GraphStep, Terminated, Coder, Arbiter

-----------------------------------------------------------------------------

\* A session that goes on, or is lost, has no end to explain.
LEMMA EndingStep == Inv /\ Ending /\ [Next]_vars => Ending'
<1> SUFFICES ASSUME Inv, Ending, [Next]_vars PROVE Ending'
  OBVIOUS
<1>a. /\ TypeOK /\ coder_rounds \in Nat /\ run.test \in TestPassed
      /\ gate_decision \in {"none", "approve", "reject"}
  BY DEF Inv, TypeOK
<1>b. ASSUME phase' \in {"running", "interrupted", "raised"},
             Alive' => node' # "record_gate"
      PROVE  Ending'
  BY <1>b DEF Ending, EndReason
<1>c. Lost => Ending'
  BY <1>b DEF Lost, Alive
<1>1. CASE Recon \/ GateInterrupt \/ Abort \/ GraphRecursionError
  BY <1>1, <1>b DEF Recon, GateInterrupt, Abort, GraphRecursionError, At, Goto, Alive
<1>2. ASSUME NEW guarded \in PatchGuarded,
             CoderProposes([round |-> coder_rounds + 1, guarded |-> guarded]), ~Lost
      PROVE  Ending'
  <2>1. adversary_rounds \in Nat
    BY Counters
  <2>2. node' \in {"adversary", "critic"}
    BY <1>2, <2>1, Destinations DEF CoderProposes, Goto
  <2> QED
    BY <1>2, <1>b, <2>2 DEF CoderProposes, Goto
<1>3. CASE (Adversary \/ Critic) /\ ~Lost
  BY <1>3, <1>b DEF Adversary, Critic, Goto, Alive
<1>4. ASSUME NEW output \in ArbiterOutputs,
             ArbiterDecides(decide_verdict(output, patch, coder_rounds)), ~Lost
      PROVE  Ending'
  <2> DEFINE decided == decide_verdict(output, patch, coder_rounds)
             e       == [Event("arbiter", patch) EXCEPT !.verdict = decided]
  <2>1. decided \in Verdict /\ e.node = "arbiter" /\ e.verdict = decided
        /\ write_ahead(e) /\ node' = route_from_arbiter(decided)
        /\ phase' = IF node' = "END" THEN "ended" ELSE "running"
    BY <1>4, Decided DEF Inv, TypeOK, ArbiterDecides, Event, Goto
  <2>2. events'[Len(events')] = e
    BY <1>a, <2>1, Written
  <2> HIDE DEF decided, e
  <2>3. node' \in {"gate", "coder", "END"} /\ (node' = "END" => decided = "budget_exhausted")
    BY <2>1, Destinations
  <2> QED
    BY <2>1, <2>2, <2>3 DEF Ending, EndReason
<1>5. ASSUME NEW decision \in Decisions, Resume(decision) PROVE Ending'
  BY <1>5 DEF Resume, normalize, Ending, EndReason
<1>6. CASE RecordGate /\ ~Lost
  <2> DEFINE e == [Event("gate", patch) EXCEPT !.gate = gate_decision]
  <2>1. /\ gate_decision \in {"approve", "reject"}
        /\ e.node = "gate" /\ e.gate = gate_decision /\ write_ahead(e)
        /\ node' = route_from_record_gate(gate_decision)
        /\ phase' = IF node' = "END" THEN "ended" ELSE "running"
    BY <1>6 DEF RecordGate, At, Alive, Ending, Event, Goto
  <2>2. events'[Len(events')] = e
    BY <1>a, <2>1, Written
  <2> HIDE DEF e
  <2>3. node' \in {"runner", "END"} /\ (node' = "END" => gate_decision = "reject")
    BY <2>1, Destinations
  <2> QED
    BY <2>1, <2>2, <2>3 DEF Ending, EndReason
<1>7. CASE RunnerApply \/ RunnerTest
  BY <1>7, <1>b DEF RunnerApply, RunnerTest, At, control, Alive
<1>8. CASE RunnerRecord /\ ~Lost
  <2>1. /\ RunnerEvent.node = "runner" /\ RunnerEvent.test = run.test
        /\ write_ahead(RunnerEvent) /\ coder_rounds' = coder_rounds
        /\ node' = route_from_runner(run.test, coder_rounds)
        /\ phase' = IF node' = "END" THEN "ended" ELSE "running"
    BY <1>8 DEF RunnerRecord, RunnerEvent, Event, Goto, loop
  <2>2. events'[Len(events')] = RunnerEvent
    BY <1>a, <2>1, Written
  <2>3. /\ node' \in {"coder", "END"}
        /\ node' = "END" => run.test = "passed" \/ coder_rounds >= MAX_CODER_ROUNDS
    BY <1>a, <2>1, Destinations
  <2> QED
    BY <2>1, <2>2, <2>3 DEF Ending, EndReason
<1>9. CASE UNCHANGED vars
  BY <1>9 DEF vars, control, channels, loop, Ending, EndReason, Alive
<1> QED
  BY <1>c, <1>1, <1>2, <1>3, <1>4, <1>5, <1>6, <1>7, <1>8, <1>9
     DEF Next, GraphStep, Terminated, Coder, Arbiter

-----------------------------------------------------------------------------

\* A row that is not the runner's says nothing of an apply.
LEMMA OtherRow ==
    ASSUME TypeOK, Applying, NEW e, write_ahead(e), e.apply # "applied",
           UNCHANGED worktree, run.apply # "applied"
    PROVE  WorktreeRecorded'
<1>1. /\ DOMAIN events = 1 .. Len(events)
      /\ DOMAIN events' = 1 .. Len(events) + 1 /\ events'[Len(events) + 1] = e
      /\ \A j \in DOMAIN events : events'[j] = events[j]
      /\ Len(events) \in Nat
  BY Written
<1>2. \A i \in DOMAIN worktree : RunnerRecorded(worktree[i])
  BY DEF Applying, WorktreeRecorded
<1>3. \A i \in DOMAIN worktree : RunnerRecorded(worktree[i])'
  BY <1>1, <1>2 DEF RunnerRecorded
<1>4. \A j \in DOMAIN events' : events'[j].apply = "applied" =>
        \E i \in DOMAIN worktree : worktree[i] = events'[j].patch
  BY <1>1 DEF Applying, WorktreeRecorded
<1> QED
  BY <1>3, <1>4 DEF WorktreeRecorded

LEMMA ApplyingStep == Inv /\ Applying /\ [Next]_vars => Applying'
<1> SUFFICES ASSUME Inv, Applying, [Next]_vars PROVE Applying'
  OBVIOUS
<1>a. /\ TypeOK /\ worktree \in Seq(PatchType)
      /\ run.apply \in {"none", "applied", "rejected"}
  BY DEF Inv, TypeOK
\* A node other than the runner, with its row, and lost or not.
<1>b. ASSUME NEW e, write_ahead(e), e.apply # "applied", UNCHANGED <<worktree, run>>,
             phase = "running", node # "runner"
      PROVE  Applying'
  <2>1. run.apply # "applied"
    BY <1>b DEF Applying
  <2> QED
    BY <1>a, <1>b, <2>1, OtherRow DEF Applying
<1>c. ASSUME UNCHANGED <<events, worktree, run, patch>>,
             node' = node \/ node # "runner"
      PROVE  Applying'
  BY <1>c DEF Applying, WorktreeRecorded, RunnerRecorded
<1>1. CASE Recon \/ GateInterrupt \/ Abort \/ GraphRecursionError \/ UNCHANGED vars
  BY <1>1, <1>c DEF Recon, GateInterrupt, Abort, GraphRecursionError, At, channels, loop,
                    vars, control
<1>2. ASSUME NEW guarded \in PatchGuarded,
             CoderProposes([round |-> coder_rounds + 1, guarded |-> guarded])
      PROVE  Applying'
  <2> DEFINE e == Event("coder", [round |-> coder_rounds + 1, guarded |-> guarded])
  <2>1. e.apply = "none" /\ write_ahead(e)
    BY <1>2 DEF Event, CoderProposes
  <2> HIDE DEF e
  <2> QED
    BY <1>2, <1>b, <2>1 DEF CoderProposes, At, Lost
<1>3. CASE Adversary
  <2>1. Event("adversary", patch).apply = "none"
    BY DEF Event
  <2> QED
    BY <1>3, <1>b, <2>1 DEF Adversary, At, Lost
<1>4. CASE Critic
  <2>1. Event("critic", patch).apply = "none"
    BY DEF Event
  <2> QED
    BY <1>4, <1>b, <2>1 DEF Critic, At, Lost
<1>5. ASSUME NEW output \in ArbiterOutputs,
             ArbiterDecides(decide_verdict(output, patch, coder_rounds))
      PROVE  Applying'
  <2> DEFINE e == [Event("arbiter", patch)
                     EXCEPT !.verdict = decide_verdict(output, patch, coder_rounds)]
  <2>1. e.apply = "none" /\ write_ahead(e)
    BY <1>5 DEF Event, ArbiterDecides
  <2> HIDE DEF e
  <2> QED
    BY <1>5, <1>b, <2>1 DEF ArbiterDecides, At, Lost
<1>6. ASSUME NEW decision \in Decisions, Resume(decision) PROVE Applying'
  <2>1. node = "gate"
    BY <1>6 DEF Resume, Inv, Handover
  <2> QED
    BY <1>6, <1>c, <2>1 DEF Resume, loop
<1>7. CASE RecordGate
  <2> DEFINE e == [Event("gate", patch) EXCEPT !.gate = gate_decision]
  <2>1. e.apply = "none" /\ write_ahead(e)
    BY <1>7 DEF Event, RecordGate
  <2> HIDE DEF e
  <2> QED
    BY <1>7, <1>b, <2>1 DEF RecordGate, At, Lost
<1>8. CASE RunnerApply
  <2>1. /\ events' = events /\ patch' = patch /\ node' = "runner" /\ run.apply = "none"
        /\ \A i \in DOMAIN worktree : RunnerRecorded(worktree[i])
    BY <1>8 DEF RunnerApply, At, NotRun, control, channels, loop, Applying, WorktreeRecorded
  <2>3. CASE worktree' = worktree /\ run'.apply = "rejected"
    BY <2>1, <2>3 DEF Applying, WorktreeRecorded, RunnerRecorded
  <2>4. CASE worktree' = Append(worktree, patch) /\ run'.apply = "applied"
    <3>1. /\ Len(worktree') = Len(worktree) + 1 /\ Len(worktree) \in Nat
          /\ DOMAIN worktree = 1 .. Len(worktree) /\ DOMAIN worktree' = 1 .. Len(worktree) + 1
          /\ worktree'[Len(worktree) + 1] = patch
          /\ \A i \in DOMAIN worktree : worktree'[i] = worktree[i]
      BY <1>a, <2>4
    <3>2. \A j \in DOMAIN events : events[j].apply = "applied" =>
            \E i \in DOMAIN worktree' : worktree'[i] = events[j].patch
      BY <3>1 DEF Applying, WorktreeRecorded
    <3>3. \A i \in DOMAIN worktree' :
            \/ RunnerRecorded(worktree[i])'
            \/ i = Len(worktree') /\ node' = "runner" /\ run'.apply = "applied"
      <4> SUFFICES ASSUME NEW i \in DOMAIN worktree PROVE RunnerRecorded(worktree[i])'
        BY <2>1, <2>4, <3>1
      <4>1. \E j \in DOMAIN events : /\ events[j].node = "runner"
                                     /\ events[j].apply = "applied"
                                     /\ events[j].patch = worktree[i]
        BY <2>1 DEF RunnerRecorded
      <4> QED
        BY <2>1, <3>1, <4>1 DEF RunnerRecorded
    <3>4. \A j \in DOMAIN events' : events'[j].apply = "applied" =>
            \E i \in DOMAIN worktree' : worktree'[i] = events'[j].patch
      BY <2>1, <3>2
    <3> QED
      BY <2>1, <2>4, <3>1, <3>3, <3>4 DEF Applying, WorktreeRecorded
  <2> QED
    BY <1>8, <2>3, <2>4 DEF RunnerApply, NotRun
<1>9. CASE RunnerTest
  <2>1. run'.apply = "applied" /\ run.apply = "applied"
    BY <1>9 DEF RunnerTest
  <2> QED
    BY <1>9, <2>1 DEF RunnerTest, control, channels, loop, Applying, WorktreeRecorded,
                      RunnerRecorded
<1>10. CASE RunnerRecord
  <2>1. /\ RunnerEvent.apply = run.apply /\ RunnerEvent.patch = patch
        /\ RunnerEvent.node = "runner" /\ write_ahead(RunnerEvent)
        /\ worktree' = worktree /\ patch' = patch
    BY <1>10 DEF RunnerRecord, RunnerEvent, Event, Lost, channels, loop
  <2>2. (run' = run /\ node' = node) \/ run'.apply = "none"
    BY <1>10 DEF RunnerRecord, Lost, NotRun
  <2>3. WorktreeRecorded'
    <3>1. CASE run.apply # "applied"
      BY <1>a, <2>1, <3>1, OtherRow
    <3>2. CASE run.apply = "applied"
      <4>1. /\ DOMAIN events = 1 .. Len(events) /\ Len(events) \in Nat
            /\ DOMAIN events' = 1 .. Len(events) + 1
            /\ events'[Len(events) + 1] = RunnerEvent
            /\ \A j \in DOMAIN events : events'[j] = events[j]
        BY <1>a, <2>1, Written
      <4>2. Len(worktree) \in DOMAIN worktree /\ worktree[Len(worktree)] = patch
        BY <1>a, <3>2 DEF Applying
      <4>3. \A j \in DOMAIN events' : events'[j].apply = "applied" =>
              \E i \in DOMAIN worktree : worktree[i] = events'[j].patch
        BY <2>1, <4>1, <4>2 DEF Applying, WorktreeRecorded
      <4>4. RunnerRecorded(patch)'
        BY <2>1, <3>2, <4>1 DEF RunnerRecorded
      <4>5. \A i \in DOMAIN worktree : RunnerRecorded(worktree[i])'
        <5> SUFFICES ASSUME NEW i \in DOMAIN worktree, i # Len(worktree)
                     PROVE  RunnerRecorded(worktree[i])'
          BY <2>1, <4>2, <4>4 DEF RunnerRecorded
        <5>1. RunnerRecorded(worktree[i])
          BY DEF Applying, WorktreeRecorded
        <5> QED
          BY <2>1, <4>1, <5>1 DEF RunnerRecorded
      <4> QED
        BY <2>1, <4>3, <4>5 DEF WorktreeRecorded
    <3> QED
      BY <3>1, <3>2
  <2> QED
    BY <2>1, <2>2, <2>3 DEF Applying
<1> QED
  BY <1>1, <1>2, <1>3, <1>4, <1>5, <1>6, <1>7, <1>8, <1>9, <1>10
     DEF Next, GraphStep, Terminated, Coder, Arbiter

-----------------------------------------------------------------------------

\* The log's invariant, on top of the session's.
LEMMA LogInvariance == Spec => [](Inv /\ LogInv)
<1>1. Init => LogInv
  <2> SUFFICES ASSUME Init PROVE LogInv
    OBVIOUS
  <2>1. /\ phase = "running" /\ node = "recon" /\ run.apply = "none"
        /\ coder_rounds = 0 /\ adversary_rounds = 0 /\ attack = 0
    BY DEF Init, NotRun
  <2>2. events = <<>> /\ worktree = <<>>
    BY DEF Init
  <2>3. DOMAIN events = {} /\ DOMAIN worktree = {}
    BY <2>2
  <2> QED
    BY <2>1, <2>3, BudgetAssumption DEF LogInv, Evidence, Bought, Overrun, Ending, EndReason,
                                  Applying, WorktreeRecorded
<1>2. Inv /\ LogInv /\ [Next]_vars => LogInv'
  BY EvidenceStep, OverrunStep, EndingStep, ApplyingStep DEF LogInv
<1> QED
  BY <1>1, <1>2, Invariance, PTL DEF Spec

\* The arbiter always judges on a critique of the current patch, and on an attack on
\* it as long as the adversary's budget lasts.
THEOREM OwnEvidence == Spec => []JudgedOnOwnEvidence
<1>1. Inv /\ LogInv => JudgedOnOwnEvidence
  BY DEF Inv, Handover, LogInv, Evidence, Bought, Alive, JudgedOnOwnEvidence
<1> QED
  BY <1>1, LogInvariance, PTL

\* Only a rubric_fail verdict buys the coder a round past its budget.
THEOREM OverrunIsRubricFail == Spec => []OverrunOnlyByRubricFail
<1>1. LogInv => OverrunOnlyByRubricFail
  BY DEF LogInv, Overrun, OverrunOnlyByRubricFail
<1> QED
  BY <1>1, LogInvariance, PTL

\* The last row of a session that ended says why.
THEOREM EndExplained == Spec => []EndReason
<1>1. LogInv => EndReason
  BY DEF LogInv, Ending
<1> QED
  BY <1>1, LogInvariance, PTL

\* The log and the worktree agree on what was applied, also when the session raised.
THEOREM LogMatchesWorktree == Spec => []WorktreeRecorded
<1>1. LogInv => WorktreeRecorded
  BY DEF LogInv, Applying
<1> QED
  BY <1>1, LogInvariance, PTL

-----------------------------------------------------------------------------

\* The latest critique and the latest verdict are behind the latest patch by one round at
\* most, the verdict more than the critique.
Window ==
    /\ about("arbiter") \in Nat /\ about("critic") \in Nat /\ about("coder") \in Nat
    /\ about("arbiter") <= about("critic")
    /\ about("critic") <= about("coder")
    /\ about("coder") <= about("arbiter") + 1

\* Where the log of a session that did not raise stands, by the node that runs next.
Standing ==
    /\ about("coder") = coder_rounds
    /\ coder_rounds > 0 => node_events("coder") # {} /\ last_of("coder").patch = patch
    /\ about("critic") = IF node \in {"adversary", "critic"}
                         THEN coder_rounds - 1 ELSE coder_rounds
    /\ about("arbiter") = IF node \in {"adversary", "critic", "arbiter"}
                          THEN coder_rounds - 1 ELSE coder_rounds
    /\ about("adversary") = attack
    /\ node = "recon" => coder_rounds = 0
    /\ node \notin {"recon", "coder"} => coder_rounds > 0
    /\ node \in {"gate", "record_gate", "runner", "END"} =>
         node_events("arbiter") # {} /\ last_of("arbiter").verdict = verdict
    /\ node = "END" <=> phase = "ended"
    /\ node = "END" => attack = Bought(coder_rounds)

ZooInv == IF phase = "raised" THEN Window ELSE Standing

-----------------------------------------------------------------------------

\* A new row is the latest of its node, and the other nodes' latest rows stay.
LEMMA LatestRow ==
    ASSUME TypeOK, NEW e, write_ahead(e), NEW n
    PROVE  /\ n = e.node => /\ node_events(n)' # {} /\ last_of(n)' = e
                            /\ about(n)' = e.patch.round
           /\ n # e.node => /\ node_events(n)' = node_events(n)
                            /\ node_events(n) # {} => last_of(n)' = last_of(n)
                            /\ about(n)' = about(n)
<1> DEFINE rows == Len(events)
<1>1. /\ rows \in Nat /\ DOMAIN events = 1 .. rows /\ DOMAIN events' = 1 .. rows + 1
      /\ events'[rows + 1] = e /\ \A j \in DOMAIN events : events'[j] = events[j]
  BY Written
<1> HIDE DEF rows
<1>2. CASE n = e.node
  <2>1. /\ rows + 1 \in node_events(n)' /\ \A j \in node_events(n)' : j <= rows + 1
        /\ node_events(n)' \subseteq Nat
    BY <1>1, <1>2 DEF node_events
  <2>2. (CHOOSE i \in node_events(n)' : \A j \in node_events(n)' : j <= i) = rows + 1
    <3> DEFINE mine == node_events(n)'
    <3>1. \A i \in mine : (\A j \in mine : j <= i) => i = rows + 1
      BY <1>1, <2>1
    <3> HIDE DEF mine
    <3> QED
      BY <2>1, <3>1 DEF mine
  <2>3. last_of(n)' = e /\ node_events(n)' # {}
    BY <1>1, <2>1, <2>2 DEF last_of
  <2> QED
    BY <1>2, <2>3 DEF about
<1>3. CASE n # e.node
  <2>1. node_events(n)' = node_events(n)
    BY <1>1, <1>3 DEF node_events
  <2>2. ASSUME node_events(n) # {} PROVE last_of(n)' = last_of(n)
    <3> DEFINE mine == node_events(n)
    <3>1. mine \subseteq 0 .. rows /\ mine \subseteq DOMAIN events
      BY <1>1 DEF node_events
    <3>2. \E g \in mine : \A j \in mine : j <= g
      <4> HIDE DEF mine
      <4> QED
        BY <1>1, <2>2, <3>1, Greatest DEF mine
    <3>3. (CHOOSE i \in mine : \A j \in mine : j <= i) \in DOMAIN events
      BY <3>1, <3>2
    <3> QED
      BY <1>1, <2>1, <3>3 DEF last_of
  <2> QED
    BY <1>3, <2>1, <2>2 DEF about
<1> QED
  BY <1>2, <1>3

LEMMA SameRows ==
    ASSUME events' = events, NEW n
    PROVE  node_events(n)' = node_events(n) /\ last_of(n)' = last_of(n) /\ about(n)' = about(n)
<1>1. node_events(n)' = node_events(n)
  BY DEF node_events
<1>2. last_of(n)' = last_of(n)
  BY <1>1 DEF last_of
<1> QED
  BY <1>1, <1>2 DEF about

LEMMA StandingInWindow ==
    ASSUME Inv, Standing
    PROVE  Window
<1>1. coder_rounds \in Nat
  BY Counters
<1> QED
  BY <1>1 DEF Standing, Window

LEMMA ZooStep == Inv /\ LogInv /\ ZooInv /\ [Next]_vars => ZooInv'
<1> SUFFICES ASSUME Inv, LogInv, ZooInv, [Next]_vars PROVE ZooInv'
  OBVIOUS
<1>a. /\ TypeOK /\ coder_rounds \in Nat /\ patch.round = coder_rounds
      /\ phase \in {"running", "interrupted", "ended", "raised"}
      /\ Evidence /\ MAX_ADVERSARY_ROUNDS \in Nat
      /\ phase = "interrupted" => node = "gate"
  BY Counters DEF Inv, LogInv, TypeOK, Handover
<1>b. ASSUME events' = events, phase' = "raised" PROVE ZooInv'
  <2>1. Window
    BY <1>a, StandingInWindow DEF ZooInv
  <2> QED
    BY <1>b, <2>1, SameRows DEF ZooInv, Window
\* A row that the session does not get to know of.
<1>c. ASSUME NEW e, write_ahead(e), phase = "running", phase' = "raised",
             \/ e.node = "coder" /\ node = "coder" /\ e.patch.round = coder_rounds + 1
             \/ e.node \in {"adversary", "critic", "arbiter"} /\ e.node = node /\ e.patch = patch
             \/ e.node \in {"gate", "runner"}
      PROVE  ZooInv'
  <2>1. Standing
    BY <1>c DEF ZooInv
  <2>2. Window
    BY <2>1, StandingInWindow
  <2>3. /\ about("coder")' = IF e.node = "coder" THEN e.patch.round ELSE about("coder")
        /\ about("critic")' = IF e.node = "critic" THEN e.patch.round ELSE about("critic")
        /\ about("arbiter")' = IF e.node = "arbiter" THEN e.patch.round ELSE about("arbiter")
    BY <1>a, <1>c, LatestRow
  <2>4. Window'
    BY <1>a, <1>c, <2>1, <2>2, <2>3 DEF Standing, Window
  <2> QED
    BY <1>c, <2>4 DEF ZooInv
<1>1. CASE Recon
  <2>1. /\ events' = events /\ node = "recon" /\ node' = "coder" /\ phase' = "running"
        /\ coder_rounds' = coder_rounds /\ attack' = attack /\ Standing
    BY <1>1 DEF Recon, At, Goto, channels, loop, ZooInv
  <2>2. coder_rounds = 0
    BY <2>1 DEF Standing
  <2> QED
    BY <2>1, <2>2, SameRows DEF ZooInv, Standing
<1>2. ASSUME NEW guarded \in PatchGuarded,
             CoderProposes([round |-> coder_rounds + 1, guarded |-> guarded])
      PROVE  ZooInv'
  <2> DEFINE new == [round |-> coder_rounds + 1, guarded |-> guarded]
             e   == Event("coder", new)
  <2>1. /\ write_ahead(e) /\ e.node = "coder" /\ e.patch = new
        /\ e.patch.round = coder_rounds + 1 /\ phase = "running" /\ node = "coder"
    BY <1>2 DEF CoderProposes, Event, At
  <2> HIDE DEF e
  <2>2. CASE Lost
    BY <1>c, <2>1, <2>2 DEF Lost
  <2>3. CASE ~Lost
    <3>1. /\ coder_rounds' = coder_rounds + 1 /\ patch' = new /\ attack' = attack
          /\ verdict' = verdict /\ Standing
          /\ node' = route_from_coder(adversary_rounds)
          /\ phase' = IF node' = "END" THEN "ended" ELSE "running"
      BY <1>2, <2>1, <2>3 DEF CoderProposes, Goto, ZooInv, judgment
    <3>2. node' \in {"adversary", "critic"} /\ phase' = "running"
      <4>1. adversary_rounds \in Nat
        BY Counters
      <4> QED
        BY <3>1, <4>1, Destinations
    <3>3. /\ node_events("coder")' # {} /\ last_of("coder")' = e
          /\ about("coder")' = coder_rounds + 1 /\ about("critic")' = coder_rounds
          /\ about("arbiter")' = coder_rounds /\ about("adversary")' = attack
      BY <1>a, <2>1, <3>1, LatestRow DEF Standing
    <3> QED
      BY <1>a, <2>1, <3>1, <3>2, <3>3 DEF ZooInv, Standing
  <2> QED
    BY <2>2, <2>3
<1>3. CASE Adversary
  <2> DEFINE e == Event("adversary", patch)
  <2>1. /\ write_ahead(e) /\ e.node = "adversary" /\ e.patch = patch
        /\ phase = "running" /\ node = "adversary"
    BY <1>3 DEF Adversary, Event, At
  <2> HIDE DEF e
  <2>2. CASE Lost
    BY <1>c, <2>1, <2>2 DEF Lost
  <2>3. CASE ~Lost
    <3>1. /\ coder_rounds' = coder_rounds /\ patch' = patch /\ attack' = patch.round
          /\ Standing /\ node' = "critic" /\ phase' = "running"
      BY <1>3, <2>1, <2>3 DEF Adversary, Goto, ZooInv
    <3>2. /\ node_events("coder")' = node_events("coder")
          /\ node_events("coder") # {} => last_of("coder")' = last_of("coder")
          /\ about("coder")' = about("coder") /\ about("critic")' = about("critic")
          /\ about("arbiter")' = about("arbiter") /\ about("adversary")' = patch.round
      BY <1>a, <2>1, LatestRow
    <3> QED
      BY <1>a, <2>1, <3>1, <3>2 DEF ZooInv, Standing
  <2> QED
    BY <2>2, <2>3
<1>4. CASE Critic
  <2> DEFINE e == Event("critic", patch)
  <2>1. /\ write_ahead(e) /\ e.node = "critic" /\ e.patch = patch
        /\ phase = "running" /\ node = "critic"
    BY <1>4 DEF Critic, Event, At
  <2> HIDE DEF e
  <2>2. CASE Lost
    BY <1>c, <2>1, <2>2 DEF Lost
  <2>3. CASE ~Lost
    <3>1. /\ coder_rounds' = coder_rounds /\ patch' = patch /\ attack' = attack
          /\ Standing /\ node' = "arbiter" /\ phase' = "running"
      BY <1>4, <2>1, <2>3 DEF Critic, Goto, ZooInv
    <3>2. /\ node_events("coder")' = node_events("coder")
          /\ node_events("coder") # {} => last_of("coder")' = last_of("coder")
          /\ about("coder")' = about("coder") /\ about("critic")' = patch.round
          /\ about("arbiter")' = about("arbiter") /\ about("adversary")' = about("adversary")
      BY <1>a, <2>1, LatestRow
    <3> QED
      BY <1>a, <2>1, <3>1, <3>2 DEF ZooInv, Standing
  <2> QED
    BY <2>2, <2>3
<1>5. ASSUME NEW output \in ArbiterOutputs,
             ArbiterDecides(decide_verdict(output, patch, coder_rounds))
      PROVE  ZooInv'
  <2> DEFINE decided == decide_verdict(output, patch, coder_rounds)
             e       == [Event("arbiter", patch) EXCEPT !.verdict = decided]
  <2>1. /\ decided \in Verdict
        /\ write_ahead(e) /\ e.node = "arbiter" /\ e.patch = patch /\ e.verdict = decided
        /\ phase = "running" /\ node = "arbiter"
    BY <1>5, <1>a, Decided DEF ArbiterDecides, Event, At, TypeOK
  <2>2. \/ Lost
        \/ /\ verdict' = decided /\ Goto(route_from_arbiter(decided))
           /\ UNCHANGED loop
    BY <1>5 DEF ArbiterDecides
  <2> HIDE DEF decided, e
  <2>3. CASE Lost
    BY <1>c, <2>1, <2>3 DEF Lost
  <2>4. CASE ~Lost
    <3>1. /\ coder_rounds' = coder_rounds /\ patch' = patch /\ attack' = attack
          /\ Standing /\ node' \in {"gate", "coder", "END"} /\ verdict' = decided
          /\ phase' = IF node' = "END" THEN "ended" ELSE "running"
      BY <2>1, <2>2, <2>4, Destinations DEF loop, Goto, ZooInv
    <3>2. /\ node_events("coder")' = node_events("coder")
          /\ node_events("coder") # {} => last_of("coder")' = last_of("coder")
          /\ about("coder")' = about("coder") /\ about("critic")' = about("critic")
          /\ about("arbiter")' = patch.round /\ about("adversary")' = about("adversary")
          /\ node_events("arbiter")' # {} /\ last_of("arbiter")' = e
      BY <1>a, <2>1, LatestRow
    <3>3. attack = Bought(coder_rounds)
      BY <1>a, <2>1 DEF Evidence, Alive
    <3> QED
      BY <1>a, <2>1, <3>1, <3>2, <3>3 DEF ZooInv, Standing, Bought
  <2> QED
    BY <2>3, <2>4
\* The steps between two nodes of the gate and the runner, with a row of theirs or none.
<1>d. ASSUME phase \in {"running", "interrupted"}, phase' # "raised",
             node \in {"gate", "record_gate", "runner"},
             node' \in {"gate", "record_gate", "runner", "coder", "END"},
             node' = "END" <=> phase' = "ended",
             UNCHANGED <<coder_rounds, patch, attack, verdict>>,
             events' = events \/ \E e : write_ahead(e) /\ e.node \in {"gate", "runner"}
      PROVE  ZooInv'
  <2>1. Standing
    BY <1>d DEF ZooInv
  <2> DEFINE Untouched ==
        /\ node_events("coder")' = node_events("coder")
        /\ node_events("arbiter")' = node_events("arbiter")
        /\ node_events("coder") # {} => last_of("coder")' = last_of("coder")
        /\ node_events("arbiter") # {} => last_of("arbiter")' = last_of("arbiter")
        /\ about("coder")' = about("coder") /\ about("critic")' = about("critic")
        /\ about("arbiter")' = about("arbiter") /\ about("adversary")' = about("adversary")
  <2>2. Untouched
    <3>1. CASE events' = events
      BY <3>1, SameRows
    <3>2. ASSUME NEW e, write_ahead(e), e.node \in {"gate", "runner"} PROVE  Untouched
      BY <1>a, <3>2, LatestRow
    <3> QED
      BY <1>d, <3>1, <3>2
  <2>3. attack = Bought(coder_rounds)
    BY <1>a, <1>d DEF Evidence, Alive
  <2> QED
    BY <1>a, <1>d, <2>1, <2>2, <2>3 DEF ZooInv, Standing, Bought
<1>6. CASE GateInterrupt
  BY <1>6, <1>d DEF GateInterrupt, At, channels, loop, judgment
<1>7. ASSUME NEW decision \in Decisions, Resume(decision) PROVE ZooInv'
  <2>1. node = "gate"
    BY <1>7, <1>a DEF Resume
  <2> QED
    BY <1>7, <1>d, <2>1 DEF Resume, loop, judgment
<1>8. CASE RecordGate
  <2> DEFINE e == [Event("gate", patch) EXCEPT !.gate = gate_decision]
  <2>1. write_ahead(e) /\ e.node = "gate" /\ phase = "running" /\ node = "record_gate"
    BY <1>8 DEF RecordGate, Event, At
  <2> HIDE DEF e
  <2>2. CASE Lost
    BY <1>c, <2>1, <2>2 DEF Lost
  <2>3. CASE ~Lost
    <3>1. node' \in {"runner", "END"} /\ phase' = IF node' = "END" THEN "ended" ELSE "running"
      BY <1>8, <2>3, Destinations DEF RecordGate, Goto
    <3> QED
      BY <1>8, <1>d, <2>1, <2>3, <3>1 DEF RecordGate, loop, judgment
  <2> QED
    BY <2>2, <2>3
<1>9. CASE RunnerApply \/ RunnerTest
  BY <1>9, <1>d DEF RunnerApply, RunnerTest, At, control, channels, loop, judgment
<1>10. CASE RunnerRecord
  <2>1. write_ahead(RunnerEvent) /\ RunnerEvent.node = "runner" /\ phase = "running"
        /\ node = "runner"
    BY <1>10 DEF RunnerRecord, RunnerEvent, Event, At
  <2>2. CASE Lost
    BY <1>c, <2>1, <2>2 DEF Lost
  <2>3. CASE ~Lost
    <3>1. node' \in {"coder", "END"} /\ phase' = IF node' = "END" THEN "ended" ELSE "running"
      BY <1>10, <2>3, Destinations DEF RunnerRecord, Goto
    <3> QED
      BY <1>10, <1>d, <2>1, <2>3, <3>1 DEF RunnerRecord, loop, judgment
  <2> QED
    BY <2>2, <2>3
<1>11. CASE Abort \/ GraphRecursionError
  BY <1>11, <1>b DEF Abort, GraphRecursionError
<1>12. CASE UNCHANGED vars
  BY <1>12, SameRows DEF vars, control, channels, loop, judgment, ZooInv, Standing, Window
<1> QED
  BY <1>1, <1>2, <1>3, <1>4, <1>5, <1>6, <1>7, <1>8, <1>9, <1>10, <1>11, <1>12
     DEF Next, GraphStep, Terminated, Coder, Arbiter

LEMMA ZooInvariance == Spec => [](Inv /\ LogInv /\ ZooInv)
<1>1. Init => ZooInv
  <2> SUFFICES ASSUME Init PROVE ZooInv
    OBVIOUS
  <2>1. events = <<>>
    BY DEF Init
  <2>2. \A n : node_events(n) = {}
    BY <2>1 DEF node_events
  <2>3. \A n : about(n) = 0
    BY <2>2 DEF about
  <2>4. coder_rounds = 0 /\ attack = 0 /\ node = "recon" /\ phase = "running"
    BY DEF Init
  <2>5. Standing
    BY <2>3, <2>4 DEF Standing
  <2> QED
    BY <2>4, <2>5 DEF ZooInv
<1> QED
  BY <1>1, ZooStep, LogInvariance, PTL DEF Spec

\* What the zoo makes of a session that ended is about the session's last patch: its
\* verdict, its critique and, while the adversary had budget, its attack.
THEOREM SpecimenOfItsPatch == Spec => []SpecimenCoherent
<1>1. Inv /\ LogInv /\ ZooInv => SpecimenCoherent
  <2> SUFFICES ASSUME Inv, ZooInv, phase = "ended"
               PROVE  /\ _build_specimen # NoSpecimen /\ _build_specimen.id = 1
                      /\ _build_specimen.judged = _build_specimen.patch.round
                      /\ _build_specimen.critique = _build_specimen.patch.round
                      /\ _build_specimen.patch = patch /\ _build_specimen.verdict = verdict
                      /\ _build_specimen.patch.round <= MAX_ADVERSARY_ROUNDS
                         => _build_specimen.attack = _build_specimen.patch.round
    BY DEF SpecimenCoherent
  <2>1. Standing /\ node = "END" /\ coder_rounds \in Nat /\ patch.round = coder_rounds
    BY Counters DEF ZooInv, Standing
  <2>2. roots = {1} /\ DOMAIN events # {}
    <3>1. events \in Seq(AuditEvent) /\ \A i \in DOMAIN events : events[i].parent = i - 1
      BY DEF Inv, TypeOK, ChainLinear
    <3>2. DOMAIN events # {}
      BY <2>1 DEF Standing, node_events
    <3>3. 1 \in DOMAIN events /\ DOMAIN events \subseteq Nat
      BY <3>1, <3>2
    <3> QED
      BY <3>1, <3>2, <3>3 DEF roots
  <2>3. (CHOOSE r \in roots : \A other \in roots : r <= other) = 1
    BY <2>2
  <2>4. ~Incomplete
    BY <2>1, <2>2 DEF Standing, Incomplete
  <2>5. _build_specimen = [id       |-> 1,
                           patch    |-> last_of("coder").patch,
                           attack   |-> about("adversary"),
                           critique |-> about("critic"),
                           judged   |-> about("arbiter"),
                           verdict  |-> last_of("arbiter").verdict,
                           license  |-> root_license]
    BY <2>3, <2>4 DEF _build_specimen
  <2>6. _build_specimen # NoSpecimen
    BY <2>5 DEF NoSpecimen
  <2> QED
    BY <2>1, <2>5, <2>6, BudgetAssumption DEF Standing, Bought
<1> QED
  BY <1>1, ZooInvariance, PTL

\* And of a session that is under way, or raised, never more than one round apart.
THEOREM SpecimenNearlyInStep == Spec => []SpecimenLagsOneRound
<1>1. Inv /\ ZooInv => SpecimenLagsOneRound
  <2> SUFFICES ASSUME Inv, ZooInv, _build_specimen # NoSpecimen
               PROVE  /\ _build_specimen.judged <= _build_specimen.critique
                      /\ _build_specimen.critique <= _build_specimen.patch.round
                      /\ _build_specimen.patch.round <= _build_specimen.judged + 1
    BY DEF SpecimenLagsOneRound
  <2>1. Window
    BY StandingInWindow DEF ZooInv
  <2>2. ~Incomplete
    BY DEF _build_specimen
  <2>3. /\ _build_specimen.patch = last_of("coder").patch
        /\ _build_specimen.critique = about("critic")
        /\ _build_specimen.judged = about("arbiter")
    BY <2>2 DEF _build_specimen
  <2>4. last_of("coder").patch.round = about("coder")
    BY <2>2 DEF Incomplete, about
  <2> QED
    BY <2>1, <2>3, <2>4 DEF Window
<1> QED
  BY <1>1, ZooInvariance, PTL

=============================================================================
