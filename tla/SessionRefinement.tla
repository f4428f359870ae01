------------------------- MODULE SessionRefinement -------------------------
(***************************************************************************)
(* Session stands between two others, for every value of the constants:    *)
(* it implements GatedApply, each step of the graph being a step of the    *)
(* gate or none, and the drivers run it and no other.  So what GatedApply  *)
(* promises, and what is proved of a session, holds under each of them;    *)
(* two of the drivers promise more of their gate.                          *)
(***************************************************************************)
EXTENDS SessionDriver, SessionProofs, GatedApply

-----------------------------------------------------------------------------
(* What GatedApply says implies what it promises. *)

\* Where the stage says that a draft is under way, it has not been applied; a grant
\* is for a draft with an approval on record.
GInv ==
    /\ draft \in Draft
    /\ applied \in Seq(Draft)
    /\ stage \in {"idle", "open", "asking", "granted", "closed"}
    /\ \A i \in DOMAIN applied : applied[i].round <= draft.round
    /\ stage \in {"open", "asking", "granted"} =>
         \A i \in DOMAIN applied : applied[i].round < draft.round
    /\ stage = "granted" => draft \in approved
    /\ OnlyApproved

\* One draft more keeps the applied drafts approved, and in the order drafted.
LEMMA AppliesDraft ==
    ASSUME GInv, stage = "granted", applied' = Append(applied, draft), approved' = approved
    PROVE  /\ OnlyApproved'
           /\ applied' \in Seq(Draft)
           /\ \A i \in DOMAIN applied' : applied'[i] = draft \/ \E j \in DOMAIN applied :
                                                                   applied'[i] = applied[j]
<1>1. /\ applied' \in Seq(Draft)
      /\ DOMAIN applied' = DOMAIN applied \cup {Len(applied) + 1}
      /\ applied'[Len(applied) + 1] = draft
      /\ \A i \in DOMAIN applied : applied'[i] = applied[i]
      /\ \A i \in DOMAIN applied : i \in Nat /\ i <= Len(applied)
      /\ Len(applied) \in Nat
  BY DEF GInv
<1>2. \A i \in DOMAIN applied' : applied'[i] \in approved'
  BY <1>1 DEF GInv, OnlyApproved
<1>3. \A i, j \in DOMAIN applied' : i < j => applied'[i].round < applied'[j].round
  <2> SUFFICES ASSUME NEW i \in DOMAIN applied', NEW j \in DOMAIN applied', i < j
               PROVE  applied'[i].round < applied'[j].round
    OBVIOUS
  <2>1. i \in DOMAIN applied
    BY <1>1
  <2>2. CASE j \in DOMAIN applied
    BY <1>1, <2>1, <2>2 DEF GInv, OnlyApproved
  <2>3. CASE j = Len(applied) + 1
    BY <1>1, <2>1, <2>3 DEF GInv
  <2> QED
    BY <1>1, <2>2, <2>3
<1> QED
  BY <1>1, <1>2, <1>3 DEF OnlyApproved

\* Every step keeps the invariant, where rounds are numbers.
LEMMA GStep ==
    ASSUME \A d \in Draft : d.round \in Int, GInv, [GNext]_gvars
    PROVE  GInv'
<1>1. CASE Propose
  <2>1. \A i \in DOMAIN applied : applied[i].round < draft'.round
    BY <1>1 DEF Propose, GInv
  <2> QED
    BY <1>1, <2>1 DEF Propose, GInv, OnlyApproved
<1>2. CASE Ask
  BY <1>2 DEF Ask, GInv, OnlyApproved
<1>3. CASE Drop
  BY <1>3 DEF Drop, GInv, OnlyApproved
<1>4. CASE Grant
  BY <1>4 DEF Grant, GInv, OnlyApproved
<1>5. CASE Apply
  <2>1. CASE applied' = applied
    BY <1>5, <2>1 DEF Apply, GInv, OnlyApproved
  <2>2. CASE applied' = Append(applied, draft)
    <3>1. /\ OnlyApproved' /\ applied' \in Seq(Draft)
          /\ \A i \in DOMAIN applied' : applied'[i] = draft \/ \E j \in DOMAIN applied :
                                                                  applied'[i] = applied[j]
      BY <1>5, <2>2, AppliesDraft DEF Apply
    <3>2. \A i \in DOMAIN applied' : applied'[i].round <= draft.round
      BY <3>1 DEF GInv
    <3> QED
      BY <1>5, <3>1, <3>2 DEF Apply, GInv
  <2> QED
    BY <1>5, <2>1, <2>2 DEF Apply
<1>6. CASE Close
  BY <1>6 DEF Close, GInv, OnlyApproved
<1>7. CASE UNCHANGED gvars
  BY <1>7 DEF gvars, GInv, OnlyApproved
<1> QED
  BY <1>1, <1>2, <1>3, <1>4, <1>5, <1>6, <1>7 DEF GNext

\* Whoever follows the gate applies only drafts whose approval is on record, each
\* once and in the order drafted.
THEOREM GatePromise ==
    ASSUME \A d \in Draft : d.round \in Int
    PROVE  GSpec => []OnlyApproved
<1>1. GInit => GInv
  BY DEF GInit, GInv, OnlyApproved
<1>2. GInv /\ [GNext]_gvars => GInv'
  BY GStep
<1>3. GInv => OnlyApproved
  BY DEF GInv
<1> QED
  BY <1>1, <1>2, <1>3, PTL DEF GSpec

-----------------------------------------------------------------------------
(* Session implements GatedApply. *)

\* Where each node stands with respect to the gate.
LEMMA Stages ==
    /\ \A nd, r : stage_of("raised", nd, r) = "closed"
    /\ \A nd, r : stage_of("ended", nd, r) = "closed"
    /\ \A nd, r : stage_of("interrupted", nd, r) = "asking"
    /\ \A r : stage_of("running", "record_gate", r) = "asking"
    /\ stage_of("running", "runner", NotRun) = "granted"
    /\ \A r : r # NotRun => stage_of("running", "runner", r) = "idle"
    /\ \A nd \in {"adversary", "critic", "arbiter", "gate"} : \A r :
          stage_of("running", nd, r) = "open"
    /\ \A nd \in {"recon", "coder"} : \A r : stage_of("running", nd, r) = "idle"
  BY DEF stage_of

\* Only an approving row of the gate adds to the approved patches.
LEMMA ApprovedBy ==
    ASSUME events \in Seq(AuditEvent), NEW e, events' = Append(events, e)
    PROVE  /\ e.node = "gate" /\ e.gate = "approve"
                => ApprovedPatches' = ApprovedPatches \cup {e.patch}
           /\ ~(e.node = "gate" /\ e.gate = "approve")
                => ApprovedPatches' = ApprovedPatches
<1>1. /\ DOMAIN events' = DOMAIN events \cup {Len(events) + 1}
      /\ events'[Len(events) + 1] = e
      /\ \A j \in DOMAIN events : events'[j] = events[j]
  OBVIOUS
<1> QED
  BY <1>1 DEF ApprovedPatches

\* A new session is a gate nobody has come to yet.
LEMMA RefinesInit == Init => Gated!GInit
<1> SUFFICES ASSUME Init PROVE Gated!GInit
  OBVIOUS
<1>1. /\ phase = "running" /\ node = "recon" /\ patch = NoPatch
      /\ events = <<>> /\ worktree = <<>>
  BY DEF Init
<1>2. GateStage = "idle"
  BY <1>1, Stages DEF GateStage
<1>3. ApprovedPatches = {}
  BY <1>1 DEF ApprovedPatches
<1>4. patch \in PatchType /\ patch.round = 0
  BY <1>1 DEF NoPatch, PatchType
<1> QED
  BY <1>1, <1>2, <1>3, <1>4 DEF Gated!GInit

\* A step after which the session is closed and nothing else has changed.
LEMMA Closes ==
    ASSUME phase' \in {"ended", "raised"}, patch' = patch, worktree' = worktree,
           ApprovedPatches' = ApprovedPatches
    PROVE  Gated!Close
  BY Stages DEF GateStage, Gated!Close

\* Every step of the graph, its errors included, is a step of the gate or none.
LEMMA RefinesStep == Inv /\ [Next]_vars => [Gated!GNext]_(Gated!gvars)
<1> SUFFICES ASSUME Inv, [Next]_vars PROVE Gated!GNext \/ UNCHANGED Gated!gvars
  OBVIOUS
<1>a. /\ Handover /\ events \in Seq(AuditEvent) /\ patch \in PatchType /\ coder_rounds \in Nat
      /\ patch.round = coder_rounds
  BY DEF Inv, TypeOK, Handover
<1>b. events' = events => ApprovedPatches' = ApprovedPatches
  BY DEF ApprovedPatches
<1> USE DEF Gated!GNext, Gated!gvars
<1>1. CASE Recon
  BY <1>1, <1>b, Stages DEF Recon, At, Goto, channels, loop, GateStage
<1>2. CASE Coder
  <2> PICK guarded \in PatchGuarded :
             CoderProposes([round |-> coder_rounds + 1, guarded |-> guarded])
    BY <1>2 DEF Coder
  <2> DEFINE new == [round |-> coder_rounds + 1, guarded |-> guarded]
  <2>1. ApprovedPatches' = ApprovedPatches
    <3>1. Event("coder", new).node # "gate"
      BY DEF Event
    <3> QED
      BY <1>a, <3>1, ApprovedBy DEF CoderProposes, write_ahead
  <2>2. CASE Lost
    BY <2>1, <2>2, LostKeeps, Closes DEF CoderProposes
  <2>3. CASE ~Lost
    <3>1. coder_rounds + 1 \in Nat /\ coder_rounds + 1 > patch.round
      BY <1>a
    <3>2. new \in PatchType
      BY <3>1, OutputAssumption DEF PatchType
    <3>3. route_from_coder(adversary_rounds) \in {"adversary", "critic"}
      BY DEF route_from_coder
    <3>4. GateStage = "idle" /\ GateStage' = "open" /\ patch' = new /\ worktree' = worktree
      BY <2>3, <3>3, Stages DEF CoderProposes, At, Goto, GateStage
    <3> QED
      BY <2>1, <3>1, <3>2, <3>4 DEF Gated!Propose
  <2> QED
    BY <2>2, <2>3
<1>3. CASE Adversary
  <2>1. ApprovedPatches' = ApprovedPatches
    <3>1. Event("adversary", patch).node # "gate"
      BY DEF Event
    <3> QED
      BY <1>3, <1>a, <3>1, ApprovedBy DEF Adversary, write_ahead
  <2>2. CASE Lost
    BY <1>3, <2>1, <2>2, LostKeeps, Closes DEF Adversary
  <2>3. CASE ~Lost
    BY <1>3, <2>1, <2>3, Stages DEF Adversary, At, Goto, GateStage
  <2> QED
    BY <2>2, <2>3
<1>4. CASE Critic
  <2>1. ApprovedPatches' = ApprovedPatches
    <3>1. Event("critic", patch).node # "gate"
      BY DEF Event
    <3> QED
      BY <1>4, <1>a, <3>1, ApprovedBy DEF Critic, write_ahead
  <2>2. CASE Lost
    BY <1>4, <2>1, <2>2, LostKeeps, Closes DEF Critic
  <2>3. CASE ~Lost
    BY <1>4, <2>1, <2>3, Stages DEF Critic, At, Goto, GateStage
  <2> QED
    BY <2>2, <2>3
<1>5. CASE Arbiter
  <2> PICK output \in ArbiterOutputs :
             ArbiterDecides(decide_verdict(output, patch, coder_rounds))
    BY <1>5 DEF Arbiter
  <2> DEFINE decided == decide_verdict(output, patch, coder_rounds)
  <2>1. decided \in Verdict
    BY <1>a, Decided
  <2> HIDE DEF decided
  <2>2. ApprovedPatches' = ApprovedPatches
    <3> DEFINE row == [Event("arbiter", patch) EXCEPT !.verdict = decided]
    <3>1. row.node # "gate"
      BY DEF Event
    <3>2. events' = Append(events, row)
      BY DEF ArbiterDecides, decided, write_ahead
    <3> HIDE DEF row
    <3> QED
      BY <1>a, <3>1, <3>2, ApprovedBy
  <2>3. CASE Lost
    BY <2>2, <2>3, LostKeeps, Closes DEF ArbiterDecides
  <2>4. CASE ~Lost
    <3>1. /\ phase = "running" /\ node = "arbiter" /\ patch' = patch /\ worktree' = worktree
          /\ node' = route_from_arbiter(decided)
          /\ phase' = IF node' = "END" THEN "ended" ELSE "running"
      BY <2>4 DEF ArbiterDecides, decided, At, Goto, loop
    <3>2. GateStage = "open"
      BY <3>1, Stages DEF GateStage
    <3>3. node' \in {"gate", "coder", "END"}
      BY <2>1, <3>1, Routing
    <3>4. CASE node' = "gate"
      BY <2>2, <3>1, <3>2, <3>4, Stages DEF GateStage
    <3>5. CASE node' = "coder"
      BY <2>2, <3>1, <3>2, <3>5, Stages DEF GateStage, Gated!Drop
    <3>6. CASE node' = "END"
      BY <2>2, <3>1, <3>6, Closes
    <3> QED
      BY <3>3, <3>4, <3>5, <3>6
  <2> QED
    BY <2>3, <2>4
<1>6. CASE GateInterrupt
  BY <1>6, <1>b, Stages DEF GateInterrupt, At, channels, loop, GateStage, Gated!Ask
<1>7. ASSUME NEW decision \in Decisions, Resume(decision)
      PROVE  UNCHANGED Gated!gvars
  BY <1>7, <1>b, Stages DEF Resume, loop, GateStage
<1>8. CASE RecordGate
  <2> DEFINE row == [Event("gate", patch) EXCEPT !.gate = gate_decision]
  <2>1. row.node = "gate" /\ row.gate = gate_decision /\ row.patch = patch
    BY DEF Event
  <2>2. events' = Append(events, row) /\ GateStage = "asking" /\ patch' = patch
        /\ worktree' = worktree
    BY <1>8, LostKeeps, Stages DEF RecordGate, write_ahead, loop, At, GateStage
  <2> HIDE DEF row
  <2>3. CASE gate_decision = "approve"
    <3>1. ApprovedPatches' = ApprovedPatches \cup {patch}
      BY <1>a, <2>1, <2>2, <2>3, ApprovedBy
    <3>2. GateStage' \in {"granted", "closed"}
      <4>1. CASE Lost
        BY <4>1, LostKeeps, Stages DEF GateStage
      <4>2. CASE ~Lost
        BY <1>8, <1>a, <2>3, <4>2, Stages
           DEF RecordGate, At, Goto, route_from_record_gate, Handover, Alive, GateStage
      <4> QED
        BY <4>1, <4>2
    <3> QED
      BY <2>2, <3>1, <3>2 DEF Gated!Grant
  <2>4. CASE gate_decision # "approve"
    <3>1. ApprovedPatches' = ApprovedPatches
      BY <1>a, <2>1, <2>2, <2>4, ApprovedBy
    <3>2. phase' \in {"ended", "raised"}
      BY <1>8, <2>4, LostKeeps DEF RecordGate, Goto, route_from_record_gate
    <3> QED
      BY <2>2, <3>1, <3>2, Closes
  <2> QED
    BY <2>3, <2>4
<1>9. CASE RunnerApply
  <2>1. GateStage = "granted" /\ patch' = patch /\ events' = events
    BY <1>9, Stages DEF RunnerApply, At, channels, loop, GateStage
  <2>2. GateStage' = "idle"
    BY <1>9, Stages DEF RunnerApply, At, NotRun, control, GateStage
  <2> QED
    BY <1>9, <1>b, <2>1, <2>2 DEF RunnerApply, Gated!Apply
<1>10. CASE RunnerTest
  <2>1. run # NotRun /\ run' # NotRun
    BY <1>10 DEF RunnerTest, NotRun
  <2> QED
    BY <1>10, <1>b, <2>1, Stages DEF RunnerTest, At, control, channels, loop, GateStage
<1>11. CASE RunnerRecord
  <2>1. ApprovedPatches' = ApprovedPatches
    <3>1. RunnerEvent.node # "gate"
      BY DEF RunnerEvent, Event
    <3> QED
      BY <1>11, <1>a, <3>1, ApprovedBy DEF RunnerRecord, write_ahead
  <2>2. CASE Lost
    BY <1>11, <2>1, <2>2, LostKeeps, Closes DEF RunnerRecord
  <2>3. CASE ~Lost
    <3>1. run # NotRun
      BY <1>11 DEF RunnerRecord, NotRun
    <3>2. node' \in {"coder", "END"}
      BY <1>11, <2>3, Routing DEF RunnerRecord, Goto
    <3>3. /\ phase = "running" /\ node = "runner" /\ patch' = patch /\ worktree' = worktree
          /\ phase' = IF node' = "END" THEN "ended" ELSE "running"
      BY <1>11, <2>3 DEF RunnerRecord, At, Goto, loop
    <3>4. CASE node' = "coder"
      BY <2>1, <3>1, <3>3, <3>4, Stages DEF GateStage
    <3>5. CASE node' = "END"
      BY <2>1, <3>3, <3>5, Closes
    <3> QED
      BY <3>2, <3>4, <3>5
  <2> QED
    BY <2>2, <2>3
<1>12. CASE Abort \/ GraphRecursionError
  BY <1>12, <1>b, Closes DEF Abort, GraphRecursionError, channels, loop
<1>13. CASE UNCHANGED vars
  BY <1>13, <1>b DEF vars, control, channels, loop, GateStage
<1> QED
  BY <1>1, <1>2, <1>3, <1>4, <1>5, <1>6, <1>7, <1>8, <1>9, <1>10, <1>11, <1>12, <1>13
     DEF Next, GraphStep, Terminated

\* The falsification loop with its gate, its log and its runner is an
\* implementation of GatedApply: a grant comes from a durable approval and is good
\* for one attempt at one patch.
THEOREM SessionRefinesGate == Spec => ImplementsGatedApply
<1>1. Init => Gated!GInit
  BY RefinesInit
<1>2. Inv /\ [Next]_vars => [Gated!GNext]_(Gated!gvars)
  BY RefinesStep
<1> QED
  BY <1>1, <1>2, Invariance, PTL DEF Spec, ImplementsGatedApply, Gated!GSpec

-----------------------------------------------------------------------------
(* The drivers implement Session. *)

\* A driver's step is a step of its session, or one the session does not see.
LEMMA StepsOfSession == DriverNext \/ UNCHANGED dvars => [Next]_vars
<1>1. Pull => Next
  BY DEF Pull, Next
<1>2. Answer => Next
  <2> SUFFICES ASSUME NEW decision \in answers, Resume(decision)
               PROVE  \E d \in Decisions : Resume(d)
    BY DEF Answer, Next
  <2>1. answers \subseteq Decisions
    BY DEF answers, default_decision, Decisions
  <2> QED
    BY <2>1
<1>3. Fail => Next
  BY DEF Fail, Next
<1>4. CreateWorktree \/ WorkerCreateWorktree \/ DropInterrupt \/ Return \/ Propagate
      \/ Finished \/ UNCHANGED dvars => UNCHANGED vars
  BY DEF CreateWorktree, WorkerCreateWorktree, Create, DropInterrupt, Return, Propagate,
         Finished, dvars
<1> QED
  BY <1>1, <1>2, <1>3, <1>4 DEF DriverNext, DriverStep

\* run_session, the plain CLI and the TUI implement Session: whatever is said of a
\* session, however it is resumed, holds of the sessions they run.
THEOREM DriversRunSession == DriverSpec => Spec
<1>1. DriverInit => Init
  BY DEF DriverInit
<1>2. [DriverNext]_dvars => [Next]_vars
  BY StepsOfSession
<1> QED
  BY <1>1, <1>2, PTL DEF DriverSpec, Spec

\* The worktree manager returns a checkout.
LEMMA Created ==
    ASSUME NEW w \in Checkout
    PROVE  create_worktree(w).tree \in Checkout
  BY DEF create_worktree, git_worktree_add, Checkout

\* A driver keeps to its states and its session to its types: under no driver does the
\* adversary exceed its budget.
THEOREM DriverTypeCorrect == DriverSpec => []DriverTypeOK
<1> DEFINE Own == /\ caller \in Callers
                  /\ pc \in {"start", "worker", "outer", "inner", "returned", "exception"}
                  /\ decider \in {"caller", "default"}
                  /\ checkout \in Checkout
<1>1. DriverInit => Own
  BY DEF DriverInit, NoCheckout, Checkout
<1>2. Own /\ [DriverNext]_dvars => Own'
  <2> SUFFICES ASSUME Own, [DriverNext]_dvars PROVE Own'
    OBVIOUS
  <2>1. CASE CreateWorktree \/ WorkerCreateWorktree
    BY <2>1, Created DEF CreateWorktree, WorkerCreateWorktree, Create
  <2>2. CASE Pull \/ Answer \/ DropInterrupt \/ Return \/ Propagate \/ Fail \/ Finished
             \/ UNCHANGED dvars
    BY <2>2 DEF Pull, Answer, DropInterrupt, Return, Propagate, Fail, Finished, dvars,
                resumed_in, leave_loop
  <2> QED
    BY <2>1, <2>2 DEF DriverNext, DriverStep
<1>3. TypeOK /\ Own => DriverTypeOK
  BY DEF DriverTypeOK
<1> QED
  BY <1>1, <1>2, <1>3, DriversRunSession, TypeCorrect, PTL DEF DriverSpec

-----------------------------------------------------------------------------

\* The plain CLI has no stream inside a stream, and returns from a session that ended.
OneStream ==
    caller = "stream_updates" => pc # "inner" /\ (pc = "returned" => phase = "ended")

\* Restarting its loop for every answer, the plain CLI leaves no interrupt unanswered.
THEOREM PlainAnswers == DriverSpec => []PlainAnswersAll
<1>1. DriverInit => OneStream
  BY DEF DriverInit, OneStream
<1>2. OneStream /\ [DriverNext]_dvars => OneStream'
  BY DEF OneStream, DriverNext, DriverStep, CreateWorktree, WorkerCreateWorktree, Create, Pull,
         Answer, DropInterrupt, Return, Propagate, Fail, Finished, dvars, vars, control,
         resumed_in, leave_loop
<1>3. OneStream => PlainAnswersAll
  BY DEF OneStream, PlainAnswersAll, EveryInterruptAnswered
<1> QED
  BY <1>1, <1>2, <1>3, PTL DEF DriverSpec

\* What holds of a session nobody approves anything of.
Unapproved == gate_decision # "approve" /\ node # "runner" /\ worktree = <<>>

FailsClosed == caller = "run_session" /\ decider = "default" => Unapproved

\* A step of the graph does not approve anything.
LEMMA GraphUnapproved ==
    ASSUME Unapproved, GraphStep \/ Abort
    PROVE  Unapproved'
<1>1. CASE Recon \/ GateInterrupt \/ RunnerApply \/ RunnerTest \/ RunnerRecord
           \/ GraphRecursionError \/ Abort
  BY <1>1 DEF Unapproved, Recon, GateInterrupt, RunnerApply, RunnerTest, RunnerRecord,
              GraphRecursionError, Abort, At, Goto, channels
<1>2. CASE Coder \/ Adversary \/ Critic
  BY <1>2 DEF Unapproved, Coder, CoderProposes, Adversary, Critic, Lost, Goto, channels,
              route_from_coder
<1>3. CASE Arbiter
  <2>1. \A v : route_from_arbiter(v) # "runner"
    BY DEF route_from_arbiter
  <2> QED
    BY <1>3, <2>1 DEF Unapproved, Arbiter, ArbiterDecides, Lost, Goto, channels
<1>4. CASE RecordGate
  BY <1>4 DEF Unapproved, RecordGate, Lost, Goto, channels, route_from_record_gate
<1> QED
  BY <1>1, <1>2, <1>3, <1>4 DEF GraphStep

\* run_session without a decide function applies nothing, in whatever round and through
\* whatever gate of the session.
THEOREM LibraryClosed == DriverSpec => []LibraryFailsClosed
<1>1. DriverInit => FailsClosed
  BY DEF DriverInit, Init, FailsClosed, Unapproved
<1>2. FailsClosed /\ [DriverNext]_dvars => FailsClosed'
  <2> SUFFICES ASSUME FailsClosed, [DriverNext]_dvars, caller' = "run_session",
                      decider' = "default"
               PROVE  Unapproved'
    BY DEF FailsClosed
  <2>1. caller = "run_session" /\ decider = "default"
    BY DEF DriverNext, DriverStep, CreateWorktree, WorkerCreateWorktree, Create, Pull, Answer,
           DropInterrupt, Return, Propagate, Fail, Finished, dvars
  <2>2. Unapproved
    BY <2>1 DEF FailsClosed
  <2>3. CASE Pull \/ Fail
    BY <2>2, <2>3, GraphUnapproved DEF Pull, Fail
  <2>4. CASE Answer
    <3>1. answers = {"reject"}
      BY <2>1 DEF answers, default_decision
    <3> QED
      BY <2>2, <2>4, <3>1 DEF Answer, Resume, normalize, Unapproved
  <2>5. CASE UNCHANGED vars
    BY <2>2, <2>5 DEF Unapproved, vars, control, channels
  <2> QED
    BY <2>3, <2>4, <2>5 DEF DriverNext, DriverStep, CreateWorktree, WorkerCreateWorktree, Create,
                            DropInterrupt, Return, Propagate, Finished, dvars
<1>3. FailsClosed => LibraryFailsClosed
  BY DEF FailsClosed, Unapproved, LibraryFailsClosed, NothingAppliesSilently
<1> QED
  BY <1>1, <1>2, <1>3, PTL DEF DriverSpec

=============================================================================
