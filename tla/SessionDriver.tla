--------------------------- MODULE SessionDriver ---------------------------
(***************************************************************************)
(* Who runs a session and answers its gate: run_session (builder.py), the  *)
(* plain CLI's stream_updates and the TUI's worker thread (cli.py), each   *)
(* over the graph of Session and a worktree created before it.             *)
(***************************************************************************)
EXTENDS Session, Worktree

CONSTANT Callers     \* the drivers to consider

ASSUME CallersAssumption == Callers \subseteq {"run_session", "stream_updates", "run_tui"}

VARIABLES
    caller,     \* which driver runs the session
    pc,         \* "start", "worker", "outer", "inner", "returned", "exception"
    decider,    \* "caller": a decide function was passed; "default": None was
    checkout

dvars == <<vars, caller, pc, decider, checkout>>

\* Mutant: every driver falls back to the CLI's _default_decide.
DefaultApproves == "approve"

default_decision == IF caller = "run_session" THEN "reject" ELSE "approve"

\* The TUI's _handle_interrupt sets the decision itself, whoever was to decide.
answers == IF decider = "default" \/ caller = "run_tui" THEN {default_decision}
           ELSE Decisions

\* Mutant: the plain CLI resumes in a stream of its own inside the first, as the
\* other two drivers do.
NestedStream == "inner"

\* stream_updates restarts its own loop with the resume command; the others
\* drain a second stream inside the first.
resumed_in == IF caller = "stream_updates" THEN "outer" ELSE "inner"

\* Mutant: the loop has no exit.
LeaveNever(had_interrupt) == "outer"

leave_loop(had_interrupt) == IF had_interrupt THEN "outer" ELSE "returned"

DriverInit ==
    /\ Init
    /\ caller \in Callers
    /\ pc = "start"
    /\ decider \in {"caller", "default"}
    /\ checkout = NoCheckout

\* Before the stream: the CLI's main, or the caller of run_session, creates the
\* worktree; under --tui the worker thread then creates it again.
Create(from, to) ==
    LET made == create_worktree(checkout)
    IN  /\ pc = from
        /\ checkout' = made.tree
        /\ pc' = IF made.ok THEN to ELSE "exception"
        /\ UNCHANGED <<vars, caller, decider>>

CreateWorktree == Create("start", IF caller = "run_tui" THEN "worker" ELSE "outer")

WorkerCreateWorktree == Create("worker", "outer")

\* The driver pulls the next update out of the stream it is in.
Pull == /\ pc \in {"outer", "inner"}
        /\ GraphStep
        /\ UNCHANGED <<caller, pc, decider, checkout>>

Answer == /\ pc = "outer"
          /\ \E decision \in answers : Resume(decision)
          /\ pc' = resumed_in
          /\ UNCHANGED <<caller, decider, checkout>>

\* An interrupt that surfaces in the inner stream is an update like any other;
\* both streams are then exhausted.
DropInterrupt == /\ pc = "inner" /\ phase = "interrupted"
                 /\ pc' = "returned"
                 /\ UNCHANGED <<vars, caller, decider, checkout>>

Return == /\ pc \in {"outer", "inner"} /\ phase = "ended"
          /\ pc' = leave_loop(FALSE)
          /\ UNCHANGED <<vars, caller, decider, checkout>>

Propagate == /\ pc \in {"outer", "inner"} /\ phase = "raised"
             /\ pc' = "exception"
             /\ UNCHANGED <<vars, caller, decider, checkout>>

Fail == /\ pc \in {"outer", "inner"}
        /\ Abort
        /\ UNCHANGED <<caller, pc, decider, checkout>>

Finished == pc \in {"returned", "exception"} /\ UNCHANGED dvars

DriverStep == \/ CreateWorktree \/ WorkerCreateWorktree \/ Pull \/ Answer
              \/ DropInterrupt \/ Return \/ Propagate

DriverNext == DriverStep \/ Fail \/ Finished

\* The driver is a loop that blocks on nothing but calls with a timeout.
DriverSpec == DriverInit /\ [][DriverNext]_dvars /\ WF_dvars(DriverStep)

-----------------------------------------------------------------------------

\* The driver's states, over a well-typed session.
DriverTypeOK ==
    /\ TypeOK
    /\ caller \in Callers
    /\ pc \in {"start", "worker", "outer", "inner", "returned", "exception"}
    /\ decider \in {"caller", "default"}
    /\ checkout \in Checkout

\* builder.py, run_session: "when the gate interrupts, ask decide".  A driver that
\* returns has answered every question the session put, so none is left hanging
\* with a patch that was never decided.
EveryInterruptAnswered == pc = "returned" => phase # "interrupted"

\* The plain CLI loops over interrupts, so there it holds: every question put in a
\* session that came to its end was answered.
PlainAnswersAll == caller = "stream_updates" => EveryInterruptAnswered

\* builder.py's default is fail-closed ("nothing applies silently") and docs/index.md
\* has the CLI reject without --auto-approve: when nobody supplies a decision, no
\* patch reaches the worktree.
NothingAppliesSilently == decider = "default" => worktree = <<>>

\* Through run_session it holds, over every round and gate of the session.
LibraryFailsClosed == caller = "run_session" => NothingAppliesSilently

\* Every session comes to an end, whatever the models, the tests and the human
\* answer: the coder's budget bounds the gates, the recursion limit each stream.
DriverReturns == <>(pc \in {"returned", "exception"})

=============================================================================
