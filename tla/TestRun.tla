------------------------------ MODULE TestRun ------------------------------
(***************************************************************************)
(* runner/process.py: run_tests, which is subprocess.run over pytest with  *)
(* captured output and a timeout.  The tests may leave a process running.  *)
(* It is attached while it holds the pipe that communicate() reads to its   *)
(* end, and detached when it has redirected its output.                     *)
(***************************************************************************)

VARIABLES
    pytest,     \* "none", "running", or what it exited with: "passed", "failed"
    child,      \* a process the tests started: "none", "attached", "detached"
    orphans     \* children that outlived their run_tests: [tree, owner, left]

testvars == <<pytest, child, orphans>>

TestInit == pytest = "none" /\ child = "none" /\ orphans = {}

StartPytest == pytest = "none" /\ pytest' = "running" /\ UNCHANGED <<child, orphans>>

Spawn == /\ pytest = "running" /\ child = "none"
         /\ child' \in {"attached", "detached"}
         /\ UNCHANGED <<pytest, orphans>>

ChildExits == child # "none" /\ child' = "none" /\ UNCHANGED <<pytest, orphans>>

PytestExits == /\ pytest = "running"
               /\ pytest' \in {"passed", "failed"}
               /\ UNCHANGED <<child, orphans>>

\* run_tests is over; a child that is still there stays behind in its worktree.
Leave(tree, owner, left) ==
    /\ pytest' = "none" /\ child' = "none"
    /\ orphans' = IF child = "none" THEN orphans
                  ELSE orphans \cup {[tree |-> tree, owner |-> owner, left |-> left]}

\* communicate() has read the output to its end: pytest and whoever else held the
\* pipe have closed it.
Returned(tree, owner) ==
    /\ pytest \in {"passed", "failed"} /\ child # "attached"
    /\ Leave(tree, owner, "exit")

\* Mutant: after the kill the rest of the output is read as well.
TimedOutDrains(tree, owner) ==
    /\ pytest = "running" /\ child # "attached"
    /\ Leave(tree, owner, "timeout")

\* The timeout: pytest, if it is still there, is killed and waited for; nobody else is.
TimedOut(tree, owner) ==
    /\ pytest = "running" \/ (pytest # "none" /\ child = "attached")
    /\ Leave(tree, owner, "timeout")

TestWorld == Spawn \/ ChildExits \/ PytestExits
=============================================================================
