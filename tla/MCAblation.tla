----------------------------- MODULE MCAblation -----------------------------
(* Small instances of Ablation for TLC.                                     *)
EXTENDS Ablation

\* Two bugs of one repository with the same description.
TwoBugs == <<[repo |-> 1, dir |-> 1, commit |-> 11, sha8 |-> 11, task_hash |-> 1, bug_type |-> 1],
             [repo |-> 1, dir |-> 1, commit |-> 12, sha8 |-> 12, task_hash |-> 1, bug_type |-> 2]>>

\* Their commits begin alike as well: one database, one thread, one worktree.
SameNames == <<[repo |-> 1, dir |-> 1, commit |-> 11, sha8 |-> 1, task_hash |-> 1, bug_type |-> 1],
               [repo |-> 1, dir |-> 1, commit |-> 12, sha8 |-> 1, task_hash |-> 1, bug_type |-> 2]>>
=============================================================================
