------------------------------ MODULE SeedRepo ------------------------------
(***************************************************************************)
(* ablation/corpus.py: the corpus of seeded bugs, and the clones they       *)
(* share.  A clone's HEAD is what the last call that checked something out  *)
(* in it left there.                                                        *)
(***************************************************************************)
EXTENDS Integers, Sequences

CONSTANTS
    Corpus,      \* the bugs, in order
    MaxPrep      \* bound: calls that prepare the clones

\* repo_url, commit_sha and bug_type of SeedBug, numbered, and the names made of its
\* fields.  dir: the last component of repo_url; sha8: commit_sha[:8]; task_hash:
\* hash(description) % 1000000.  -commit is fixed_commit_sha.
SeedBug == [repo : Nat, dir : Nat, commit : Nat \ {0}, sha8 : Nat, task_hash : Nat, bug_type : Nat]

ASSUME SeedAssumption ==
    /\ Corpus \in Seq(SeedBug)
    /\ \A b, c \in 1 .. Len(Corpus) :
         /\ Corpus[b].repo = Corpus[c].repo => Corpus[b].dir = Corpus[c].dir
         /\ Corpus[b].commit = Corpus[c].commit => Corpus[b].sha8 = Corpus[c].sha8
    /\ MaxPrep \in Nat

VARIABLES
    clone,          \* of each clone directory: [state, head]
    source_repos,   \* the repositories a setup_seed_repo has returned a path for
    touched,        \* what was checked out so far: [bug, fix]
    prep            \* calls so far

seedvars == <<clone, source_repos, touched, prep>>

Bugs == 1 .. Len(Corpus)
Dirs == {Corpus[b].dir : b \in Bugs}

DefaultBranch == 0

SeedInit ==
    /\ clone = [d \in Dirs |-> [state |-> "none", head |-> DefaultBranch]]
    /\ source_repos = {} /\ touched = {}
    /\ prep = 0

Prepare(b, state, head) ==
    /\ prep < MaxPrep
    /\ prep' = prep + 1
    /\ clone' = [clone EXCEPT ![Corpus[b].dir] = [state |-> state, head |-> head]]

\* Mutant: a clone that is there already is taken as it is.
SetupCloneOnly(b) ==
    LET before == clone[Corpus[b].dir]
    IN  /\ before.state # "partial"
        /\ Prepare(b, "cloned", IF before.state = "none" THEN Corpus[b].commit ELSE before.head)
        /\ source_repos' = source_repos \cup {Corpus[b].repo}
        /\ touched' = touched \cup {[bug |-> b, fix |-> FALSE]}

\* setup_seed_repo: clone unless the directory is there, whatever it is a clone of, then
\* check out.
Setup(b) ==
    /\ clone[Corpus[b].dir].state # "partial"
    /\ Prepare(b, "cloned", Corpus[b].commit)
    /\ source_repos' = source_repos \cup {Corpus[b].repo}
    /\ touched' = touched \cup {[bug |-> b, fix |-> FALSE]}

\* git has no such commit, as in the clone of another repository whose URL ends the
\* same, or refuses: check=True raises.
CheckoutFails(b) ==
    /\ Prepare(b, IF clone[Corpus[b].dir].state = "none" THEN "cloned"
                  ELSE clone[Corpus[b].dir].state, clone[Corpus[b].dir].head)
    /\ UNCHANGED <<source_repos, touched>>

\* The process dies inside git clone.  The directory stays, so no later call clones
\* again, and the checkout in it fails.
CloneDies(b) ==
    /\ clone[Corpus[b].dir].state = "none"
    /\ Prepare(b, "partial", DefaultBranch)
    /\ UNCHANGED <<source_repos, touched>>

\* apply_fix leaves the clone at the fix.
ApplyFix(b) ==
    /\ clone[Corpus[b].dir].state = "cloned"
    /\ Prepare(b, "cloned", -Corpus[b].commit)
    /\ touched' = touched \cup {[bug |-> b, fix |-> TRUE]}
    /\ UNCHANGED source_repos

SeedStep == \E b \in Bugs : Setup(b) \/ CheckoutFails(b) \/ CloneDies(b) \/ ApplyFix(b)

\* What was checked out in the clone that b is in.
TouchedFor(b) == {c \in touched : Corpus[c.bug].dir = Corpus[b].dir}
=============================================================================
