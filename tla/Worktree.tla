------------------------------ MODULE Worktree ------------------------------
(***************************************************************************)
(* The git worktree of one thread id: the directory, and git's own entry   *)
(* for it in the source repository, which outlives the directory.          *)
(***************************************************************************)

Checkout == [registered : BOOLEAN, on_disk : BOOLEAN]

NoCheckout == [registered |-> FALSE, on_disk |-> FALSE]

\* "git worktree add" refuses a path that is registered already, even when its
\* directory is missing.
git_worktree_add(w) ==
    IF w.registered \/ w.on_disk THEN [ok |-> FALSE, tree |-> w]
    ELSE [ok |-> TRUE, tree |-> [registered |-> TRUE, on_disk |-> TRUE]]

\* shutil.rmtree on an existing target, then git worktree add.
create_worktree(w) == git_worktree_add([w EXCEPT !.on_disk = FALSE])

\* What "git worktree remove --force" leaves, whose exit code is not looked at.  Nothing;
\* or all of it, where git has no entry, finds no .git file in the directory, or a lock;
\* or the directory without its entry, where something in it cannot be deleted.
remove_worktree(w) ==
    IF w.registered THEN {NoCheckout, w, [w EXCEPT !.registered = FALSE]} ELSE {w}
=============================================================================
