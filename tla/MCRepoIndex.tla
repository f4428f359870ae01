---------------------------- MODULE MCRepoIndex ----------------------------
(* A small instance of RepoIndex for TLC: a long method in a class in a     *)
(* class, and after a commit a method of the same name, of two lines, in a  *)
(* class beside a function with a function inside, or nothing.              *)
EXTENDS RepoIndex, TLC

Define(kind, name, first, last) == [kind |-> kind, name |-> name, first |-> first, last |-> last]

Nested ==
    [lines |-> <<1, 1, 1, 3, 2, 3>>,
     definitions |-> <<Define("class", "C", 1, 6), Define("class", "D", 2, 6),
                       Define("function", "f", 2, 6)>>]

Rewritten ==
    [lines |-> <<1, 1, 1, 2, 1>>,
     definitions |-> <<Define("class", "C", 1, 3), Define("function", "f", 2, 3),
                       Define("function", "g", 4, 5), Define("function", "f", 5, 5)>>]

Emptied == [lines |-> <<1>>, definitions |-> <<>>]

SomeSources == {Nested, Rewritten, Emptied}
Symmetric == Permutations(Sessions)
=============================================================================
