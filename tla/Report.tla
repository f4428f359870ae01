------------------------------- MODULE Report -------------------------------
(***************************************************************************)
(* ablation/report.py: what is counted, and over which lanes, before any   *)
(* statistic is computed.  A lane result is [bug, mode, success, verdict,   *)
(* test_passed, ...]; bug is its place in the corpus.                       *)
(***************************************************************************)
EXTENDS Integers, Sequences, FiniteSetsExt

\* The places of the results that a filter keeps.
Where(results, keep(_)) == {i \in DOMAIN results : keep(results[i])}

passed(results, places) == Cardinality({i \in places : results[i].test_passed = "passed"})

\* compute_mode_stats: a tally of the lanes whose bugs agree on key, a
\* function on the bugs.
Tally(results, places, key) ==
    [k \in {key[results[i].bug] : i \in places} |->
        LET same == {i \in places : key[results[i].bug] = k}
        IN  [total |-> Cardinality(same), passed |-> passed(results, same)]]

\* Mutant: lanes that erred are left out of the sample.
ModeResultsDecided(results, mode) ==
    Where(results, LAMBDA r : r.mode = mode /\ r.verdict # "error")

mode_results(results, mode) == Where(results, LAMBDA r : r.mode = mode)

compute_mode_stats(results, mode, type, repo) ==
    LET mine == mode_results(results, mode)
    IN  [n |-> Cardinality(mine),
         n_pass |-> passed(results, mine),
         averaged |-> {i \in mine : results[i].success},
         by_bug_type |-> Tally(results, mine, type),
         by_repo |-> Tally(results, mine, repo)]

\* compute_effect_sizes: a metric is compared when both arms have a lane that
\* counts as successful.
compute_effect_sizes(results) ==
    IF \A mode \in {"falsification", "flat"} :
          Where(results, LAMBDA r : r.mode = mode /\ r.success) # {}
    THEN {"pass_rate", "tokens_total", "elapsed_s"} ELSE {}

\* generate_report's own counts, over the corpus.
Distribution(bugs, key) ==
    [k \in {key[b] : b \in bugs} |-> Cardinality({b \in bugs : key[b] = k})]

TotalPassed(tally) == MapThenSumSet(LAMBDA k : tally[k].passed, DOMAIN tally)
=============================================================================
