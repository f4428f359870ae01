----------------------------- MODULE MCSession -----------------------------
(* A small instance of Session for TLC, with the zoo's view of its log.    *)
EXTENDS Zoo

\* One verdict of each class that decide_verdict tells apart.
MCOutputs == {"pass", "patch_fix", "rubric_fail", "malformed"}

MCMixed == {TRUE, FALSE}
=============================================================================
