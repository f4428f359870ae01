-------------------------- MODULE MCSessionDriver --------------------------
(* Small instances of SessionDriver for TLC.                               *)
EXTENDS SessionDriver

MCOutputs == {"pass", "patch_fix", "rubric_fail"}
AllCallers == {"run_session", "stream_updates", "run_tui"}
MCSafe    == {FALSE}
=============================================================================
