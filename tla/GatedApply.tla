----------------------------- MODULE GatedApply -----------------------------
(***************************************************************************)
(* What the falsification loop promises its user, without the loop: drafts *)
(* are proposed one after the other, each may be put to a human, and only  *)
(* a draft with an approval on record is ever applied, once.               *)
(* Session implements this specification.                                  *)
(***************************************************************************)
EXTENDS Integers, Sequences

CONSTANT Draft         \* the drafts: records with a field round

VARIABLES
    stage,       \* "idle", "open", "asking", "granted", "closed"
    draft,       \* the latest draft
    approved,    \* the drafts with a durable approval
    applied      \* the drafts applied, in order

gvars == <<stage, draft, approved, applied>>

GInit == /\ stage = "idle"
         /\ draft \in Draft /\ draft.round = 0
         /\ approved = {}
         /\ applied = <<>>

Propose == /\ stage = "idle"
           /\ stage' = "open"
           /\ draft' \in Draft /\ draft'.round > draft.round
           /\ UNCHANGED <<approved, applied>>

Ask == /\ stage = "open"
       /\ stage' = "asking"
       /\ UNCHANGED <<draft, approved, applied>>

Drop == /\ stage = "open"
        /\ stage' = "idle"
        /\ UNCHANGED <<draft, approved, applied>>

\* The approval goes on record in the step that grants it; a crash may still
\* close the session in that step.
Grant == /\ stage = "asking"
         /\ stage' \in {"granted", "closed"}
         /\ approved' = approved \cup {draft}
         /\ UNCHANGED <<draft, applied>>

\* A grant is good for one attempt, successful or not.
Apply == /\ stage = "granted"
         /\ stage' = "idle"
         /\ applied' \in {applied, Append(applied, draft)}
         /\ UNCHANGED <<draft, approved>>

Close == /\ stage' = "closed"
         /\ UNCHANGED <<draft, approved, applied>>

GNext == Propose \/ Ask \/ Drop \/ Grant \/ Apply \/ Close

GSpec == GInit /\ [][GNext]_gvars

\* The promise itself: what is applied was approved, and in the order drafted.
OnlyApproved ==
    /\ \A i \in DOMAIN applied : applied[i] \in approved
    /\ \A i, j \in DOMAIN applied : i < j => applied[i].round < applied[j].round
=============================================================================
