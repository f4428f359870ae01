-------------------------------- MODULE Zoo --------------------------------
(***************************************************************************)
(* zoo/view.py over the log of one session, at any moment of that session: *)
(* what ZooView._build_specimen makes of the rows written so far.  (What   *)
(* the policy then does with a specimen is Curation.)                      *)
(***************************************************************************)
EXTENDS Session

\* The rows of one node, by where they stand in the log.
node_events(n) == {i \in DOMAIN events : events[i].node = n}

\* Mutant: the first row of the node, not the latest.
FirstOf(n) == events[CHOOSE i \in node_events(n) : \A j \in node_events(n) : i <= j]

last_of(n) == events[CHOOSE i \in node_events(n) : \A j \in node_events(n) : j <= i]

roots == {i \in DOMAIN events : events[i].parent = 0}

NoSpecimen == [id |-> 0]

Incomplete == \/ roots = {}
              \/ node_events("coder") = {}
              \/ node_events("arbiter") = {}

\* The coder's own row carries no license, only the task and the round.
root_license == ""

\* Mutant: the first row of the node for everything but the patch.
AboutFirst(n) == IF node_events(n) = {} THEN 0 ELSE FirstOf(n).patch.round

\* The texts by the patch they are about: 0 where the session has no such row.
about(n) == IF node_events(n) = {} THEN 0 ELSE last_of(n).patch.round

_build_specimen ==
    IF Incomplete THEN NoSpecimen
    ELSE [id       |-> CHOOSE r \in roots : \A other \in roots : r <= other,
          patch    |-> last_of("coder").patch,
          attack   |-> about("adversary"),
          critique |-> about("critic"),
          judged   |-> about("arbiter"),
          verdict  |-> last_of("arbiter").verdict,
          license  |-> root_license]

-----------------------------------------------------------------------------

\* view.py's "latest patch, attack, critique, verdict" belong together once a
\* session has ended: the verdict and the critique are about the specimen's own
\* patch, and so is its attack while the adversary had budget.  Only the row a
\* session starts with is a root.
SpecimenCoherent ==
    LET s == _build_specimen
    IN  phase = "ended" =>
            /\ s # NoSpecimen /\ s.id = 1
            /\ s.judged = s.patch.round /\ s.critique = s.patch.round
            /\ s.patch = patch /\ s.verdict = verdict
            /\ s.patch.round <= MAX_ADVERSARY_ROUNDS => s.attack = s.patch.round

\* A specimen built while the session runs, or after it raised, is at most one
\* round out of step: its verdict and its critique are about its own patch or the
\* one before, and the verdict is never newer than the critique.
SpecimenLagsOneRound ==
    LET s == _build_specimen
    IN  s # NoSpecimen => /\ s.judged <= s.critique
                          /\ s.critique <= s.patch.round
                          /\ s.patch.round <= s.judged + 1

=============================================================================
