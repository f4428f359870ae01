------------------------------ MODULE Curation ------------------------------
(***************************************************************************)
(* zoo/view.py's rebuild under zoo/curation.py's policy: the sessions of    *)
(* the audit log, oldest first, become specimens, which the policy keeps as *)
(* they are, distils or leaves out.  The sessions are those of a client     *)
(* that puts LicenseClassifier's answer into the root row; the graph's own  *)
(* root rows have no license (Zoo).                                        *)
(***************************************************************************)
EXTENDS Licenses

CONSTANTS
    MaxSessions,     \* bound on the log
    Repositories     \* the repositories the sessions are about

\* All but BSD-2-Clause, ISC, Zlib and Python-2.0, GPL-2.0's siblings and CDDL-1.0,
\* which the policy treats as it does those here.
PERMISSIVE_LICENSES == {"MIT", "Apache-2.0", "BSD-3-Clause", "Unlicense"}
NON_PERMISSIVE_LICENSES == {"GPL-2.0", "GPL-3.0", "AGPL-3.0", "LGPL-3.0", "MPL-2.0", "EPL-2.0"}

ASSUME CurationAssumption ==
    /\ MaxSessions \in Nat
    /\ \A repo \in Repositories : /\ repo.pyproject \in STRING /\ repo.setup_cfg \in STRING
                                  /\ repo.files \in Seq(SUBSET STRING)

VARIABLES
    log,          \* the sessions of read_all, grouped by thread, oldest first
    allow_unknown_license,
    next,         \* the session rebuild is at
    specimens

cvars == <<log, allow_unknown_license, next, specimens>>

\* judged: the session has both a coder and an arbiter row; texts: its patch, attack and
\* critique are not all empty.
LoggedSession == [repo : Repositories, judged : BOOLEAN, texts : BOOLEAN]

\* strip().upper(), which changes the names that have small letters.
upper(spdx) == CASE spdx = "Apache-2.0"   -> "APACHE-2.0"
                 [] spdx = "BSD-3-Clause" -> "BSD-3-CLAUSE"
                 [] spdx = "Unlicense"    -> "UNLICENSE"
                 [] spdx = "Foo-1.0"      -> "FOO-1.0"
                 [] OTHER                 -> spdx

should_include(spdx) ==
    IF upper(spdx) \in PERMISSIVE_LICENSES \cup NON_PERMISSIVE_LICENSES THEN TRUE
    ELSE allow_unknown_license

\* Mutant: a license that is not known to need distilling is kept as it is.
DistilListedOnly(spdx, texts) == upper(spdx) \in NON_PERMISSIVE_LICENSES

should_distill(spdx, texts) ==
    IF spdx = "" THEN ~allow_unknown_license
    ELSE \/ upper(spdx) \in NON_PERMISSIVE_LICENSES
         \/ upper(spdx) \notin PERMISSIVE_LICENSES /\ texts

\* Patch, attack and critique become a hash and two lengths.  The task stays, and so do
\* the tool calls, with what git and pytest have printed; neither is modelled.
distill(specimen) == [specimen EXCEPT !.texts = FALSE, !.distilled = TRUE]

CurationInit ==
    /\ \E n \in 0 .. MaxSessions : log \in [1 .. n -> LoggedSession]
    /\ allow_unknown_license \in BOOLEAN
    /\ next = 1
    /\ specimens = <<>>

Keep ==
    /\ next <= Len(log)
    /\ LET s     == log[next]
           built == [session |-> next, license |-> detect(s.repo), texts |-> s.texts,
                     distilled |-> FALSE]
       IN  /\ s.judged /\ should_include(built.license)
           /\ specimens' = Append(specimens, IF should_distill(built.license, built.texts)
                                             THEN distill(built) ELSE built)
    /\ next' = next + 1
    /\ UNCHANGED <<log, allow_unknown_license>>

\* _build_specimen returns None, or the policy says no.
Skip ==
    /\ next <= Len(log)
    /\ ~(log[next].judged /\ should_include(detect(log[next].repo)))
    /\ next' = next + 1
    /\ UNCHANGED <<log, allow_unknown_license, specimens>>

Rebuilt == next > Len(log) /\ UNCHANGED cvars

CurationNext == Keep \/ Skip \/ Rebuilt

CurationSpec == CurationInit /\ [][CurationNext]_cvars

-----------------------------------------------------------------------------

\* D19, as far as _distill goes: the patch, attack and critique of a session under a
\* license that is not on the permissive list do not get into the zoo, save where a
\* policy that allows unknown licenses meets one without any.
OnlyPermissiveTexts ==
    \A i \in DOMAIN specimens :
        specimens[i].texts => \/ specimens[i].license \in PERMISSIVE_LICENSES
                              \/ specimens[i].license = "" /\ allow_unknown_license

Copyleft(text) ==
    \E phrase \in {"gnu general public license", "gnu affero general public license",
                   "gnu lesser general public license", "mozilla public license",
                   "eclipse public license"} : phrase \in text

Permissive(text) == \E i \in matching(text) : Rules[i].license \in PERMISSIVE_LICENSES

\* A repository with a copyleft text, no permissive text and no license named in its
\* metadata has no patch, attack or critique in the zoo under any policy: not by a phrase
\* these texts share with permissive ones, and not as a repository without a license.
CopyleftDistilled ==
    \A i \in DOMAIN specimens :
        LET repo == log[specimens[i].session].repo
        IN  /\ repo.pyproject = "" /\ repo.setup_cfg = ""
            /\ \E n \in DOMAIN repo.files : Copyleft(repo.files[n])
            /\ \A n \in DOMAIN repo.files : /\ Copyleft(repo.files[n]) \/ repo.files[n] = {}
                                           /\ ~Permissive(repo.files[n])
            => ~specimens[i].texts

=============================================================================
