--------------------------- MODULE CurationProofs ---------------------------
(***************************************************************************)
(* What the zoo's policy promises for any log and any repositories.        *)
(***************************************************************************)
EXTENDS Curation, Induction

\* What a rebuild has kept so far, each with the license of its repository.
Specimen == [session : Nat, license : {detect(repo) : repo \in Repositories}, texts : BOOLEAN,
             distilled : BOOLEAN]

Kept(specimen) ==
    /\ specimen.session \in DOMAIN log
    /\ specimen.license = detect(log[specimen.session].repo)
    /\ specimen.texts => ~should_distill(specimen.license, TRUE)

CurationInv ==
    /\ log \in Seq(LoggedSession) /\ next \in Nat \ {0}
    /\ specimens \in Seq(Specimen)
    /\ \A i \in DOMAIN specimens : Kept(specimens[i])

LEMMA CurationInvInit == CurationInit => CurationInv
<1> SUFFICES ASSUME CurationInit PROVE CurationInv
  OBVIOUS
<1>1. log \in Seq(LoggedSession)
  BY CurationAssumption DEF CurationInit
<1> QED
  BY <1>1 DEF CurationInit, CurationInv

-----------------------------------------------------------------------------

\* The least of some numbers.
LEMMA MinIsLeast ==
    ASSUME NEW S, S \subseteq Nat, S # {}
    PROVE  Min(S) \in S /\ \A m \in S : Min(S) <= m
<1>1. \E n \in S : \A m \in S : n <= m
  BY Least
<1> QED
  BY <1>1 DEF Min

CopyleftLicenses ==
    {"GPL-3.0", "GPL-2.0", "AGPL-3.0", "LGPL-3.0", "LGPL-2.1", "MPL-2.0", "EPL-2.0"}

\* from_license_file asks for the permissive phrases first, then for the copyleft ones.
LEMMA RuleOrder ==
    /\ DOMAIN Rules = 1 .. 12
    /\ Rules[1].license = "MIT" /\ Rules[2].license = "MIT" /\ Rules[3].license = "Apache-2.0"
    /\ Rules[4].license = "GPL-3.0" /\ Rules[5].license = "GPL-2.0"
    /\ Rules[6].license = "AGPL-3.0" /\ Rules[7].license = "LGPL-3.0"
    /\ Rules[8].license = "LGPL-2.1" /\ Rules[9].license = "MPL-2.0"
    /\ Rules[10].license = "EPL-2.0"
    /\ Rules[5].phrases = {"gnu general public license"}
    /\ Rules[6].phrases = {"gnu affero general public license"}
    /\ Rules[8].phrases = {"gnu lesser general public license"}
    /\ Rules[9].phrases = {"mozilla public license"}
    /\ Rules[10].phrases = {"eclipse public license"}
<1>1. DOMAIN Rules = 1 .. 12
  BY DEF Rules
<1>2. Rules[1].license = "MIT" /\ Rules[2].license = "MIT" /\ Rules[3].license = "Apache-2.0"
  BY DEF Rules
<1>3. Rules[4].license = "GPL-3.0" /\ Rules[5].license = "GPL-2.0"
      /\ Rules[6].license = "AGPL-3.0" /\ Rules[7].license = "LGPL-3.0"
  BY DEF Rules
<1>4. Rules[8].license = "LGPL-2.1" /\ Rules[9].license = "MPL-2.0"
      /\ Rules[10].license = "EPL-2.0"
  BY DEF Rules
<1>5. Rules[5].phrases = {"gnu general public license"}
      /\ Rules[6].phrases = {"gnu affero general public license"}
      /\ Rules[8].phrases = {"gnu lesser general public license"}
  BY DEF Rules
<1>6. Rules[9].phrases = {"mozilla public license"}
      /\ Rules[10].phrases = {"eclipse public license"}
  BY DEF Rules
<1> QED
  BY <1>1, <1>2, <1>3, <1>4, <1>5, <1>6

\* The rules that a copyleft text matches begin with a copyleft one, where none of them
\* is permissive.
LEMMA FirstRule ==
    ASSUME NEW text, Copyleft(text), ~Permissive(text)
    PROVE  matching(text) # {} /\ Rules[Min(matching(text))].license \in CopyleftLicenses
<1>1. DOMAIN Rules = 1 .. 12
  BY RuleOrder
<1>2. matching(text) \subseteq Nat
  BY <1>1 DEF matching
<1>3. \E i \in {5, 6, 8, 9, 10} : i \in matching(text)
  <2>1. 5 \in DOMAIN Rules /\ 6 \in DOMAIN Rules /\ 8 \in DOMAIN Rules /\ 9 \in DOMAIN Rules
        /\ 10 \in DOMAIN Rules
    BY <1>1
  <2>2. \A i \in DOMAIN Rules : Rules[i].phrases \subseteq text => i \in matching(text)
    BY DEF matching
  <2>3. \E phrase \in {"gnu general public license", "gnu affero general public license",
                      "gnu lesser general public license", "mozilla public license",
                      "eclipse public license"} : phrase \in text
    BY DEF Copyleft
  <2>4. \/ Rules[5].phrases \subseteq text \/ Rules[6].phrases \subseteq text
        \/ Rules[8].phrases \subseteq text \/ Rules[9].phrases \subseteq text
        \/ Rules[10].phrases \subseteq text
    <3>1. \A phrase : phrase \in text => {phrase} \subseteq text
      OBVIOUS
    <3>2. \/ "gnu general public license" \in text \/ "gnu affero general public license" \in text
          \/ "gnu lesser general public license" \in text \/ "mozilla public license" \in text
          \/ "eclipse public license" \in text
      BY <2>3
    <3> QED
      BY <3>1, <3>2, RuleOrder
  <2> QED
    BY <2>1, <2>2, <2>4
<1> DEFINE first == Min(matching(text))
<1>4. first \in matching(text) /\ first \in 1 .. 10
  <2>1. first \in matching(text) /\ \A m \in matching(text) : first <= m
    BY <1>2, <1>3, MinIsLeast
  <2>2. first \in 1 .. 12
    BY <1>1, <2>1 DEF matching
  <2> HIDE DEF first
  <2>3. first <= 10
    BY <1>2, <1>3, <2>1, <2>2
  <2> QED
    BY <2>1, <2>2, <2>3
<1> HIDE DEF first
<1>5. first # 1 /\ first # 2 /\ first # 3
  <2>1. Rules[first].license \notin PERMISSIVE_LICENSES
    BY <1>4 DEF Permissive
  <2> QED
    BY <2>1, RuleOrder DEF PERMISSIVE_LICENSES
<1>6. first \in {4, 5, 6, 7, 8, 9, 10}
  BY <1>4, <1>5
<1> QED
  BY <1>3, <1>6, RuleOrder DEF first, CopyleftLicenses

\* A text without any phrase matches nothing.
LEMMA NothingSaid == matching({}) = {}
<1>1. Rules[1].phrases # {} /\ Rules[2].phrases # {} /\ Rules[3].phrases # {}
  BY DEF Rules
<1>2. Rules[4].phrases # {} /\ Rules[5].phrases # {} /\ Rules[6].phrases # {}
  BY DEF Rules
<1>3. Rules[7].phrases # {} /\ Rules[8].phrases # {} /\ Rules[9].phrases # {}
  BY DEF Rules
<1>4. Rules[10].phrases # {} /\ Rules[11].phrases # {} /\ Rules[12].phrases # {}
  BY DEF Rules
<1>5. \A i \in 1 .. 12 : \/ i = 1 \/ i = 2 \/ i = 3 \/ i = 4 \/ i = 5 \/ i = 6 \/ i = 7 \/ i = 8
                         \/ i = 9 \/ i = 10 \/ i = 11 \/ i = 12
  OBVIOUS
<1>6. \A i \in 1 .. 12 : Rules[i].phrases # {}
  BY <1>1, <1>2, <1>3, <1>4, <1>5
<1>7. DOMAIN Rules = 1 .. 12
  BY RuleOrder
<1> QED
  BY <1>6, <1>7 DEF matching

LEMMA Places ==
    ASSUME NEW S, NEW s \in Seq(S)
    PROVE  DOMAIN s \subseteq Nat /\ \A i \in DOMAIN s : s[i] \in S
  OBVIOUS

\* Such a text alone, or beside texts that say nothing, names the repository's license.
LEMMA CopyleftName ==
    ASSUME NEW repo, repo.files \in Seq(SUBSET STRING),
           repo.pyproject = "", repo.setup_cfg = "",
           \E n \in DOMAIN repo.files : Copyleft(repo.files[n]),
           \A n \in DOMAIN repo.files : /\ Copyleft(repo.files[n]) \/ repo.files[n] = {}
                                        /\ ~Permissive(repo.files[n])
    PROVE  detect(repo) \in CopyleftLicenses
<1> DEFINE files == repo.files
           known == {n \in DOMAIN files : matching(files[n]) # {}}
<1>1. known \subseteq Nat
  <2>1. DOMAIN files \subseteq Nat
    BY Places
  <2> QED
    BY <2>1
<1>2. known # {}
  BY FirstRule
<1>3. Min(known) \in known
  BY <1>1, <1>2, MinIsLeast
<1>4. matching({}) = {}
  BY NothingSaid
<1>5. Copyleft(files[Min(known)]) /\ ~Permissive(files[Min(known)])
  BY <1>3, <1>4
<1>6. Rules[Min(matching(files[Min(known)]))].license \in CopyleftLicenses
  BY <1>5, FirstRule
<1>7. detect(repo) = from_license_file(files)
  BY DEF detect
<1>8. from_license_file(files) = Rules[Min(matching(files[Min(known)]))].license
  BY <1>2 DEF from_license_file
<1> QED
  BY <1>6, <1>7, <1>8

\* Whatever the policy allows, texts under such a license are to be distilled.
LEMMA CopyleftToDistil ==
    ASSUME NEW spdx \in CopyleftLicenses
    PROVE  should_distill(spdx, TRUE)
<1>1. spdx # "" /\ upper(spdx) = spdx
  BY DEF CopyleftLicenses, upper
<1>2. spdx \notin PERMISSIVE_LICENSES
  BY DEF CopyleftLicenses, PERMISSIVE_LICENSES
<1> QED
  BY <1>1, <1>2 DEF should_distill

\* What the policy does not distil is on the permissive list, or has no license.
LEMMA VerbatimOnly ==
    ASSUME NEW spdx, ~should_distill(spdx, TRUE)
    PROVE  spdx \in PERMISSIVE_LICENSES \/ (spdx = "" /\ allow_unknown_license)
<1>1. CASE spdx = ""
  BY <1>1 DEF should_distill
<1>2. CASE spdx # ""
  <2>1. upper(spdx) \in PERMISSIVE_LICENSES
    BY <1>2 DEF should_distill
  <2>2. upper(spdx) = spdx \/ upper(spdx) \in {"APACHE-2.0", "BSD-3-CLAUSE", "UNLICENSE", "FOO-1.0"}
    BY DEF upper
  <2>3. {"APACHE-2.0", "BSD-3-CLAUSE", "UNLICENSE", "FOO-1.0"} \cap PERMISSIVE_LICENSES = {}
    BY DEF PERMISSIVE_LICENSES
  <2> QED
    BY <2>1, <2>2, <2>3
<1> QED
  BY <1>1, <1>2

-----------------------------------------------------------------------------

LEMMA CurationStep == CurationInv /\ [CurationNext]_cvars => CurationInv'
<1> SUFFICES ASSUME CurationInv, [CurationNext]_cvars PROVE CurationInv'
  OBVIOUS
<1> USE DEF CurationInv
<1>1. CASE Keep
  <2> DEFINE s     == log[next]
             spdx  == detect(s.repo)
             built == [session |-> next, license |-> spdx, texts |-> s.texts,
                       distilled |-> FALSE]
             new   == IF should_distill(spdx, s.texts) THEN distill(built) ELSE built
  <2>1. /\ next <= Len(log) /\ specimens' = Append(specimens, new)
        /\ next' = next + 1 /\ log' = log
        /\ UNCHANGED allow_unknown_license
    BY <1>1 DEF Keep
  <2>2. /\ next \in DOMAIN log /\ next \in Nat
        /\ s.texts \in BOOLEAN /\ s.repo \in Repositories
    <3>1. next \in DOMAIN log /\ next \in Nat
      BY <2>1
    <3>2. s \in LoggedSession
      BY <3>1
    <3> QED
      BY <3>1, <3>2 DEF LoggedSession
  <2>3. new.session = next /\ new.license = spdx
        /\ (new.texts => ~should_distill(spdx, TRUE)) /\ new \in Specimen
    <3>1. CASE should_distill(spdx, s.texts)
      BY <2>2, <3>1 DEF Specimen, distill
    <3>2. CASE ~should_distill(spdx, s.texts)
      <4>1. new = built
        BY <3>2
      <4>2. s.texts => ~should_distill(spdx, TRUE)
        <5>1. CASE s.texts
          <6>1. s.texts = TRUE
            BY <2>2, <5>1
          <6> QED
            BY <3>2, <6>1
        <5>2. CASE ~s.texts
          BY <5>2
        <5> QED
          BY <5>1, <5>2
      <4>3. /\ built.session = next /\ built.license = spdx /\ built.texts = s.texts
            /\ built \in Specimen
        BY <2>2 DEF Specimen
      <4> HIDE DEF new, built
      <4> QED
        BY <4>1, <4>2, <4>3
    <3> QED
      BY <3>1, <3>2
  <2> HIDE DEF new
  <2>4. PICK kept : kept = new
    OBVIOUS
  <2>5. Kept(kept)'
    BY <2>1, <2>2, <2>3, <2>4 DEF Kept, should_distill
  <2>6. /\ specimens' \in Seq(Specimen)
        /\ \A i \in DOMAIN specimens' :
              specimens'[i] = kept \/ (i \in DOMAIN specimens /\ specimens'[i] = specimens[i])
    BY <2>1, <2>3, <2>4
  <2>7. ASSUME NEW i \in DOMAIN specimens' PROVE Kept(specimens[i])'
    <3>1. CASE specimens'[i] = kept
      BY <2>5, <3>1 DEF Kept
    <3>2. CASE i \in DOMAIN specimens /\ specimens'[i] = specimens[i]
      BY <2>1, <3>2 DEF Kept, should_distill
    <3> QED
      BY <2>6, <3>1, <3>2
  <2>8. next' \in Nat \ {0}
    BY <2>1, <2>2
  <2> QED
    BY <2>1, <2>6, <2>7, <2>8
<1>2. CASE Skip \/ Rebuilt \/ UNCHANGED cvars
  <2>1. /\ next' \in {next, next + 1} /\ UNCHANGED <<log, specimens, allow_unknown_license>>
    BY <1>2 DEF Skip, Rebuilt, cvars
  <2>2. \A i \in DOMAIN specimens : Kept(specimens[i])'
    BY <2>1 DEF Kept, should_distill
  <2> QED
    BY <2>1, <2>2
<1> QED
  BY <1>1, <1>2 DEF CurationNext

LEMMA CurationInvariance == CurationSpec => []CurationInv
  BY CurationInvInit, CurationStep, PTL DEF CurationSpec

\* D19 for patch, attack and critique, for every log, every repository and both policies:
\* where they are kept the license is on the permissive list, or there is none and the
\* policy allows that.
THEOREM TextsOnlyPermissive == CurationSpec => []OnlyPermissiveTexts
<1>1. CurationInv => OnlyPermissiveTexts
  BY VerbatimOnly DEF CurationInv, Kept, OnlyPermissiveTexts
<1> QED
  BY <1>1, CurationInvariance, PTL

\* However many license files a repository has, and whatever phrases they share with each
\* other: where one is copyleft, none permissive and the metadata silent, no patch, attack
\* or critique of its sessions is kept.
THEOREM CopyleftTextsDistilled == CurationSpec => []CopyleftDistilled
<1>1. CurationInv => CopyleftDistilled
  <2> SUFFICES ASSUME CurationInv, NEW i \in DOMAIN specimens,
                      LET repo == log[specimens[i].session].repo
                      IN  /\ repo.pyproject = "" /\ repo.setup_cfg = ""
                          /\ \E n \in DOMAIN repo.files : Copyleft(repo.files[n])
                          /\ \A n \in DOMAIN repo.files :
                               /\ Copyleft(repo.files[n]) \/ repo.files[n] = {}
                               /\ ~Permissive(repo.files[n])
               PROVE  ~specimens[i].texts
    BY DEF CopyleftDistilled
  <2> DEFINE repo == log[specimens[i].session].repo
  <2>1. Kept(specimens[i])
    BY DEF CurationInv
  <2>2. repo \in Repositories
    <3>1. specimens[i].session \in DOMAIN log /\ log \in Seq(LoggedSession)
      BY <2>1 DEF CurationInv, Kept
    <3>2. log[specimens[i].session] \in LoggedSession
      BY <3>1, Places
    <3> QED
      BY <3>2 DEF LoggedSession
  <2>3. detect(repo) \in CopyleftLicenses
    BY <2>2, CopyleftName, CurationAssumption
  <2> QED
    BY <2>1, <2>3, CopyleftToDistil DEF Kept
<1> QED
  BY <1>1, CurationInvariance, PTL
=============================================================================
