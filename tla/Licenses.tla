------------------------------ MODULE Licenses ------------------------------
(***************************************************************************)
(* zoo/curation.py's LicenseClassifier: the license of a repository, from  *)
(* its metadata or from the phrases in its license files.                  *)
(*                                                                         *)
(* A repository is [pyproject, setup_cfg, files]: the license string of    *)
(* each, "" where there is none or it does not parse, and the license files*)
(* that exist, in the order of LICENSE_FILES, each a set of phrases.       *)
(***************************************************************************)
EXTENDS Integers, Sequences, FiniteSetsExt

\* The name that SPDX_MAP has for what strip().lower() finds, else the string itself.
from_spdx(spdx) ==
    CASE spdx = "mit"                         -> "MIT"
      [] spdx \in {"apache 2.0", "apache-2.0"} -> "Apache-2.0"
      [] spdx = "gpl-3.0"                     -> "GPL-3.0"
      [] OTHER                                -> spdx

\* from_license_file's tests, in their order.
Rules ==
    << [phrases |-> {"mit license"}, license |-> "MIT"],
       [phrases |-> {"permission is hereby granted"}, license |-> "MIT"],
       [phrases |-> {"apache license", "version 2.0"}, license |-> "Apache-2.0"],
       [phrases |-> {"gnu general public license", "version 3"}, license |-> "GPL-3.0"],
       [phrases |-> {"gnu general public license"}, license |-> "GPL-2.0"],
       [phrases |-> {"gnu affero general public license"}, license |-> "AGPL-3.0"],
       [phrases |-> {"gnu lesser general public license", "version 3"}, license |-> "LGPL-3.0"],
       [phrases |-> {"gnu lesser general public license"}, license |-> "LGPL-2.1"],
       [phrases |-> {"mozilla public license"}, license |-> "MPL-2.0"],
       [phrases |-> {"eclipse public license"}, license |-> "EPL-2.0"],
       [phrases |-> {"bsd", "3-clause"}, license |-> "BSD-3-Clause"],
       [phrases |-> {"bsd", "2-clause"}, license |-> "BSD-2-Clause"] >>

matching(text) == {i \in DOMAIN Rules : Rules[i].phrases \subseteq text}

\* Mutant: the first file decides, known or not.
FirstFileOnly(files) ==
    IF files = <<>> \/ matching(files[1]) = {} THEN ""
    ELSE Rules[Min(matching(files[1]))].license

\* The first file that a rule knows decides.
from_license_file(files) ==
    LET known == {n \in DOMAIN files : matching(files[n]) # {}}
    IN  IF known = {} THEN "" ELSE Rules[Min(matching(files[Min(known)]))].license

detect(repo) ==
    IF repo.pyproject # "" THEN from_spdx(repo.pyproject)
    ELSE IF repo.setup_cfg # "" THEN from_spdx(repo.setup_cfg)
    ELSE from_license_file(repo.files)

=============================================================================
