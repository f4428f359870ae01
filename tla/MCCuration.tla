----------------------------- MODULE MCCuration -----------------------------
(* A small instance of Curation for TLC.  The texts are the phrases that the *)
(* published licenses hold: MPL-2.0 names the GPL as a secondary license,    *)
(* the AGPL and the LGPL name the GPL they extend.                           *)
EXTENDS Curation

MIT  == {"mit license", "permission is hereby granted"}
GPL3 == {"gnu general public license", "version 3"}
AGPL == {"gnu affero general public license", "gnu general public license", "version 3"}
MPL  == {"mozilla public license", "gnu general public license", "version 2.0"}
EPL  == {"eclipse public license", "version 2.0"}
BSD  == {"bsd", "3-clause"}

Named == [pyproject : {"mit", "apache 2.0", "gpl-3.0", "Foo-1.0", "Unlicense", "LICENSE"},
          setup_cfg : {"", "MIT"}, files : {<<>>, <<GPL3>>}]
Unnamed == [pyproject : {""}, setup_cfg : {"", "gpl-3.0"},
            files : {<<>>, <<MIT>>, <<AGPL>>, <<MPL>>, <<EPL>>, <<BSD, MIT>>, <<{}, GPL3>>,
                     <<EPL, MPL>>}]

AllRepositories == Named \cup Unnamed
=============================================================================
