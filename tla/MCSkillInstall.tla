--------------------------- MODULE MCSkillInstall ---------------------------
(***************************************************************************)
(* A skill with one file of every kind the installer tells apart.          *)
(***************************************************************************)
EXTENDS SkillInstall

SkillFile == <<"SKILL.md">>

Files ==
  { SkillFile, <<"scripts", "tool.py">>, <<"scripts", "__pycache__", "tool.pyc">>,
    <<"tests", "test.py">> }

=============================================================================
