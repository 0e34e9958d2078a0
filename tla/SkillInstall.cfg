SPECIFICATION InstallSpec
CONSTANTS
  Path <- Files
  Manifest <- SkillFile
  Content = {"old", "new"}
  Absent = "absent"
  Torn = "torn"
  ConsumerFiles = {"SKILL.md"}
  ConsumerDirs = {"scripts"}
  Cache = "__pycache__"
  Compiled = {"tool.pyc"}
  Retired = {"physicsguard-model-library"}
  Edits = 1
INVARIANTS
  DoneIsCurrent
  CheckIsSound
CHECK_DEADLOCK FALSE
