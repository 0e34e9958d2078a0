SPECIFICATION Spec
CONSTANTS
  Task <- Tasks
  Name <- Names
INVARIANTS
  PassIsEarned
  IntervalsAreRuns
  InputsReportedOnce
PROPERTY KeepsPromise
CHECK_DEADLOCK FALSE
