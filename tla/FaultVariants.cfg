SPECIFICATION Spec
CONSTANTS
  Task <- Tasks
  Builds <- Constructed
  Audit <- ReportOn
  Weight <- Weights
INVARIANTS
  PairsAreJudged
  SuggestionsDiscriminate
CHECK_DEADLOCK FALSE
