SPECIFICATION Spec
CONSTANT Plan <- Plans
INVARIANTS
  PassMeansChecked
  ClaimWithinEvidence
  VerdictHasReason
CHECK_DEADLOCK FALSE
