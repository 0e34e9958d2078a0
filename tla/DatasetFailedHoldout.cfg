SPECIFICATION Spec
CONSTANT Plan <- Plans
INVARIANT FailedHoldoutNeverPasses
CHECK_DEADLOCK FALSE
