SPECIFICATION EvidenceSpec
CONSTANTS
  Task <- Tasks
  Generic <- GenericReasons
INVARIANTS
  EvidenceCoversFile
  EvidenceReachesParameters
  PassIsIndependent
  PerfectPredictionPasses
CHECK_DEADLOCK FALSE
