SPECIFICATION Spec
CONSTANTS
  Missing = Missing
  Parameter = {"h.eff", "z.eff"}
  Variable = {"h.T", "h.p", "z.T"}
  Registered = {"h.eff", "h.T", "h.p"}
  Decks <- DecksOfThree
INVARIANTS
  OnlyOverridesDisplace
  NoConstraintIsLost
  CardsTellRecords
PROPERTIES
  EvaluationKeepsCards
CHECK_DEADLOCK FALSE
