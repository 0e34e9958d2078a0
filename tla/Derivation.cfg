SPECIFICATION Spec
CONSTANTS
  a = a
  b = b
  c = c
  Length = 3
  Unknown = Unknown
  Var <- MCVar
  Value <- MCValue
  Relation <- StraightPool
  Systems <- StraightSystems
  Bounds <- MCBounds
  Guess <- MCGuess
  Reads <- MCReads
  Residual <- MCResidual
INVARIANTS
  Provenance
  ProducersHold
  NoGuessIsEvidence
PROPERTIES
  Terminates
  ImplementsPromise
CHECK_DEADLOCK FALSE
