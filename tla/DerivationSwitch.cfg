SPECIFICATION Spec
CONSTANTS
  a = a
  b = b
  c = c
  Length = 3
  Unknown = Unknown
  Var <- MCVar
  Value <- MCValue
  Relation <- SwitchPool
  Systems <- SwitchSystems
  Bounds <- MCBounds
  Guess <- MCGuess
  Reads <- MCReads
  Residual <- MCResidual
INVARIANT
  NoGuessIsEvidence
CHECK_DEADLOCK FALSE
