SPECIFICATION FairSpec
CONSTANTS
  c1 = c1
  c2 = c2
  v1 = v1
  Run = {r1, r2}
  Commit = {c1, c2}
  Version = {v1}
  VersionOf <- OneVersion
  Sound = {c1}
  Announced = {c1}
  Titled = {c1}
  None = None
  Meddling = 1
INVARIANTS
  ReleasesAreCertified
  SuccessIsReal
  CollisionsAreForeign
PROPERTIES
  EveryRunEnds
CHECK_DEADLOCK FALSE
