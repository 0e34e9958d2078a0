SPECIFICATION ReportSpec
CONSTANTS
  top = top
  left = left
  right = right
  deep = deep
  x = x
  y = y
  stray = stray
  None = None
  Interblock = right
  Threshold = 1
  NoEntity = NoEntity
  Block <- MCBlock
  Component <- MCComponent
  Hierarchies <- MCHierarchies
  Trails <- MCTrails
  ScoredRoles <- MCScoredRoles
  Score <- MCScore
  File <- MCFile
  Property <- MCProperty
  Signal <- MCSignal
  Parameter <- MCParameter
  Claim <- MCClaim
  Clause <- MCClause
  Entity <- MCEntity
  Inlets <- MCInlets
  Documents <- MCDocuments
INVARIANTS
  SubtreeVerdict SmallestHome RootsMirrorRecords DisagreementsAreExplained InconsistencyIsReal
  GreenIsSourced NoDisagreementIsLost InletsStayApart
CHECK_DEADLOCK FALSE
