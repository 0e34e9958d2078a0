SPECIFICATION Spec
CONSTANTS
  Modules <- Catalogue
  Plans <- PlansOf
  Settings <- SettingsOf
  Values <- MCValues
  Terms <- CatalogueTerms
  Statements <- CatalogueStatements
  Depth <- DepthOf
  Val <- ValOf
  Exec <- ExecOf
  Resolvable <- ResolvableOf
  Observe <- ObserveOf
  Reached <- ReachedOf
  Targets <- TargetsOf
  MayLeave <- MayLeaveOf
  Found <- FoundOf
  MaxEras = 2
  MaxDepth = 2
INVARIANTS
  NoDependenceMissed
  NoParameterMissed
  ReuseWithinCommand
  ReuseRetraces
CHECK_DEADLOCK FALSE
