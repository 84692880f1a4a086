\* A course plan beside a tangled one and one that is rejected, on two workers.
CONSTANTS
  p1 = p1
  p2 = p2
  p3 = p3
  Plans = {p1, p2, p3}
  OpIds = {1, 2, 3, 4, 5}
  Planned <- MixedPlanned
  Listed <- MixedListed
  Deps <- MixedDeps
  Workers = 2
  MaxToolCalls = 5
  PlanTimeout = 2
  ToolTimeout <- MixedTimeout
  MaxStart = 0
  MaxClock = 3
SPECIFICATION Spec
INVARIANTS TypeOK PermitAccounting RootCause
PROPERTY ImplementsDag
