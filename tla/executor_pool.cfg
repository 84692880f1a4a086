\* Plans contend for one worker.  Request threads and time progress; nothing is
\* assumed of the tools.
CONSTANTS
  p1 = p1
  p2 = p2
  p3 = p3
  Plans = {p1, p2, p3}
  OpIds = {1, 2}
  Planned <- ChainPlanned
  Listed <- ChainListed
  Deps <- ChainDeps
  Workers = 1
  MaxToolCalls = 2
  PlanTimeout = 2
  ToolTimeout <- ChainTimeout
  MaxStart = 1
  MaxClock = 3
SPECIFICATION FairSpec
PROPERTIES AlwaysReturns PermitsComeBack
