\* A ready operation overtaken by the plan deadline is reported as a cycle.
CONSTANTS
  p1 = p1
  p2 = p2
  p3 = p3
  Plans = {p1}
  OpIds = {1, 2, 3, 4, 5}
  Planned <- CoursePlanned
  Listed <- CourseListed
  Deps <- CourseAlone
  Workers = 2
  MaxToolCalls = 8
  PlanTimeout = 2
  ToolTimeout <- MixedTimeout
  MaxStart = 0
  MaxClock = 3
SPECIFICATION Spec
INVARIANT ReadyIsNoCycle
