\* More sessions than the store may hold: time, evictions and late completions.
CONSTANTS
  r1 = r1
  r2 = r2
  r3 = r3
  r4 = r4
  s1 = s1
  s2 = s2
  s3 = s3
  Requests = {r1, r2, r3, r4}
  Sessions = {s1, s2, s3}
  Session <- MCSession
  None = None
  TTL = 2
  MaxSessions = 2
  MaxClock = 4
SPECIFICATION Spec
INVARIANT LastWriteKept
PROPERTIES InheritsLive ImplementsContinuity
