\* One slot and a rate of one: every request meets the others.
CONSTANTS
  r1 = r1
  r2 = r2
  r3 = r3
  r4 = r4
  k1 = k1
  k2 = k2
  k3 = k3
  c1 = c1
  c2 = c2
  Requests = {r1, r2, r3, r4}
  Clients = {k1, k2, k3}
  Client <- MCClient
  Credential <- MCCredential
  NoKey = NoKey
  None = None
  Closed = Closed
  Rate = 1
  Window = 1
  MaxClients = 2
  Threshold = 2
  ResetAfter = 1
  MaxBreakers = 1
  Slots = 2
  MaxClock = 1
SPECIFICATION FairSpec
INVARIANTS SlotsAccounted NoIdleSlot RateBound BreakersConsistent OwnFailuresOnly
PROPERTIES LimitedWithCause AlwaysAnswered
