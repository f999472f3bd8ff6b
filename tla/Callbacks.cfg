SPECIFICATION FairSpec
CONSTANTS
  r1 = r1
  r2 = r2
  old = old
  new = new
  NoRequest = NoRequest
  Requests = {r1}
  Deliverers = {old, new}
  Budgets = {1, 2}
  DueBatch = 1
  MaxReloads = 2
  MaxStops = 1
  MaxFaults = 1
CHECK_DEADLOCK FALSE
INVARIANTS
  PostsBounded
PROPERTIES
  ImplementsOutbox
  EveryCallbackEnds
