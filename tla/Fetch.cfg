SPECIFICATION MCSpec
CONSTANTS
  h1 = h1
  h2 = h2
  h3 = h3
  f1 = f1
  f2 = f2
  Idle = Idle
  Exited = Exited
  Hashes = {h1, h2, h3}
  Payloads <- UpToThree
  Fetchers = {f1, f2}
CHECK_DEADLOCK FALSE
INVARIANTS
  OneResultEach
  
  FetchedIsCached
PROPERTIES
  NoGoroutineLeft
