SPECIFICATION Spec
CONSTANTS
  a1 = a1
  a2 = a2
  b = b
  bad = bad
  n1 = n1
  n2 = n2
  run = run
  k = k
  NoKey = NoKey
  NoJob = NoJob
  Calls = {a1, a2, b, bad, n1, n2, run}
  KeyOf <- MCKeyOf
  BodyOf <- MCBodyOf
  Previous <- MCPrevious
  NoCall = NoCall
  Refused = {bad}
  Scheduled = {run}
  Cap = 2
  Tries = 2
  MaxFaults = 1
CHECK_DEADLOCK FALSE
INVARIANTS
  CapHolds
  AcceptedRightJob
