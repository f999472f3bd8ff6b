SPECIFICATION FairSpec
CONSTANTS
  d1 = d1
  p1 = p1
  w1 = w1
  w2 = w2
  alice = alice
  NoJob = NoJob
  Jobs = {d1, p1}
  Workers = {w1, w2}
  Clients = {alice}
  ClientOf <- MCClientOf
  PollJobs = {p1}
  NoRetryJobs = {d1}
  CancelJobs = {}
  MaxAttempts = 1
  MaxConcurrent = 1
  JobTimeouts = {1}
  CallTimeout = 1
  ResultBudget = 1
  Interval = 1
  PollTimeout = 1
  Backoffs = {1}
  Delays = {0}
  Slack = 0
  Horizon = 3
  MaxStops = 1
  MaxFaults = 1
INVARIANTS
  CeilingRespected
  StrandedOnlyByFault
PROPERTIES
  EveryJobEnds
