SPECIFICATION Spec
CONSTANTS
  d1 = d1
  p1 = p1
  w1 = w1
  w2 = w2
  alice = alice
  NoJob = NoJob
  Jobs = {p1}
  Workers = {w1, w2}
  Clients = {alice}
  ClientOf <- MCClientOf
  PollJobs = {p1}
  NoRetryJobs = {p1}
  CancelJobs = {p1}
  MaxAttempts = 2
  MaxConcurrent = 0
  JobTimeouts = {3, 4}
  CallTimeout = 1
  ResultBudget = 1
  Interval = 4
  PollTimeout = 5
  Backoffs = {1, 2}
  Delays = {0, 1}
  Slack = 1
  Horizon = 9
  MaxStops = 1
  MaxFaults = 1
SYMMETRY WorkerSymmetry
INVARIANTS
  TypeOK
  ExclusiveWork
  NeverPulledAway
  AttemptsBounded
  QueueInv
PROPERTIES
  BackoffHonoured
  CutOffNotResubmitted
  ImplementsLifecycle
