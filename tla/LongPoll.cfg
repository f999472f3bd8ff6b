SPECIFICATION FairSpec
CONSTANTS
  j1 = j1
  j2 = j2
  q1 = q1
  q2 = q2
  e1 = e1
  e2 = e2
  NoJob = NoJob
  Jobs = {j1, j2}
  Polls = {q1, q2}
  JobOf <- MCJobOf
  Enders = {e1}
  ClaimsFail = TRUE
  DueBatch = 1
  MaxTimers = 1
  MaxTicks = 1
CHECK_DEADLOCK FALSE
INVARIANTS
  WakeupComing
  NoWaiterLeak
  CallbackWillBeSeen
PROPERTIES
  EndedPollAnswers
