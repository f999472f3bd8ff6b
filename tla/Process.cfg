SPECIFICATION FairSpec
CONSTANTS
  t1 = t1
  t2 = t2
  rv = rv
  Targets = {t1, t2}
  Resolvents = {rv}
  NoTarget = NoTarget
  Default <- MCDefault
  Word = 5
  good = good
  other = other
  tight = tight
  Files = {good, other, tight}
  NoFile = NoFile
  Text <- MCText
  Texts <- MCTexts
  MaxAttempts = 9
  Main = Main
  Rival = Rival
  Known <- MCKnown
  Servers <- MCServers
  Loops = {"pool"}
  poll = poll
  cancel = cancel
  Requests = {poll, cancel}
  ServerOf <- MCServerOf
  Polls = {poll}
  Cancels = {cancel}
  MaxEdits = 1
  MaxFaults = 1
CHECK_DEADLOCK FALSE
INVARIANTS
  SchemaSound
  ConfigSound
  OrderlyStop
PROPERTIES
  EveryReloadRead
  ShutdownEnds
