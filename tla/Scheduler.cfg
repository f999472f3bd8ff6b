SPECIFICATION FairSpec
CONSTANTS
  s1 = s1
  s2 = s2
  old = old
  new = new
  NoSchedule = NoSchedule
  Schedules = {s1, s2}
  Schedulers = {old, new}
  CronTimes <- MCCronTimes
  Horizon = 3
  FirstClock = 3
  MaxClock = 5
  Last = 7
  DueBatch = 2
  MaxSchedules = 2
  MaxStops = 1
  MaxFaults = 1
  MaxPrunes = 1
CHECK_DEADLOCK FALSE
PROPERTIES
  ImplementsTimetable
  EveryDueTimeRuns
