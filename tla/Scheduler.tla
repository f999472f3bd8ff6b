----------------------------- MODULE Scheduler ------------------------------
(***************************************************************************)
(* Recurring submissions: internal/worker/scheduler.go over the schedules  *)
(* table of internal/store/schedules.go.  Several scheduler loops may look *)
(* at one table (a restart racing the old process), each from a list it    *)
(* read earlier, and a loop may stop between creating a run and advancing  *)
(* its schedule.                                                           *)
(*                                                                         *)
(* A run is named by its idempotency key, schedule and due time, so runs   *)
(* holds the keys CreateJob has stored; retention may remove any of them.  *)
(*                                                                         *)
(* Instants count from ZeroTime, Go's zero time.Time (year 1), which is    *)
(* what the cron library answers when an expression names no instant that  *)
(* it can find.  0 stands for no instant at all.                           *)
(***************************************************************************)
EXTENDS Integers, FiniteSets, FiniteSetsExt

CONSTANTS
  Schedules,
  Schedulers,     \* scheduler loops that may run at the same time
  NoSchedule,
  CronTimes,      \* the instants each cron expression names
  Horizon,        \* how far ahead the cron library looks (five years)
  FirstClock, MaxClock,   \* bounds: where the clock starts and ends
  Last,           \* bound: the last instant an expression names
  DueBatch,       \* dueBatch: schedules one tick materialises
  MaxSchedules,   \* the key's schedule limit
  MaxStops,       \* bound: stops of a loop
  MaxFaults,      \* bound: failing database writes
  MaxPrunes       \* bound: runs retention removes

ASSUME SchedulerAssumption ==
  /\ NoSchedule \notin Schedules
  /\ IsFiniteSet(Schedules)
  /\ FirstClock \in Nat /\ MaxClock \in Nat /\ Last \in Nat /\ Horizon \in Nat
  /\ 1 < FirstClock /\ FirstClock <= MaxClock /\ MaxClock <= Last
  /\ CronTimes \in [Schedules -> SUBSET (2 .. Last)]
  /\ DueBatch \in Nat \ {0} /\ MaxSchedules \in Nat
  /\ MaxStops \in Nat /\ MaxFaults \in Nat /\ MaxPrunes \in Nat

VARIABLES
  clock,
  schedule,   \* the schedules table: whether a row exists, next and last run
  runs,       \* idempotency keys of the runs stored in the jobs table
  made,       \* history: how often each run was inserted
  loop,       \* each scheduler loop: its now, its due list, its position
  stops, faults, prunes

vars == <<clock, schedule, runs, made, loop, stops, faults, prunes>>
-----------------------------------------------------------------------------
ZeroTime == 1
Times == 0 .. Last

\* Spec.Next: the first instant strictly after t, and the zero time when the
\* library finds none.
NextRun(s, t) ==
  LET later == {c \in CronTimes[s] : t < c /\ c <= t + Horizon}
  IN  IF later = {} THEN ZeroTime ELSE Min(later)

\* The schedules whose expression always has a next instant.  "0 0 30 2 *" is
\* accepted and has none, "0 0 29 2 *" has none between 2096 and 2104.
Steady == {s \in Schedules : \A t \in FirstClock .. MaxClock : NextRun(s, t) # ZeroTime}

MkSchedule(exists, next, last) == [exists |-> exists, next |-> next, last |-> last]
NoRowYet == MkSchedule(FALSE, 0, 0)

\* list[s] is the due time copied for s, 0 when s is not listed; cur is the
\* schedule whose run is stored and whose advance is still to come.
MkLoop(pc, now, list, cur) == [pc |-> pc, now |-> now, list |-> list, cur |-> cur]
Empty   == [s \in Schedules |-> 0]
Waiting == MkLoop("waiting", 0, Empty, NoSchedule)
Stopped == MkLoop("stopped", 0, Empty, NoSchedule)

Existing == {s \in Schedules : schedule[s].exists}
Due == {s \in Existing : schedule[s].next <= clock}

\* DueSchedules: the most overdue first, at most DueBatch of them.
Listings ==
  {L \in SUBSET Due :
     /\ Cardinality(L) = Min({DueBatch, Cardinality(Due)})
     /\ \A s \in L, t \in Due \ L : schedule[s].next <= schedule[t].next}

Fault == faults > 0 /\ faults' = faults - 1

\* The items of p's list still to do, most overdue first.
Todo(p) == {s \in Schedules : loop[p].list[s] # 0}
Heads(p) == {s \in Todo(p) : \A t \in Todo(p) : loop[p].list[s] <= loop[p].list[t]}

\* On to the list's next item; after the last one the tick is over.
ItemDone(p, s) ==
  loop' = [loop EXCEPT ![p] =
    IF Todo(p) = {s} THEN Waiting
    ELSE MkLoop("ticking", loop[p].now, [loop[p].list EXCEPT ![s] = 0], NoSchedule)]
-----------------------------------------------------------------------------
\* CreateSchedule: within the key's limit, first due after now.
CreateSchedule(s) ==
  /\ schedule[s] = NoRowYet
  /\ Cardinality(Existing) < MaxSchedules
  /\ schedule' = [schedule EXCEPT ![s] = MkSchedule(TRUE, NextRun(s, clock), 0)]
  /\ UNCHANGED <<clock, runs, made, loop, stops, faults, prunes>>

\* DeleteSchedule: its runs stay.
DeleteSchedule(s) ==
  /\ schedule[s].exists
  /\ schedule' = [schedule EXCEPT ![s] = MkSchedule(FALSE, schedule[s].next, schedule[s].last)]
  /\ UNCHANGED <<clock, runs, made, loop, stops, faults, prunes>>

\* runDueSchedules: read the clock, then the due schedules.
ListDue(p) ==
  /\ loop[p].pc = "waiting"
  /\ Due # {}
  /\ \E L \in Listings :
       loop' = [loop EXCEPT ![p] =
         MkLoop("ticking", clock,
                [s \in Schedules |-> IF s \in L THEN schedule[s].next ELSE 0], NoSchedule)]
  /\ UNCHANGED <<clock, schedule, runs, made, stops, faults, prunes>>

\* CreateJob under the run's key: a key already stored is replayed.
RunKey(p, s) == <<s, loop[p].list[s]>>
StoredTwice(p, s) ==    \* mutant: the run carries no idempotency key
  /\ runs' = runs \cup {RunKey(p, s)}
  /\ made' = [made EXCEPT ![RunKey(p, s)] = @ + 1]
Stored(p, s) ==
  /\ runs' = runs \cup {RunKey(p, s)}
  /\ made' = IF RunKey(p, s) \in runs THEN made
             ELSE [made EXCEPT ![RunKey(p, s)] = @ + 1]

\* A run that could not be stored is left for the next tick.
AdvanceAnyway(p, s) ==  \* mutant: the schedule advances although the run failed
  loop' = [loop EXCEPT ![p] = MkLoop("advancing", loop[p].now, loop[p].list, s)]
CreateFailed(p, s) == ItemDone(p, s)

CreateRun(p, s) ==
  /\ loop[p].pc = "ticking"
  /\ s \in Heads(p)
  /\ \/ /\ Stored(p, s)
        /\ loop' = [loop EXCEPT ![p] = MkLoop("advancing", loop[p].now, loop[p].list, s)]
        /\ UNCHANGED faults
     \/ /\ Fault
        /\ CreateFailed(p, s)
        /\ UNCHANGED <<runs, made>>
  /\ UNCHANGED <<clock, schedule, stops, prunes>>

\* The next due time counts from the tick's now: missed runs collapse.
FromRunAfterNext(p, s) ==   \* mutant: one due time too far
  NextRun(s, NextRun(s, loop[p].now))
FollowingRun(p, s) ==
  LET next == NextRun(s, loop[p].now) due == loop[p].list[s]
  IN  IF next <= due THEN NextRun(s, due) ELSE next

\* AdvanceSchedule: a compare-and-set on the due time.
MayAlwaysAdvance(p, s) == schedule[s].exists   \* mutant: no compare
MayAdvance(p, s) == schedule[s].exists /\ schedule[s].next = loop[p].list[s]

Advance(p) ==
  LET s == loop[p].cur IN
  /\ loop[p].pc = "advancing"
  /\ ItemDone(p, s)
  /\ \/ /\ MayAdvance(p, s)
        /\ schedule' = [schedule EXCEPT ![s] =
             MkSchedule(TRUE, FollowingRun(p, s), loop[p].list[s])]
        /\ UNCHANGED faults
     \/ ~MayAdvance(p, s) /\ UNCHANGED <<schedule, faults>>
     \/ Fault /\ UNCHANGED schedule
  /\ UNCHANGED <<clock, runs, made, stops, prunes>>

\* The process of loop p stops anywhere; its list is gone.
Stop(p) ==
  /\ loop[p].pc # "stopped" /\ stops > 0
  /\ stops' = stops - 1
  /\ loop' = [loop EXCEPT ![p] = Stopped]
  /\ UNCHANGED <<clock, schedule, runs, made, faults, prunes>>

Start(p) ==
  /\ loop[p].pc = "stopped"
  /\ loop' = [loop EXCEPT ![p] = Waiting]
  /\ UNCHANGED <<clock, schedule, runs, made, stops, faults, prunes>>

\* Retention removes a run that has ended, and its key with it.
Prune(r) ==
  /\ prunes > 0 /\ r \in runs
  /\ prunes' = prunes - 1
  /\ runs' = runs \ {r}
  /\ UNCHANGED <<clock, schedule, made, loop, stops, faults>>

Tick ==
  /\ clock < MaxClock
  /\ clock' = clock + 1
  /\ UNCHANGED <<schedule, runs, made, loop, stops, faults, prunes>>
-----------------------------------------------------------------------------
Init ==
  /\ clock = FirstClock
  /\ schedule = [s \in Schedules |-> NoRowYet]
  /\ runs = {}
  /\ made = [r \in Schedules \X Times |-> 0]
  /\ loop \in [Schedulers -> {Waiting, Stopped}]
  /\ stops = MaxStops /\ faults = MaxFaults /\ prunes = MaxPrunes

SchedulerStep(p) == ListDue(p) \/ (\E s \in Schedules : CreateRun(p, s)) \/ Advance(p)

Next ==
  \/ \E s \in Schedules : CreateSchedule(s) \/ DeleteSchedule(s)
  \/ \E p \in Schedulers : SchedulerStep(p) \/ Stop(p) \/ Start(p)
  \/ (\E r \in runs : Prune(r)) \/ Tick

Spec == Init /\ [][Next]_vars

\* The loop's ticker keeps firing, a stopped process is started again.
Fairness == \A p \in Schedulers : WF_vars(SchedulerStep(p)) /\ WF_vars(Start(p))
FairSpec == Spec /\ Fairness
-----------------------------------------------------------------------------
\* Rows, lists and keys have their types (store.Schedule); a loop that
\* advances knows which schedule.
TypeOK ==
  /\ clock \in FirstClock .. MaxClock
  /\ schedule \in [Schedules -> [exists : BOOLEAN, next : Times, last : Times]]
  /\ runs \subseteq Schedules \X Times
  /\ made \in [Schedules \X Times -> Nat]
  /\ loop \in [Schedulers -> [pc : {"waiting", "ticking", "advancing", "stopped"},
                              now : Times, list : [Schedules -> Times],
                              cur : Schedules \cup {NoSchedule}]]
  /\ \A p \in Schedulers : loop[p].pc = "advancing" <=> loop[p].cur # NoSchedule
  /\ stops \in Nat /\ faults \in Nat /\ prunes \in Nat

Promise == INSTANCE Timetable WITH
  FirstAfter <- NextRun,
  Named  <- CronTimes,
  time   <- clock,
  active <- [s \in Schedules |-> schedule[s].exists],
  next   <- [s \in Schedules |-> schedule[s].next],
  ran    <- made,
  kept   <- runs

\* "No duplicated run" (docs/architecture.md), and more: racing schedulers
\* with stale lists, stops between create and advance and failed writes
\* implement the timetable (materialize, RunKey, AdvanceSchedule), for a
\* schedule that always has a next instant; one that has none is due at the
\* zero time, at once and at every tick, and keeps the weaker half.
ImplementsTimetable == Promise!Spec

\* A due time that the expression names gets its run unless the schedule is
\* deleted (runDueSchedules), although the zero-time schedules come first in
\* every batch: as long as they are fewer than DueBatch.
EveryDueTimeRuns ==
  \A s \in Schedules : \A t \in CronTimes[s] :
    schedule[s].exists /\ schedule[s].next = t /\ clock >= t
      ~> made[<<s, t>>] > 0 \/ ~schedule[s].exists
=============================================================================
