-------------------------- MODULE SchedulerProofs ---------------------------
(***************************************************************************)
(* Proofs about recurring submissions, for every set of schedules and of   *)
(* scheduler loops, every set of cron instants, every batch size and every *)
(* number of stops and failing writes.                                     *)
(***************************************************************************)
EXTENDS Scheduler, WellFoundedInduction, TLAPS
-----------------------------------------------------------------------------
(* The inductive invariant.                                                *)

Rows == [exists : BOOLEAN, next : Times, last : Times]
Loops == [pc : {"waiting", "ticking", "advancing", "stopped"},
          now : Times, list : [Schedules -> Times], cur : Schedules \cup {NoSchedule}]

\* A stored run was inserted.
MadeKept == \A r \in runs : made[r] > 0

\* A schedule that exists has a due time, and a steady one a named one.
HasDueTime ==
  /\ \A s \in Schedules : schedule[s].exists => schedule[s].next # 0
  /\ \A s \in Steady : schedule[s].next \in CronTimes[s] \cup {0}

\* A loop's list may be stale, but for a steady schedule only backwards: what
\* it lists was due when it looked and has not moved back; a schedule is
\* advanced only after the listed run was made.
LoopSound(p) ==
  /\ loop[p].now <= clock
  /\ loop[p].pc \in {"ticking", "advancing"} => FirstClock <= loop[p].now
  /\ \A s \in Schedules : loop[p].list[s] <= loop[p].now
  /\ \A s \in Steady : /\ loop[p].list[s] <= schedule[s].next
                       /\ loop[p].list[s] \in CronTimes[s] \cup {0}
  /\ loop[p].pc = "advancing" =>
       /\ loop[p].cur \in Schedules
       /\ loop[p].list[loop[p].cur] # 0
       /\ made[<<loop[p].cur, loop[p].list[loop[p].cur]>>] > 0

SchedulerInv ==
  /\ TypeOK /\ MadeKept /\ HasDueTime /\ \A p \in Schedulers : LoopSound(p)
-----------------------------------------------------------------------------
(* Facts about the operators.                                              *)

LEMMA LessThan == \A x, y \in Nat : x < y => <<x, y>> \in OpToRel(<, Nat)
  BY DEF OpToRel

\* A set of numbers that is not empty has a smallest member.
LEMMA SmallestMember ==
  ASSUME NEW S, S \subseteq Nat, S # {}
  PROVE  Min(S) \in S /\ \A y \in S : Min(S) <= y
  <1>1. PICK x \in S : \A y \in S : ~(<<y, x>> \in OpToRel(<, Nat))
    BY NatLessThanWellFounded, WFMin
  <1>2. \A y \in S : ~(y < x)
    BY <1>1, LessThan
  <1>3. \A y \in S : x <= y
    BY <1>2
  <1> QED BY <1>3 DEF Min

USE DEF MkSchedule, MkLoop

Later(s, t) == {c \in CronTimes[s] : t < c /\ c <= t + Horizon}

LEMMA NextRunCases ==
  ASSUME NEW s \in Schedules, NEW t \in Nat
  PROVE  /\ Later(s, t) = {} => NextRun(s, t) = ZeroTime
         /\ Later(s, t) # {} => /\ NextRun(s, t) \in Later(s, t)
                                /\ \A y \in Later(s, t) : NextRun(s, t) <= y
  <1>1. Later(s, t) \subseteq Nat
    BY SchedulerAssumption DEF Later
  <1>2. NextRun(s, t) = IF Later(s, t) = {} THEN ZeroTime ELSE Min(Later(s, t))
    BY DEF NextRun, Later
  <1> QED BY <1>1, <1>2, SmallestMember

\* The next due time is an instant, be it the zero time.
LEMMA NextRunTimes ==
  ASSUME NEW s \in Schedules, NEW t \in Nat
  PROVE  NextRun(s, t) \in Times /\ NextRun(s, t) # 0
  <1>1. CASE Later(s, t) = {}
    BY <1>1, NextRunCases, SchedulerAssumption DEF Times, ZeroTime
  <1>2. CASE Later(s, t) # {}
    <2>1. NextRun(s, t) \in CronTimes[s]
      BY <1>2, NextRunCases DEF Later
    <2> QED BY <2>1, SchedulerAssumption DEF Times
  <1> QED BY <1>1, <1>2

\* That of a steady schedule is named, later than the instant it is counted
\* from, and does not move back when counted from a later one.
LEMMA NextRunSteady ==
  ASSUME NEW s \in Steady, NEW t \in FirstClock .. MaxClock
  PROVE  /\ s \in Schedules /\ t \in Nat /\ NextRun(s, t) \in Later(s, t)
         /\ NextRun(s, t) \in CronTimes[s] /\ NextRun(s, t) \in Nat /\ t < NextRun(s, t)
         /\ \A y \in Later(s, t) : NextRun(s, t) <= y
  <1>1. s \in Schedules /\ t \in Nat /\ NextRun(s, t) # ZeroTime
    BY SchedulerAssumption DEF Steady
  <1>2. /\ NextRun(s, t) \in Later(s, t) /\ \A y \in Later(s, t) : NextRun(s, t) <= y
    BY <1>1, NextRunCases
  <1> QED BY <1>1, <1>2, SchedulerAssumption DEF Later

LEMMA NextRunMonotone ==
  ASSUME NEW s \in Steady, NEW t \in FirstClock .. MaxClock,
         NEW u \in FirstClock .. MaxClock, t <= u
  PROVE  NextRun(s, t) <= NextRun(s, u)
  <1> DEFINE n == NextRun(s, t)
             m == NextRun(s, u)
  <1>1. /\ n \in Nat /\ t \in Nat /\ n <= t + Horizon /\ \A y \in Later(s, t) : n <= y
    BY NextRunSteady DEF Later
  <1>2. m \in Nat /\ u \in Nat /\ u < m /\ m \in CronTimes[s] /\ Horizon \in Nat
    BY NextRunSteady, SchedulerAssumption
  <1> HIDE DEF n, m
  <1>3. CASE m <= t + Horizon
    <2>1. m \in Later(s, t)
      BY <1>1, <1>2, <1>3 DEF Later
    <2> QED BY <1>1, <2>1 DEF n, m
  <1>4. CASE ~(m <= t + Horizon)
    <2>1. n <= m
      BY <1>1, <1>2, <1>4
    <2> QED BY <2>1 DEF n, m
  <1> QED BY <1>3, <1>4

LEMMA Types ==
  ASSUME TypeOK
  PROVE  /\ schedule \in [Schedules -> Rows] /\ loop \in [Schedulers -> Loops]
         /\ clock \in FirstClock .. MaxClock /\ clock \in Nat /\ clock \in Times /\ 0 \in Times
         /\ stops \in Nat /\ faults \in Nat /\ prunes \in Nat
         /\ (faults' = faults \/ Fault) => faults' \in Nat
  BY SchedulerAssumption DEF TypeOK, Rows, Loops, Fault, Times

LEMMA RowFields ==
  ASSUME TypeOK, NEW s \in Schedules
  PROVE  /\ schedule[s].exists \in BOOLEAN
         /\ schedule[s].next \in Times /\ schedule[s].last \in Times
  BY Types DEF Rows

LEMMA LoopFields ==
  ASSUME TypeOK, NEW p \in Schedulers
  PROVE  /\ loop[p].now \in Times /\ loop[p].list \in [Schedules -> Times]
         /\ loop[p].cur \in Schedules \cup {NoSchedule}
  BY Types DEF Loops

LEMMA IdleLoops ==
  /\ Waiting \in Loops /\ Stopped \in Loops
  /\ Waiting.pc = "waiting" /\ Stopped.pc = "stopped"
  /\ Waiting.cur = NoSchedule /\ Stopped.cur = NoSchedule
  /\ Waiting.now = 0 /\ Stopped.now = 0
  /\ \A s \in Schedules : Waiting.list[s] = 0 /\ Stopped.list[s] = 0
  <1>1. 0 \in Times /\ Empty \in [Schedules -> Times] /\ \A s \in Schedules : Empty[s] = 0
    BY SchedulerAssumption DEF Times, Empty
  <1> HIDE DEF Times
  <1> QED BY <1>1 DEF Waiting, Stopped, Loops

\* The record a loop has after an item.
After(p, s) == IF Todo(p) = {s} THEN Waiting
               ELSE MkLoop("ticking", loop[p].now, [loop[p].list EXCEPT ![s] = 0], NoSchedule)

\* What a loop that is not advancing must be, given the rows and the clock.
Resting(k) ==
  /\ k \in Loops /\ k.pc # "advancing" /\ k.cur = NoSchedule /\ k.now <= clock
  /\ k.pc = "ticking" => FirstClock <= k.now
  /\ \A q \in Schedules : k.list[q] <= k.now
  /\ \A q \in Steady : k.list[q] <= schedule[q].next /\ k.list[q] \in CronTimes[q] \cup {0}

\* Numbers in a row or a list are natural numbers.
LEMMA TimesAreNat == \A t \in Times : t \in Nat
  BY SchedulerAssumption DEF Times

LEMMA Numbers ==
  ASSUME TypeOK
  PROVE  /\ clock \in Nat /\ Steady \subseteq Schedules
         /\ \A q \in Schedules : schedule[q].next \in Nat
         /\ \A p \in Schedulers : /\ loop[p].now \in Nat
                                  /\ \A q \in Schedules : loop[p].list[q] \in Nat
  <1>1. clock \in Nat /\ Steady \subseteq Schedules
    BY Types DEF Steady
  <1>2. \A q \in Schedules : schedule[q].next \in Nat
    BY RowFields, TimesAreNat
  <1>3. ASSUME NEW p \in Schedulers
        PROVE  loop[p].now \in Nat /\ \A q \in Schedules : loop[p].list[q] \in Nat
    BY LoopFields, TimesAreNat
  <1> QED BY <1>1, <1>2, <1>3

LEMMA IdleRests ==
  ASSUME TypeOK
  PROVE  Resting(Waiting) /\ Resting(Stopped)
  BY IdleLoops, Numbers DEF Resting

LEMMA AfterItem ==
  ASSUME SchedulerInv, NEW p \in Schedulers, NEW s \in Schedules,
         loop[p].pc \in {"ticking", "advancing"}
  PROVE  Resting(After(p, s))
  <1>1. /\ loop[p].now \in Times /\ loop[p].list \in [Schedules -> Times] /\ 0 \in Times
    BY LoopFields, Types DEF SchedulerInv
  <1>2. LoopSound(p) /\ TypeOK
    BY DEF SchedulerInv
  <1>3. CASE Todo(p) = {s}
    BY <1>2, <1>3, IdleRests DEF After
  <1>4. CASE Todo(p) # {s}
    <2> DEFINE l == [loop[p].list EXCEPT ![s] = 0]
    <2>1. /\ l \in [Schedules -> Times]
          /\ \A q \in Schedules : l[q] = 0 \/ l[q] = loop[p].list[q]
      BY <1>1
    <2>2. After(p, s) = MkLoop("ticking", loop[p].now, l, NoSchedule)
      BY <1>4 DEF After
    <2> HIDE DEF l
    <2>3. /\ \A q \in Schedules : l[q] <= loop[p].now
          /\ \A q \in Steady : l[q] <= schedule[q].next /\ l[q] \in CronTimes[q] \cup {0}
      BY <1>2, <2>1, Numbers DEF LoopSound
    <2>4. FirstClock <= loop[p].now /\ loop[p].now <= clock
      BY <1>2 DEF LoopSound
    <2> QED BY <1>1, <2>1, <2>2, <2>3, <2>4 DEF Loops, Resting
  <1> QED BY <1>3, <1>4
-----------------------------------------------------------------------------
(* How rows and loops change.                                              *)

\* The due times of steady schedules do not move back.
Forward ==
  /\ \A s \in Schedules : schedule'[s].next \in Nat
  /\ \A s \in Steady : schedule[s].next <= schedule'[s].next

\* No run is uncounted.
Growing ==
  /\ runs' \subseteq Schedules \X Times /\ made' \in [Schedules \X Times -> Nat]
  /\ MadeKept' /\ \A r \in Schedules \X Times : made[r] <= made'[r]

\* A loop that does not move stays sound: time, due times and counts only
\* grow.
LEMMA OtherLoops ==
  ASSUME SchedulerInv, NEW p \in Schedulers, loop'[p] = loop[p],
         clock' \in Nat, clock <= clock', Forward, Growing
  PROVE  LoopSound(p)'
  <1>1. LoopSound(p) /\ TypeOK
    BY DEF SchedulerInv
  <1>2. \A s \in Steady : loop[p].list[s] <= schedule'[s].next
    BY <1>1, Numbers DEF LoopSound, Forward
  <1>3. loop[p].now <= clock'
    BY <1>1, Numbers DEF LoopSound
  <1>4. ASSUME loop[p].pc = "advancing"
        PROVE  made'[<<loop[p].cur, loop[p].list[loop[p].cur]>>] > 0
    <2> DEFINE r == <<loop[p].cur, loop[p].list[loop[p].cur]>>
    <2>1. r \in Schedules \X Times /\ made[r] > 0
      BY <1>1, <1>4, LoopFields DEF LoopSound
    <2>2. made[r] \in Nat /\ made'[r] \in Nat /\ made[r] <= made'[r]
      BY <1>1, <2>1 DEF TypeOK, Growing
    <2> QED BY <2>1, <2>2
  <1> QED BY <1>1, <1>2, <1>3, <1>4 DEF LoopSound

\* One row changes: it is created, deleted or advanced.
LEMMA RowMoves ==
  ASSUME SchedulerInv, NEW s \in Schedules, NEW v \in Rows,
         schedule' = [schedule EXCEPT ![s] = v],
         v.exists => v.next # 0,
         s \in Steady => schedule[s].next <= v.next /\ v.next \in CronTimes[s] \cup {0}
  PROVE  schedule' \in [Schedules -> Rows] /\ HasDueTime' /\ Forward
  <1>1. /\ schedule' \in [Schedules -> Rows] /\ schedule'[s] = v
        /\ \A q \in Schedules \ {s} : schedule'[q] = schedule[q]
    BY Types DEF SchedulerInv
  <1>2. TypeOK /\ HasDueTime
    BY DEF SchedulerInv
  <1>3. HasDueTime'
    <2>1. \A q \in Schedules : schedule'[q].exists => schedule'[q].next # 0
      BY <1>1, <1>2 DEF HasDueTime
    <2>2. \A q \in Steady : schedule'[q].next \in CronTimes[q] \cup {0}
      BY <1>1, <1>2, Numbers DEF HasDueTime
    <2> QED BY <2>1, <2>2 DEF HasDueTime
  <1>4. v.next \in Nat
    BY TimesAreNat DEF Rows
  <1>5. Forward
    BY <1>1, <1>2, <1>4, Numbers DEF Forward
  <1> QED BY <1>1, <1>3, <1>5

LEMMA RowsStay ==
  ASSUME SchedulerInv, schedule' = schedule
  PROVE  schedule' \in [Schedules -> Rows] /\ HasDueTime' /\ Forward
  <1>1. schedule \in [Schedules -> Rows] /\ HasDueTime /\ TypeOK
    BY Types DEF SchedulerInv
  <1>2. HasDueTime'
    BY <1>1 DEF HasDueTime
  <1>3. Forward
    BY <1>1, Numbers DEF Forward
  <1> QED BY <1>1, <1>2, <1>3

LEMMA RunsStay ==
  ASSUME SchedulerInv, runs' \subseteq runs, made' = made
  PROVE  Growing
  <1>1. runs \subseteq Schedules \X Times /\ made \in [Schedules \X Times -> Nat]
    BY DEF SchedulerInv, TypeOK
  <1>2. MadeKept'
    BY DEF SchedulerInv, MadeKept
  <1> QED BY <1>1, <1>2 DEF Growing

\* What SchedulerInv needs of a step that leaves the clock alone and moves
\* at most one loop.
LEMMA LoopMoves ==
  ASSUME SchedulerInv, NEW p \in Schedulers, NEW k \in Loops,
         loop' = [loop EXCEPT ![p] = k], clock' = clock,
         stops' \in Nat, faults' \in Nat, prunes' \in Nat,
         schedule' \in [Schedules -> Rows], HasDueTime', Forward, Growing,
         k.pc = "advancing" <=> k.cur # NoSchedule,
         k.now <= clock,
         k.pc \in {"ticking", "advancing"} => FirstClock <= k.now,
         \A s \in Schedules : k.list[s] <= k.now,
         \A s \in Steady : k.list[s] <= schedule[s].next /\ k.list[s] \in CronTimes[s] \cup {0},
         k.pc = "advancing" =>
           k.cur \in Schedules /\ k.list[k.cur] # 0 /\ made'[<<k.cur, k.list[k.cur]>>] > 0
  PROVE  SchedulerInv'
  <1>0. TypeOK
    BY DEF SchedulerInv
  <1>1. /\ loop' \in [Schedulers -> Loops] /\ loop'[p] = k
        /\ \A q \in Schedulers \ {p} : loop'[q] = loop[q]
    BY <1>0, Types
  <1>2. TypeOK'
    <2>1. \A q \in Schedulers : loop'[q].pc = "advancing" <=> loop'[q].cur # NoSchedule
      BY <1>0, <1>1 DEF TypeOK
    <2> QED BY <1>0, <1>1, <2>1 DEF TypeOK, Rows, Loops, Growing
  <1>3. ASSUME NEW q \in Schedulers PROVE LoopSound(q)'
    <2>1. CASE q = p
      <3>1. \A s \in Schedules : k.list[s] \in Nat
        BY TimesAreNat DEF Loops
      <3>2. \A s \in Steady : k.list[s] <= schedule'[s].next
        BY <1>0, <3>1, Numbers DEF Forward
      <3> QED BY <1>1, <2>1, <3>2 DEF LoopSound
    <2>2. CASE q # p
      <3>1. clock' \in Nat /\ clock <= clock'
        BY <1>0, Numbers
      <3>2. loop'[q] = loop[q]
        BY <1>1, <2>2
      <3> QED BY <3>1, <3>2, OtherLoops
    <2> QED BY <2>1, <2>2
  <1> QED BY <1>2, <1>3 DEF SchedulerInv, Growing

\* A loop comes to rest or starts a tick.
LEMMA LoopRests ==
  ASSUME SchedulerInv, NEW p \in Schedulers, NEW k, Resting(k),
         loop' = [loop EXCEPT ![p] = k], clock' = clock,
         stops' \in Nat, faults' \in Nat, prunes' \in Nat,
         schedule' \in [Schedules -> Rows], HasDueTime', Forward, Growing
  PROVE  SchedulerInv'
  <1>1. /\ k \in Loops /\ (k.pc = "advancing" <=> k.cur # NoSchedule)
        /\ k.now <= clock /\ k.pc # "advancing"
        /\ k.pc \in {"ticking", "advancing"} => FirstClock <= k.now
        /\ \A s \in Schedules : k.list[s] <= k.now
        /\ \A s \in Steady : k.list[s] <= schedule[s].next /\ k.list[s] \in CronTimes[s] \cup {0}
    BY DEF Resting
  <1> QED BY <1>1, LoopMoves

\* A loop moves and the tables stay as they are.
LEMMA LoopOnly ==
  ASSUME SchedulerInv, NEW p \in Schedulers, NEW k, Resting(k),
         loop' = [loop EXCEPT ![p] = k],
         UNCHANGED <<clock, schedule, runs, made, prunes>>, stops' \in Nat, faults' \in Nat
  PROVE  SchedulerInv'
  <1>1. schedule' \in [Schedules -> Rows] /\ HasDueTime' /\ Forward /\ Growing
    BY RowsStay, RunsStay
  <1>2. prunes' \in Nat /\ clock' = clock
    BY Types DEF SchedulerInv
  <1> QED BY <1>1, <1>2, LoopRests

\* No loop moves.
LEMMA LoopsStay ==
  ASSUME SchedulerInv, loop' = loop, clock' \in FirstClock .. MaxClock, clock <= clock',
         stops' = stops, faults' = faults, prunes' \in Nat,
         schedule' \in [Schedules -> Rows], HasDueTime', Forward, Growing
  PROVE  SchedulerInv'
  <1>1. TypeOK'
    BY DEF SchedulerInv, TypeOK, Rows, Growing
  <1>2. clock' \in Nat
    BY SchedulerAssumption
  <1>3. \A p \in Schedulers : LoopSound(p)'
    BY <1>2, OtherLoops
  <1> QED BY <1>1, <1>3 DEF SchedulerInv, Growing
-----------------------------------------------------------------------------
(* The actions.                                                            *)

LEMMA InitInv == Init => SchedulerInv
  <1> SUFFICES ASSUME Init PROVE SchedulerInv
    OBVIOUS
  <1> USE SchedulerAssumption
  <1>1. /\ 0 \in Times /\ NoRowYet \in Rows /\ NoRowYet.exists = FALSE /\ NoRowYet.next = 0
    BY DEF Times, NoRowYet, Rows
  <1>2. /\ schedule \in [Schedules -> Rows] /\ \A s \in Schedules : schedule[s] = NoRowYet
    BY <1>1 DEF Init
  <1>3. /\ loop \in [Schedulers -> Loops]
        /\ \A p \in Schedulers : loop[p] \in {Waiting, Stopped}
    BY IdleLoops DEF Init
  <1>4. \A p \in Schedulers : /\ loop[p].pc \notin {"ticking", "advancing"} /\ loop[p].cur = NoSchedule
                              /\ loop[p].now = 0 /\ \A s \in Schedules : loop[p].list[s] = 0
    BY <1>3, IdleLoops
  <1>5. TypeOK
    BY <1>2, <1>3, <1>4 DEF Init, TypeOK, Rows, Loops
  <1>6. MadeKept /\ HasDueTime
    BY <1>1, <1>2 DEF Init, MadeKept, HasDueTime, Steady
  <1>7. \A p \in Schedulers : LoopSound(p)
    BY <1>1, <1>2, <1>4 DEF Init, LoopSound, Steady
  <1> QED BY <1>5, <1>6, <1>7 DEF SchedulerInv

\* A client creates or deletes a schedule.
LEMMA ScheduleInv ==
  ASSUME SchedulerInv, NEW s \in Schedules, CreateSchedule(s) \/ DeleteSchedule(s)
  PROVE  SchedulerInv'
  <1>1. /\ clock' = clock /\ runs' = runs /\ made' = made /\ loop' = loop
        /\ stops' = stops /\ faults' = faults /\ prunes' = prunes
    BY DEF CreateSchedule, DeleteSchedule
  <1>2. /\ clock \in FirstClock .. MaxClock /\ clock \in Nat /\ prunes \in Nat /\ 0 \in Times
    BY Types DEF SchedulerInv
  <1>3. schedule' \in [Schedules -> Rows] /\ HasDueTime' /\ Forward
    <2>1. CASE CreateSchedule(s)
      <3> DEFINE v == MkSchedule(TRUE, NextRun(s, clock), 0)
      <3>1. NextRun(s, clock) \in Times /\ NextRun(s, clock) # 0
        BY <1>2, NextRunTimes
      <3>2. v \in Rows /\ v.next = NextRun(s, clock)
        BY <1>2, <3>1 DEF Rows
      <3>3. schedule' = [schedule EXCEPT ![s] = v] /\ schedule[s].next = 0
        BY <2>1 DEF CreateSchedule, NoRowYet
      <3>4. NextRun(s, clock) \in Nat
        BY <3>1, TimesAreNat
      <3>5. s \in Steady => NextRun(s, clock) \in CronTimes[s]
        BY <1>2, NextRunSteady
      <3> HIDE DEF v
      <3>6. /\ v.exists => v.next # 0
            /\ s \in Steady => schedule[s].next <= v.next /\ v.next \in CronTimes[s] \cup {0}
        BY <3>1, <3>2, <3>3, <3>4, <3>5
      <3> QED BY <3>2, <3>3, <3>6, RowMoves
    <2>2. CASE DeleteSchedule(s)
      <3> DEFINE v == MkSchedule(FALSE, schedule[s].next, schedule[s].last)
      <3>1. schedule[s].next \in Times /\ schedule[s].last \in Times
        BY RowFields DEF SchedulerInv
      <3>2. v \in Rows /\ v.next = schedule[s].next /\ v.exists = FALSE
        BY <3>1 DEF Rows
      <3>3. schedule' = [schedule EXCEPT ![s] = v]
        BY <2>2 DEF DeleteSchedule
      <3>4. schedule[s].next \in Nat
        BY <3>1, TimesAreNat
      <3>5. s \in Steady => schedule[s].next \in CronTimes[s] \cup {0}
        BY DEF SchedulerInv, HasDueTime
      <3> HIDE DEF v
      <3>6. /\ v.exists => v.next # 0
            /\ s \in Steady => schedule[s].next <= v.next /\ v.next \in CronTimes[s] \cup {0}
        BY <3>2, <3>4, <3>5
      <3> QED BY <3>2, <3>3, <3>6, RowMoves
    <2> QED BY <2>1, <2>2
  <1>4. Growing
    BY <1>1, RunsStay
  <1>5. clock' \in FirstClock .. MaxClock /\ clock <= clock' /\ prunes' \in Nat
    BY <1>1, <1>2
  <1> QED BY <1>1, <1>3, <1>4, <1>5, LoopsStay

LEMMA TickInv ==
  ASSUME SchedulerInv, Tick \/ \E r \in runs : Prune(r)
  PROVE  SchedulerInv'
  <1>1. clock \in FirstClock .. MaxClock /\ clock \in Nat /\ prunes \in Nat
    BY Types DEF SchedulerInv
  <1>2. /\ clock' \in FirstClock .. MaxClock /\ clock <= clock' /\ prunes' \in Nat
    <2>1. CASE Tick
      BY <1>1, <2>1, SchedulerAssumption DEF Tick
    <2>2. CASE \E r \in runs : Prune(r)
      BY <1>1, <2>2 DEF Prune
    <2> QED BY <2>1, <2>2
  <1>3. /\ schedule' = schedule /\ runs' \subseteq runs /\ made' = made /\ loop' = loop
        /\ stops' = stops /\ faults' = faults
    BY DEF Tick, Prune
  <1>4. schedule' \in [Schedules -> Rows] /\ HasDueTime' /\ Forward /\ Growing
    BY <1>3, RowsStay, RunsStay
  <1> QED BY <1>2, <1>3, <1>4, LoopsStay

LEMMA StopStartInv ==
  ASSUME SchedulerInv, NEW p \in Schedulers, Stop(p) \/ Start(p)
  PROVE  SchedulerInv'
  <1>1. PICK k \in {Waiting, Stopped} : loop' = [loop EXCEPT ![p] = k]
    BY DEF Stop, Start
  <1>2. /\ UNCHANGED <<clock, schedule, runs, made, prunes>> /\ faults' = faults
        /\ stops' = stops \/ (stops > 0 /\ stops' = stops - 1)
    BY DEF Stop, Start
  <1>3. Resting(k)
    BY IdleRests DEF SchedulerInv
  <1>4. stops' \in Nat /\ faults' \in Nat
    BY <1>2, Types DEF SchedulerInv
  <1> QED BY <1>1, <1>2, <1>3, <1>4, LoopOnly

LEMMA ListDueInv ==
  ASSUME SchedulerInv, NEW p \in Schedulers, ListDue(p)
  PROVE  SchedulerInv'
  <1>1. PICK L \in Listings : loop' = [loop EXCEPT ![p] =
            MkLoop("ticking", clock,
                   [s \in Schedules |-> IF s \in L THEN schedule[s].next ELSE 0], NoSchedule)]
    BY DEF ListDue
  <1> DEFINE l == [s \in Schedules |-> IF s \in L THEN schedule[s].next ELSE 0]
             k == MkLoop("ticking", clock, l, NoSchedule)
  <1>2. /\ loop' = [loop EXCEPT ![p] = k] /\ UNCHANGED <<clock, schedule, runs, made, prunes>>
        /\ stops' = stops /\ faults' = faults
    BY <1>1 DEF ListDue
  <1>3. /\ clock \in Times /\ clock \in Nat /\ 0 \in Times /\ stops \in Nat /\ faults \in Nat
        /\ FirstClock <= clock /\ TypeOK
    BY Types, SchedulerAssumption DEF SchedulerInv
  <1>4. \A s \in Schedules : schedule[s].next \in Nat /\ schedule[s].next \in Times
    BY <1>3, RowFields, TimesAreNat
  <1>5. \A s \in L : schedule[s].next <= clock
    BY DEF Listings, Due
  <1>6. /\ l \in [Schedules -> Times] /\ \A s \in Schedules : l[s] <= clock
        /\ \A s \in Steady : l[s] <= schedule[s].next /\ l[s] \in CronTimes[s] \cup {0}
    <2>1. \A s \in Schedules : l[s] = 0 \/ (l[s] = schedule[s].next /\ s \in L)
      OBVIOUS
    <2>2. \A s \in Steady : s \in Schedules /\ schedule[s].next \in CronTimes[s] \cup {0}
      BY DEF SchedulerInv, HasDueTime, Steady
    <2>3. l \in [Schedules -> Times]
      BY <1>3, <1>4
    <2> HIDE DEF l
    <2> QED BY <1>3, <1>4, <1>5, <2>1, <2>2, <2>3
  <1> HIDE DEF l
  <1>7. Resting(k)
    BY <1>3, <1>6 DEF Loops, Resting
  <1> HIDE DEF k
  <1> QED BY <1>2, <1>3, <1>7, LoopOnly

LEMMA CreateRunInv ==
  ASSUME SchedulerInv, NEW p \in Schedulers, NEW s \in Schedules, CreateRun(p, s)
  PROVE  SchedulerInv'
  <1>1. /\ loop[p].pc = "ticking" /\ loop[p].list[s] # 0
        /\ clock' = clock /\ schedule' = schedule /\ stops' = stops /\ prunes' = prunes
    BY DEF CreateRun, Heads, Todo
  <1>2. /\ loop[p].now \in Times /\ loop[p].list \in [Schedules -> Times]
    BY LoopFields DEF SchedulerInv
  <1>3. stops \in Nat /\ faults \in Nat /\ prunes \in Nat
    BY Types DEF SchedulerInv
  <1>4. CASE /\ Stored(p, s) /\ UNCHANGED faults
             /\ loop' = [loop EXCEPT ![p] = MkLoop("advancing", loop[p].now, loop[p].list, s)]
    <2> DEFINE k == MkLoop("advancing", loop[p].now, loop[p].list, s)
               r == RunKey(p, s)
    <2>1. /\ k \in Loops /\ k.pc = "advancing" /\ k.cur = s /\ k.now = loop[p].now
          /\ k.list = loop[p].list
      BY <1>2 DEF Loops
    <2>2. s # NoSchedule
      BY SchedulerAssumption
    <2>3. r \in Schedules \X Times /\ r = <<s, loop[p].list[s]>>
      BY <1>2 DEF RunKey
    <2>4. /\ runs' = runs \cup {r} /\ made' = IF r \in runs THEN made ELSE [made EXCEPT ![r] = @ + 1]
          /\ loop' = [loop EXCEPT ![p] = k]
      BY <1>4 DEF Stored
    <2> HIDE DEF r, k
    <2>5. /\ made \in [Schedules \X Times -> Nat] /\ runs \subseteq Schedules \X Times /\ MadeKept
      BY DEF SchedulerInv, TypeOK
    <2>6. Growing /\ made'[r] > 0
      <3>1. CASE r \in runs
        <4>1. runs' = runs /\ made' = made
          BY <2>4, <3>1
        <4>2. made'[r] > 0
          BY <2>5, <3>1, <4>1 DEF MadeKept
        <4> QED BY <4>1, <4>2, RunsStay
      <3>2. CASE r \notin runs
        <4>1. made' = [made EXCEPT ![r] = made[r] + 1] /\ made[r] \in Nat
          BY <2>3, <2>4, <2>5, <3>2
        <4>2. made' \in [Schedules \X Times -> Nat] /\ made'[r] = made[r] + 1
          BY <2>3, <2>5, <4>1
        <4>3. \A q \in Schedules \X Times : made[q] <= made'[q]
          BY <2>3, <2>5, <4>1
        <4>4. made'[r] > 0
          BY <4>1, <4>2
        <4>5. MadeKept'
          BY <2>3, <2>4, <2>5, <4>1, <4>4 DEF MadeKept
        <4> QED BY <2>3, <2>4, <2>5, <4>2, <4>3, <4>4, <4>5 DEF Growing
      <3> QED BY <3>1, <3>2
    <2>7. /\ loop[p].now <= clock /\ FirstClock <= loop[p].now
          /\ \A q \in Schedules : loop[p].list[q] <= loop[p].now
          /\ \A q \in Steady : /\ loop[p].list[q] <= schedule[q].next
                               /\ loop[p].list[q] \in CronTimes[q] \cup {0}
      BY <1>1 DEF SchedulerInv, LoopSound
    <2>8. schedule' \in [Schedules -> Rows] /\ HasDueTime' /\ Forward
      BY <1>1, RowsStay
    <2>9. /\ k.pc = "advancing" <=> k.cur # NoSchedule
          /\ k.now <= clock /\ FirstClock <= k.now
          /\ \A q \in Schedules : k.list[q] <= k.now
          /\ \A q \in Steady : k.list[q] <= schedule[q].next /\ k.list[q] \in CronTimes[q] \cup {0}
          /\ k.cur \in Schedules /\ k.list[k.cur] # 0 /\ made'[<<k.cur, k.list[k.cur]>>] > 0
      BY <1>1, <2>1, <2>2, <2>3, <2>6, <2>7
    <2>10. stops' \in Nat /\ faults' \in Nat /\ prunes' \in Nat
      BY <1>1, <1>3, <1>4
    <2> QED BY <1>1, <2>1, <2>4, <2>6, <2>8, <2>9, <2>10, LoopMoves
  <1>5. CASE Fault /\ CreateFailed(p, s) /\ UNCHANGED <<runs, made>>
    <2> DEFINE k == After(p, s)
    <2>1. loop' = [loop EXCEPT ![p] = k]
      BY <1>5 DEF CreateFailed, ItemDone, After
    <2>2. Resting(k)
      BY <1>1, AfterItem
    <2>3. faults' \in Nat /\ stops' \in Nat
      BY <1>1, <1>3, <1>5 DEF Fault
    <2> HIDE DEF k
    <2> QED BY <1>1, <1>5, <2>1, <2>2, <2>3, LoopOnly
  <1> QED BY <1>4, <1>5 DEF CreateRun

\* What an advance does to the row: the due time of a run that was made gives
\* way to an instant, for a steady schedule to the first one after the tick's
\* now.
LEMMA AdvanceTo ==
  ASSUME SchedulerInv, NEW p \in Schedulers, loop[p].pc = "advancing",
         MayAdvance(p, loop[p].cur)
  PROVE  LET s == loop[p].cur IN
         /\ s \in Schedules /\ schedule[s].next = loop[p].list[s]
         /\ made[<<s, schedule[s].next>>] > 0
         /\ FollowingRun(p, s) \in Times /\ FollowingRun(p, s) # 0
         /\ s \in Steady => /\ schedule[s].next < FollowingRun(p, s)
                            /\ FollowingRun(p, s) <= NextRun(s, clock)
                            /\ FollowingRun(p, s) \in CronTimes[s]
  <1> DEFINE s == loop[p].cur
             n == NextRun(s, loop[p].now)
  <1>1. /\ s \in Schedules /\ loop[p].now <= clock /\ loop[p].list[s] <= loop[p].now
        /\ made[<<s, loop[p].list[s]>>] > 0 /\ FirstClock <= loop[p].now
    BY DEF SchedulerInv, LoopSound
  <1>2. loop[p].now \in Nat /\ loop[p].list[s] \in Nat /\ clock \in FirstClock .. MaxClock
    BY <1>1, Numbers, Types DEF SchedulerInv
  <1>3. loop[p].now \in FirstClock .. MaxClock
    BY <1>1, <1>2, SchedulerAssumption
  <1>4. FollowingRun(p, s) \in Times /\ FollowingRun(p, s) # 0
    BY <1>1, <1>2, NextRunTimes DEF FollowingRun
  <1>5. schedule[s].next = loop[p].list[s]
    BY DEF MayAdvance
  <1>6. ASSUME s \in Steady
        PROVE  /\ schedule[s].next < FollowingRun(p, s)
               /\ FollowingRun(p, s) <= NextRun(s, clock) /\ FollowingRun(p, s) \in CronTimes[s]
    <2>1. n \in CronTimes[s] /\ n \in Nat /\ loop[p].now < n
      BY <1>3, <1>6, NextRunSteady
    <2>2. n <= NextRun(s, clock)
      BY <1>1, <1>2, <1>3, <1>6, NextRunMonotone
    <2>3. ~(n <= loop[p].list[s]) /\ loop[p].list[s] < n
      BY <1>1, <1>2, <2>1
    <2>4. FollowingRun(p, s) = n
      BY <2>3 DEF FollowingRun
    <2> HIDE DEF n
    <2> QED BY <1>5, <2>1, <2>2, <2>3, <2>4
  <1> HIDE DEF n
  <1> QED BY <1>1, <1>4, <1>5, <1>6

LEMMA AdvanceInv ==
  ASSUME SchedulerInv, NEW p \in Schedulers, Advance(p)
  PROVE  SchedulerInv'
  <1> DEFINE s == loop[p].cur
             k == After(p, s)
  <1>1. /\ loop[p].pc = "advancing" /\ loop' = [loop EXCEPT ![p] = k]
        /\ clock' = clock /\ runs' = runs /\ made' = made /\ stops' = stops /\ prunes' = prunes
    BY DEF Advance, ItemDone, After
  <1>2. s \in Schedules
    BY <1>1 DEF SchedulerInv, LoopSound
  <1>3. Resting(k)
    BY <1>1, <1>2, AfterItem
  <1>4. stops \in Nat /\ faults \in Nat /\ prunes \in Nat
    BY Types DEF SchedulerInv
  <1> HIDE DEF k
  <1>5. CASE /\ MayAdvance(p, s) /\ UNCHANGED faults
             /\ schedule' = [schedule EXCEPT ![s] =
                               MkSchedule(TRUE, FollowingRun(p, s), loop[p].list[s])]
    <2> DEFINE v == MkSchedule(TRUE, FollowingRun(p, s), loop[p].list[s])
    <2>1. /\ FollowingRun(p, s) \in Times /\ FollowingRun(p, s) # 0
          /\ s \in Steady => /\ schedule[s].next < FollowingRun(p, s)
                             /\ FollowingRun(p, s) \in CronTimes[s]
      BY <1>1, <1>5, AdvanceTo
    <2>2. loop[p].list[s] \in Times
      BY <1>2, LoopFields DEF SchedulerInv
    <2>3. v \in Rows /\ v.next = FollowingRun(p, s)
      BY <2>1, <2>2 DEF Rows
    <2>4. schedule' = [schedule EXCEPT ![s] = v]
      BY <1>5
    <2> HIDE DEF v
    <2>5. s \in Steady => schedule[s].next <= v.next /\ v.next \in CronTimes[s] \cup {0}
      <3>1. schedule[s].next \in Nat /\ v.next \in Nat
        BY <1>2, <2>1, <2>3, RowFields, TimesAreNat DEF SchedulerInv
      <3> QED BY <2>1, <2>3, <3>1
    <2>6. schedule' \in [Schedules -> Rows] /\ HasDueTime' /\ Forward
      BY <1>2, <2>1, <2>3, <2>4, <2>5, RowMoves
    <2>7. Growing
      BY <1>1, RunsStay
    <2> QED BY <1>1, <1>3, <1>4, <1>5, <2>6, <2>7, LoopRests
  <1>6. CASE schedule' = schedule /\ (Fault \/ faults' = faults)
    <2>1. faults' \in Nat /\ stops' \in Nat
      BY <1>1, <1>4, <1>6 DEF Fault
    <2> QED BY <1>1, <1>3, <1>6, <2>1, LoopOnly
  <1> QED BY <1>5, <1>6 DEF Advance

LEMMA SchedulerStepInv == SchedulerInv /\ [Next]_vars => SchedulerInv'
  <1> SUFFICES ASSUME SchedulerInv, [Next]_vars PROVE SchedulerInv'
    OBVIOUS
  <1>1. CASE UNCHANGED vars
    <2>1. TypeOK' /\ MadeKept' /\ HasDueTime'
      BY <1>1 DEF vars, SchedulerInv, TypeOK, MadeKept, HasDueTime
    <2>2. \A p \in Schedulers : LoopSound(p)'
      BY <1>1 DEF vars, SchedulerInv, LoopSound
    <2> QED BY <2>1, <2>2 DEF SchedulerInv
  <1>2. ASSUME NEW p \in Schedulers, SchedulerStep(p) PROVE SchedulerInv'
    BY <1>2, ListDueInv, CreateRunInv, AdvanceInv DEF SchedulerStep
  <1> QED BY <1>1, <1>2, ScheduleInv, TickInv, StopStartInv DEF Next
-----------------------------------------------------------------------------
(* The theorems.                                                           *)

\* The inductive invariant holds: typing, stored runs counted, and loops whose
\* lists are, for a steady schedule, stale only backwards.
THEOREM SchedulerInvariant == Spec => []SchedulerInv
  BY InitInv, SchedulerStepInv, PTL DEF Spec
-----------------------------------------------------------------------------
(* The refinement: what a client sees of its schedules follows Timetable.  *)

Active  == [s \in Schedules |-> schedule[s].exists]
DueNext == [s \in Schedules |-> schedule[s].next]

\* One row changes: so do its flag and its due time, and nothing else.
LEMMA MappedRow ==
  ASSUME TypeOK, NEW s \in Schedules, NEW v \in Rows, schedule' = [schedule EXCEPT ![s] = v]
  PROVE  /\ Active' = [Active EXCEPT ![s] = v.exists]
         /\ DueNext' = [DueNext EXCEPT ![s] = v.next]
  <1>1. /\ schedule'[s] = v /\ \A q \in Schedules \ {s} : schedule'[q] = schedule[q]
    BY Types
  <1>2. /\ \A q \in Schedules : schedule'[q].exists = IF q = s THEN v.exists ELSE schedule[q].exists
        /\ \A q \in Schedules : schedule'[q].next = IF q = s THEN v.next ELSE schedule[q].next
    BY <1>1
  <1>3. Active' = [Active EXCEPT ![s] = v.exists]
    BY <1>2, Zenon DEF Active
  <1>4. DueNext' = [DueNext EXCEPT ![s] = v.next]
    BY <1>2, Zenon DEF DueNext
  <1> QED BY <1>3, <1>4

LEMMA MappedInit == Init => Promise!Init
  <1> SUFFICES ASSUME Init PROVE Promise!Init
    OBVIOUS
  <1>1. \A s \in Schedules : schedule[s].exists = FALSE /\ schedule[s].next = 0
    BY DEF Init, NoRowYet
  <1>2. clock \in Times
    BY SchedulerAssumption DEF Init, Times
  <1> QED BY <1>1, <1>2 DEF Init, Promise!Init

LEMMA MappedEnter ==
  ASSUME SchedulerInv, NEW s \in Schedules, CreateSchedule(s)
  PROVE  Promise!Enter(s)
  <1> DEFINE v == MkSchedule(TRUE, NextRun(s, clock), 0)
  <1>1. /\ schedule[s].exists = FALSE /\ schedule[s].next = 0
        /\ schedule' = [schedule EXCEPT ![s] = v] /\ clock' = clock /\ made' = made /\ runs' = runs
    BY DEF CreateSchedule, NoRowYet
  <1>2. clock \in Nat /\ 0 \in Times
    BY Types DEF SchedulerInv
  <1>3. v \in Rows /\ v.exists = TRUE /\ v.next = NextRun(s, clock)
    BY <1>2, NextRunTimes DEF Rows
  <1> HIDE DEF v
  <1>4. /\ Active' = [Active EXCEPT ![s] = TRUE]
        /\ DueNext' = [DueNext EXCEPT ![s] = NextRun(s, clock)]
    BY <1>1, <1>3, MappedRow DEF SchedulerInv
  <1>5. ~Active[s] /\ DueNext[s] = 0
    BY <1>1 DEF Active, DueNext
  <1> QED BY <1>1, <1>4, <1>5 DEF Promise!Enter, Active, DueNext

LEMMA MappedRemove ==
  ASSUME SchedulerInv, NEW s \in Schedules, DeleteSchedule(s)
  PROVE  Promise!Remove(s)
  <1> DEFINE v == MkSchedule(FALSE, schedule[s].next, schedule[s].last)
  <1>1. /\ schedule[s].exists /\ schedule' = [schedule EXCEPT ![s] = v]
        /\ clock' = clock /\ made' = made /\ runs' = runs
    BY DEF DeleteSchedule
  <1>2. v \in Rows /\ v.exists = FALSE /\ v.next = schedule[s].next
    BY RowFields DEF SchedulerInv, Rows
  <1> HIDE DEF v
  <1>3. /\ Active' = [Active EXCEPT ![s] = v.exists]
        /\ DueNext' = [DueNext EXCEPT ![s] = v.next]
    BY <1>1, <1>2, MappedRow DEF SchedulerInv
  <1>4. Active' = [Active EXCEPT ![s] = FALSE] /\ DueNext' = DueNext
    BY <1>2, <1>3 DEF DueNext
  <1>5. Active[s]
    BY <1>1 DEF Active
  <1> QED BY <1>1, <1>4, <1>5 DEF Promise!Remove, Active, DueNext

\* A run that is inserted was due, and is not stored already.
LEMMA MappedRun ==
  ASSUME SchedulerInv, NEW p \in Schedulers, NEW s \in Schedules, CreateRun(p, s),
         ~(made' = made /\ runs' = runs)
  PROVE  loop[p].list[s] \in Times /\ Promise!Run(s, loop[p].list[s])
  <1> DEFINE t == loop[p].list[s]
  <1>1. /\ t # 0 /\ clock' = clock /\ schedule' = schedule
        /\ <<s, t>> \notin runs /\ made' = [made EXCEPT ![<<s, t>>] = @ + 1]
        /\ runs' = runs \cup {<<s, t>>}
    <2>1. Stored(p, s)
      BY DEF CreateRun
    <2>2. <<s, t>> \notin runs
      <3>1. CASE <<s, t>> \in runs
        BY <2>1, <3>1 DEF Stored, RunKey
      <3> QED BY <3>1
    <2> QED BY <2>1, <2>2 DEF CreateRun, Heads, Todo, Stored, RunKey
  <1>2. t \in Times /\ t \in Nat /\ loop[p].now \in Nat /\ clock \in Nat
    BY LoopFields, Numbers DEF SchedulerInv
  <1>3. /\ t <= loop[p].now /\ loop[p].now <= clock
        /\ s \in Steady => t <= schedule[s].next /\ t \in CronTimes[s] \cup {0}
    BY DEF SchedulerInv, LoopSound
  <1>4. 0 < t /\ t <= clock
    BY <1>1, <1>2, <1>3
  <1>5. Active' = Active /\ DueNext' = DueNext
    BY <1>1 DEF DueNext, Active
  <1>6. s \in Steady => t \in CronTimes[s] /\ t <= DueNext[s]
    BY <1>1, <1>3 DEF DueNext
  <1> HIDE DEF t
  <1>7. Promise!Run(s, t)
    BY <1>1, <1>4, <1>5, <1>6 DEF Promise!Run, Active, DueNext
  <1> QED BY <1>2, <1>7 DEF t

\* An advance leaves a due time that has been run, and goes forward.
LEMMA MappedMoveOn ==
  ASSUME SchedulerInv, NEW p \in Schedulers, Advance(p), schedule' # schedule
  PROVE  \E s \in Schedules : \E t \in Times : Promise!MoveOn(s, t)
  <1>0. PICK s \in Schedules : s = loop[p].cur
    BY DEF Advance, SchedulerInv, LoopSound
  <1>1. /\ loop[p].pc = "advancing" /\ MayAdvance(p, s)
        /\ schedule' = [schedule EXCEPT ![s] =
                          MkSchedule(TRUE, FollowingRun(p, s), loop[p].list[s])]
        /\ clock' = clock /\ made' = made /\ runs' = runs
    BY <1>0 DEF Advance
  <1>2. PICK t \in Times : /\ t = FollowingRun(p, s) /\ made[<<s, schedule[s].next>>] > 0
                           /\ s \in Steady => schedule[s].next < t /\ t <= NextRun(s, clock)
    BY <1>0, <1>1, AdvanceTo
  <1> DEFINE v == MkSchedule(TRUE, t, loop[p].list[s])
  <1>3. schedule[s].exists /\ schedule[s].next \in Times /\ loop[p].list[s] \in Times
    BY <1>1, <1>2, RowFields, LoopFields DEF MayAdvance, SchedulerInv
  <1>4. v \in Rows /\ v.exists = TRUE /\ v.next = t
    BY <1>2, <1>3 DEF Rows
  <1> HIDE DEF v
  <1>5. /\ Active' = [Active EXCEPT ![s] = TRUE] /\ DueNext' = [DueNext EXCEPT ![s] = t]
    <2>1. schedule' = [schedule EXCEPT ![s] = v]
      BY <1>1, <1>2 DEF v
    <2>2. Active' = [Active EXCEPT ![s] = v.exists] /\ DueNext' = [DueNext EXCEPT ![s] = v.next]
      BY <1>4, <2>1, MappedRow DEF SchedulerInv
    <2> QED BY <1>4, <2>2
  <1>6. schedule[s].exists = TRUE
    BY <1>2, <1>3, RowFields DEF SchedulerInv
  <1>7. Active' = Active /\ Active[s]
    BY <1>2, <1>5, <1>6, Zenon DEF Active
  <1>8. made[<<s, DueNext[s]>>] > 0 /\ (s \in Steady => DueNext[s] < t)
    BY <1>2 DEF DueNext
  <1>9. Promise!MoveOn(s, t)
    BY <1>1, <1>2, <1>5, <1>7, <1>8 DEF Promise!MoveOn, Active, DueNext
  <1> QED BY <1>2, <1>9

LEMMA MappedStep ==
  ASSUME SchedulerInv, [Next]_vars
  PROVE  [Promise!Next]_(Promise!vars)
  <1> DEFINE Same == clock' = clock /\ schedule' = schedule /\ made' = made /\ runs' = runs
  <1>1. Same => UNCHANGED Promise!vars
    BY DEF Promise!vars
  <1>2. ASSUME NEW s \in Schedules, CreateSchedule(s) \/ DeleteSchedule(s) PROVE Promise!Next
    BY <1>2, MappedEnter, MappedRemove DEF Promise!Next
  <1>3. ASSUME NEW p \in Schedulers, NEW s \in Schedules, CreateRun(p, s)
        PROVE  Promise!Next \/ Same
    <2>1. CASE made' = made /\ runs' = runs
      BY <1>3, <2>1 DEF CreateRun
    <2>2. CASE ~(made' = made /\ runs' = runs)
      BY <1>3, <2>2, MappedRun DEF Promise!Next
    <2> QED BY <2>1, <2>2
  <1>4. ASSUME NEW p \in Schedulers, Advance(p) PROVE Promise!Next \/ Same
    <2>1. CASE schedule' = schedule
      BY <1>4, <2>1 DEF Advance
    <2>2. CASE schedule' # schedule
      BY <1>4, <2>2, MappedMoveOn DEF Promise!Next
    <2> QED BY <2>1, <2>2
  <1>5. ASSUME NEW p \in Schedulers, ListDue(p) \/ Stop(p) \/ Start(p) PROVE Same
    BY <1>5 DEF ListDue, Stop, Start
  <1>6. ASSUME Tick PROVE Promise!Next
    <2>1. Promise!Tick
      BY <1>6 DEF Tick, Promise!Tick
    <2> QED BY <2>1 DEF Promise!Next
  <1>7. ASSUME UNCHANGED vars PROVE Same
    BY <1>7 DEF vars
  <1>9. ASSUME NEW r \in runs, Prune(r) PROVE Promise!Next
    <2>1. Promise!Forget(r)
      BY <1>9 DEF Prune, Promise!Forget
    <2> QED BY <2>1 DEF Promise!Next
  <1> HIDE DEF Same
  <1>8. Promise!Next \/ Same
    <2>1. ASSUME NEW p \in Schedulers, SchedulerStep(p) PROVE Promise!Next \/ Same
      BY <1>3, <1>4, <1>5, <2>1 DEF SchedulerStep
    <2> QED BY <1>2, <1>5, <1>6, <1>7, <1>9, <2>1 DEF Next
  <1> QED BY <1>1, <1>8

\* Racing scheduler loops with stale lists, stops between create and advance
\* and failing writes implement Timetable: no run is made early, nor again
\* while it is kept, and a schedule moves on only after the due time it leaves
\* was run; one that always has a next instant runs only named ones and moves
\* only forward, never past one that is still ahead.
THEOREM SchedulersImplementTimetable == Spec => ImplementsTimetable
  <1>1. Init => Promise!Init
    BY MappedInit
  <1>2. SchedulerInv /\ [Next]_vars => [Promise!Next]_(Promise!vars)
    BY MappedStep
  <1> QED BY <1>1, <1>2, SchedulerInvariant, PTL DEF Spec, ImplementsTimetable, Promise!Spec
=============================================================================
