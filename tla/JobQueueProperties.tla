------------------------ MODULE JobQueueProperties -------------------------
(***************************************************************************)
(* What makes the job queue correct.                                       *)
(***************************************************************************)
EXTENDS JobQueue

\* A worker holds a job whenever it processes one; a claim has no time left.
WorkerStates ==
  [pc : {"idle", "claiming"}, job : {NoJob}, left : {t \in Int : t <= 0},
   attempts : Nat, late : BOOLEAN]
  \cup
  [pc : Attempting \cup Ticking, job : Jobs, left : Int, attempts : Nat, late : BOOLEAN]

\* Every value has its type: rows fit the schema (store.Job), a worker that
\* processes holds a job (worker.run), budgets never go below zero.
TypeOK ==
  /\ job \in [Jobs -> Row]
  /\ worker \in [Workers -> WorkerStates]
  /\ snap \in [Workers -> [Jobs -> Cands]]
  /\ rescue \subseteq Jobs
  /\ cancel \in [Jobs -> Live \cup {NoRow}]
  /\ process \in {"up", "draining", "down"}
  /\ jobTimeout \in JobTimeouts
  /\ stops \in Nat /\ faults \in Nat
  /\ submits \in [Jobs -> Nat]
  /\ cutOff \subseteq Jobs /\ unsaid \subseteq Jobs /\ untold \subseteq Jobs

\* The timing the code relies on (process.go and pool.go: rescue after twice
\* the attempt deadline, a lease with one interval of slack): the claim and
\* the writes around a call are short next to job_timeout, whichever of its
\* configured values a worker started with, and next to the poll interval.
Timely ==
  /\ \A t, u \in JobTimeouts : t + 2 * Slack <= 2 * u
  /\ 3 * Slack < Interval

\* No two workers process the same job, be it an attempt or a poll tick:
\* the claims' compare-and-swaps, the poll lease and the rescue cutoff.
ExclusiveWork ==
  \A v, w \in Workers :
    /\ worker[v].pc \in Attempting \cup Ticking
    /\ worker[w].pc \in Attempting \cup Ticking
    /\ worker[v].job = worker[w].job
    => v = w

\* A job is never pulled from under a working worker (RescueStuck,
\* RecoverInFlight): its row stays in the state the worker left it in, with
\* the attempt the worker counts.
NeverPulledAway ==
  \A w \in Workers :
    worker[w].pc \in Attempting =>
      /\ job[worker[w].job].state = worker[w].pc
      /\ job[worker[w].job].attempts = worker[w].attempts

\* max_concurrent: claims that run at the same time, from candidate lists
\* read before, never overshoot a client's ceiling together (claimReceived).
CeilingRespected ==
  MaxConcurrent > 0 => \A c \in Clients : Cardinality(Busy(c)) <= MaxConcurrent

\* max_attempts holds over crashes, rescues and stale candidates, and no
\* target sees more forwards of a job than attempts were counted (ClaimNext).
AttemptsBounded ==
  \A j \in Jobs : submits[j] <= job[j].attempts /\ job[j].attempts <= MaxAttempts

\* A job is in flight without a worker on it only after a failed write (or
\* while the process is down): nothing else strands one until the sweeper.
StrandedOnlyByFault ==
  \A j \in Jobs :
    /\ process # "down" /\ faults = MaxFaults
    /\ job[j].state \in InFlight
    => \E w \in Workers : worker[w].pc \in Attempting /\ worker[w].job = j

\* A claim never runs a job before its retry backoff or not_before is over,
\* even from a candidate list read before the backoff was set (claimReceived).
BackoffHonoured ==
  [][\A j \in Jobs :
       job[j].state = "received" /\ job'[j].state = "resolving" => job[j].next <= 0]_vars

\* Every accepted job reaches a terminal state in spite of crashes, failed
\* writes, lost races and silent targets (RescueStuck, RecoverInFlight,
\* max_attempts and the poll deadline together).
EveryJobEnds ==
  \A j \in Jobs : job[j].state = "received" ~> job[j].state \in Terminal

\* The queue implements the lifecycle clients see: terminal states are
\* final, attempts and ceilings hold, a waiting job never runs again.
Lifecycle == INSTANCE JobLifecycle
  WITH state <- [j \in Jobs |-> job[j].state],
       attempts <- [j \in Jobs |-> job[j].attempts]
ImplementsLifecycle == Lifecycle!Spec

\* A forward cut off by a deadline on a target with retry_on_timeout: false
\* is not submitted again, over rescues, restarts, shutdowns and late workers
\* (forward, failJob).  docs/operations.md says never; two things break that
\* and are excepted: the write of that failure fails, or the process dies
\* after the deadline and before the write, and recovery requeues the job.
CutOffNotResubmitted ==
  [][\A j \in Jobs : faults = MaxFaults /\ j \in cutOff \ unsaid =>
       submits'[j] = submits[j]]_vars

\* docs/api.md: cancelling a request that awaits its target tells the target
\* to stop.
CancelTellsTarget == untold = {}
-----------------------------------------------------------------------------
(* The inductive invariant behind ExclusiveWork, NeverPulledAway and       *)
(* AttemptsBounded: how old a held row can be, how much of a lease is left *)
(* while a tick runs, and how stale a candidate can be.                    *)

\* A worker on an attempt owns its row, and the row is young: it was last
\* written when the claim began or later.
HoldsAttempt(w) ==
  LET k == worker[w] r == job[k.job] IN
  k.pc \in Attempting =>
    /\ r.state = k.pc
    /\ r.attempts = k.attempts
    /\ k.left >= -Slack
    /\ \E t \in JobTimeouts : r.age + k.left <= t + Slack

\* A tick runs inside its lease: while the job still waits, the lease ends
\* after every deadline the tick has left.
HoldsLease(w) ==
  LET k == worker[w] r == job[k.job] IN
  k.pc \in Ticking =>
    /\ r.state \in Terminal \cup {"awaiting_target"}
    /\ k.left >= -Slack
    /\ r.state = "awaiting_target" =>
         IF k.pc = "polling"
         THEN r.next >= k.left + ResultBudget + Interval - Slack
         ELSE r.next >= k.left + Interval - 2 * Slack

\* A candidate that still had attempts left has not run out of them while it
\* waits for its compare-and-swap.
FreshCand(w, j) ==
  /\ snap[w][j].next <= 0
  /\ snap[w][j].state = "received" /\ snap[w][j].attempts < MaxAttempts
     => /\ job[j].state = "received" => job[j].attempts < MaxAttempts
        /\ job[j].state \in InFlight => job[j].age <= Since(w) + Slack

FreshCandidates(w) ==
  worker[w].pc = "claiming" => Since(w) <= Slack /\ \A j \in Jobs : FreshCand(w, j)

\* What the sweeper is about to requeue no worker can still hold.
Abandoned(j) ==
  /\ job[j].state \in InFlight
  /\ \A t \in JobTimeouts : job[j].age > t + 2 * Slack

\* The counters of one job.
Counted(j) ==
  /\ job[j].attempts <= MaxAttempts
  /\ submits[j] <= job[j].attempts
  /\ job[j].state = "resolving" => submits[j] < job[j].attempts
  /\ job[j].state = NoRow => submits[j] = 0

\* QueueInv is inductive under Timely; it is what the claims' compare-and-
\* swaps, the lease and the rescue cutoff together maintain.
QueueInv ==
  /\ \A w \in Workers : HoldsAttempt(w) /\ HoldsLease(w) /\ FreshCandidates(w)
  /\ \A j \in rescue : Abandoned(j)
  /\ \A j \in Jobs : Counted(j)
  /\ process = "down" => rescue = {} /\ \A w \in Workers : worker[w].pc = "idle"
  /\ ExclusiveWork
=============================================================================
