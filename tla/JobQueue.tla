------------------------------ MODULE JobQueue ------------------------------
(***************************************************************************)
(* The job queue: worker goroutines that claim rows of the jobs table, run *)
(* the resolve -> forward pipeline or one poll tick, and write the outcome *)
(* back, while the sweeper rescues stuck jobs, clients cancel, an operator *)
(* reloads the configuration, writes fail and the process stops and        *)
(* restarts.  Sources: internal/worker/{pool,process,sweep}.go,            *)
(* internal/store/jobs.go, the cancel handler of internal/api/handlers.go. *)
(*                                                                         *)
(* An upstream call is a worker state that lasts until the call's deadline *)
(* at most: Tick waits for a worker whose deadline is Slack in the past.   *)
(* Slack is the time a worker may spend outside upstream calls: in the     *)
(* claim, and between a call's deadline and the end of the writes after    *)
(* it.  What an upstream answers is chosen freely.                         *)
(***************************************************************************)
EXTENDS JobStore, FiniteSets

CONSTANTS
  Jobs,           \* the requests of the instance
  Workers,        \* worker.count goroutines
  NoJob,          \* what an idle worker holds
  Clients,
  ClientOf,       \* the API key each job was submitted with
  PollJobs,       \* jobs whose target answers in poll mode
  NoRetryJobs,    \* jobs whose target sets retry_on_timeout: false
  CancelJobs,     \* jobs some client may try to cancel
  MaxAttempts,    \* the row's max_attempts
  MaxConcurrent,  \* the key's in-flight ceiling, 0 for none
  JobTimeouts,    \* the values of job_timeout a (re)load may install
  CallTimeout,    \* the target's timeout: bounds one status call
  ResultBudget,   \* result_timeout: bounds one result download
  Interval,       \* poll.interval
  PollTimeout,    \* poll.timeout: from acceptance to the poll deadline
  Backoffs,       \* the retry delays retryOrFail can compute
  Delays,         \* not_before delays a submission may ask for
  Slack,          \* bound on a worker's time outside upstream calls
  MaxStops,       \* bound: crashes and shutdowns
  MaxFaults       \* bound: failing database writes

ASSUME TypeAssumption ==
  /\ NoJob \notin Jobs
  /\ ClientOf \in [Jobs -> Clients]
  /\ IsFiniteSet(Jobs)
  /\ MaxAttempts \in Nat \ {0}
  /\ MaxConcurrent \in Nat
  /\ JobTimeouts \subseteq Nat /\ JobTimeouts # {}
  /\ CallTimeout \in Nat /\ ResultBudget \in Nat
  /\ Interval \in Nat \ {0} /\ PollTimeout \in Nat
  /\ Backoffs \subseteq Nat \ {0} /\ Delays \subseteq Nat
  /\ Slack \in Nat /\ MaxStops \in Nat /\ MaxFaults \in Nat

ASSUME HorizonAssumption ==
  /\ Horizon \in Nat /\ Slack < Horizon /\ PollTimeout < Horizon
  /\ \A t \in JobTimeouts : 2 * t < Horizon

VARIABLES
  job,         \* the jobs table
  worker,      \* what each worker goroutine is doing
  snap,        \* the candidates a claiming worker has listed
  rescue,      \* ids the running sweep still has to requeue
  cancel,      \* per job: the state a cancel request has read, if one runs
  process,     \* "up", "draining" (shutdown has begun) or "down"
  jobTimeout,  \* job_timeout in the configuration current now
  stops, faults,  \* budgets left
  submits,     \* history: forwards of each job begun so far
  cutOff,      \* history: no-retry jobs whose forward hit the deadline
  unsaid,      \* history: those whose process died before it wrote so
  untold       \* history: jobs cancelled while waiting, target not told

vars == <<job, worker, snap, rescue, cancel, process, jobTimeout, stops, faults,
          submits, cutOff, unsaid, untold>>
history == <<submits, cutOff, unsaid, untold>>
control == <<rescue, cancel, process, jobTimeout, stops>>
-----------------------------------------------------------------------------
(* Workers.  left is the time until the current deadline: of the attempt,  *)
(* of the call in progress, or, below zero, the time spent past it.  A     *)
(* claim starts with none left, so -left is the age of its "now".  late is *)
(* set once the deadline of the stage's call has passed.                   *)

At(pc, j, left, attempts, late) ==
  [pc |-> pc, job |-> j, left |-> left, attempts |-> attempts, late |-> late]

Idle     == At("idle", NoJob, 0, 0, FALSE)
Claiming == At("claiming", NoJob, 0, 0, FALSE)
Since(w) == -worker[w].left

Attempting == {"resolving", "forwarding"}
Ticking    == {"polling", "fetching", "rescheduling"}

\* The same deadline, attempt and job, one stage further.
Proceed(w, pc) ==
  At(pc, worker[w].job, worker[w].left, worker[w].attempts, worker[w].late)

\* A candidate is a copy of a row, stale by the time its claim is tried.
MkCand(state, attempts, next) ==
  [state |-> state, attempts |-> attempts, next |-> next]
Cands   == [state : Waiting \cup {NoRow}, attempts : Nat, next : Int]
NoCand  == MkCand(NoRow, 0, 0)
NoCands == [j \in Jobs |-> NoCand]

Due(j) == job[j].state \in Waiting /\ job[j].next <= 0
Busy(c) == {j \in Jobs : ClientOf[j] = c /\ job[j].state \in InFlight}
HasRoom(c) == MaxConcurrent = 0 \/ Cardinality(Busy(c)) < MaxConcurrent

\* Rows ClaimNext lists: due, and not a received job of a capped client.
Listed(j) == Due(j) /\ (job[j].state = "received" => HasRoom(ClientOf[j]))

Candidates ==
  [j \in Jobs |-> IF Listed(j)
                  THEN MkCand(job[j].state, job[j].attempts, job[j].next)
                  ELSE NoCand]

\* A write fails: SQLite is busy past its timeout, the disk is full, ...
Fault == faults > 0 /\ faults' = faults - 1

\* Worker w stores row r if the store's guard accepts it and continues as
\* then; a refused or failed write is only logged, and w continues as else.
Write(w, j, from, r, then, else) ==
  /\ \/ /\ Accepts(job[j], from)
        /\ job' = [job EXCEPT ![j] = r]
        /\ worker' = [worker EXCEPT ![w] = then]
        /\ UNCHANGED faults
     \/ /\ ~Accepts(job[j], from)
        /\ worker' = [worker EXCEPT ![w] = else]
        /\ UNCHANGED <<job, faults>>
     \/ /\ Fault
        /\ worker' = [worker EXCEPT ![w] = else]
        /\ UNCHANGED job
  /\ UNCHANGED snap
-----------------------------------------------------------------------------
(* Claiming: ClaimNext and its compare-and-swaps.                          *)

StartClaim(w) ==
  /\ process = "up"
  /\ worker[w].pc = "idle"
  /\ \E j \in Jobs : Listed(j)
  /\ worker' = [worker EXCEPT ![w] = Claiming]
  /\ snap' = [snap EXCEPT ![w] = Candidates]
  /\ UNCHANGED <<job, faults, control, history>>

\* On to the batch's next candidate; after the last the claim is over.
SkipCand(w, j) ==
  /\ snap' = [snap EXCEPT ![w] = [@ EXCEPT ![j] = NoCand]]
  /\ worker' = IF \A k \in Jobs \ {j} : snap[w][k] = NoCand
               THEN [worker EXCEPT ![w] = Idle] ELSE worker

\* The claim is over: with job or error.
LeaveClaim(w, k) ==
  /\ snap' = [snap EXCEPT ![w] = NoCands]
  /\ worker' = [worker EXCEPT ![w] = k]

\* A received job out of attempts is failed instead of claimed.
FailExhausted(w, j) ==
  /\ worker[w].pc = "claiming"
  /\ snap[w][j].state = "received"
  /\ snap[w][j].attempts >= MaxAttempts
  /\ \/ /\ Accepts(job[j], {"received"})
        /\ job' = [job EXCEPT ![j] = MarkFailed(job[j])]
        /\ SkipCand(w, j)
        /\ UNCHANGED faults
     \/ /\ job[j].state \in Terminal
        /\ SkipCand(w, j)
        /\ UNCHANGED <<job, faults>>
     \/ /\ Fault \/ (~Accepts(job[j], {"received"} \cup Terminal) /\ UNCHANGED faults)
        /\ LeaveClaim(w, Idle)
        /\ UNCHANGED job
  /\ UNCHANGED <<control, history>>

\* The compare-and-swap of claimReceived, against the row as it is now.
CanClaimUncapped(w, j) ==   \* mutant: the ceiling is only checked when listing
  job[j].state = "received" /\ job[j].next <= -Since(w)

CanClaimEarly(w, j) ==      \* mutant: next_attempt_at is only checked when listing
  job[j].state = "received" /\ HasRoom(ClientOf[j])

CanClaim(w, j) ==
  /\ job[j].state = "received"
  /\ job[j].next <= -Since(w)
  /\ HasRoom(ClientOf[j])

ClaimReceived(w, j) ==
  /\ worker[w].pc = "claiming"
  /\ snap[w][j].state = "received"
  /\ snap[w][j].attempts < MaxAttempts
  /\ \/ /\ CanClaim(w, j)
        /\ job' = [job EXCEPT ![j] = ClaimedRow(job[j], Since(w))]
        /\ LeaveClaim(w, At("resolving", j, jobTimeout, job[j].attempts + 1, FALSE))
        /\ UNCHANGED faults
     \/ /\ ~CanClaim(w, j)
        /\ SkipCand(w, j)
        /\ UNCHANGED <<job, faults>>
     \/ \* the transaction fails, or the read of the claimed row after it
        /\ Fault
        /\ LeaveClaim(w, Idle)
        /\ \/ UNCHANGED job
           \/ /\ CanClaim(w, j)
              /\ job' = [job EXCEPT ![j] = ClaimedRow(job[j], Since(w))]
  /\ UNCHANGED <<control, history>>

\* claimPollTick: the schedule must still be the one in the snapshot.
SameTick(w, j) ==
  /\ job[j].state = "awaiting_target"
  /\ job[j].next = snap[w][j].next

LeasedForCall(w, j) ==      \* mutant: the lease forgets the result download
  Rescheduled(job[j], CallTimeout + Interval - Since(w))

LeasedTight(w, j) ==        \* mutant: the lease has no slack for bookkeeping
  Rescheduled(job[j], CallTimeout + ResultBudget - Since(w))

Leased(w, j) ==
  Rescheduled(job[j], CallTimeout + ResultBudget + Interval - Since(w))

ClaimPollTick(w, j) ==
  /\ worker[w].pc = "claiming"
  /\ snap[w][j].state = "awaiting_target"
  /\ \/ /\ SameTick(w, j)
        /\ job' = [job EXCEPT ![j] = Leased(w, j)]
        /\ LeaveClaim(w, At("polling", j, CallTimeout, job[j].attempts, FALSE))
        /\ UNCHANGED faults
     \/ /\ ~SameTick(w, j)
        /\ SkipCand(w, j)
        /\ UNCHANGED <<job, faults>>
     \/ /\ Fault
        /\ LeaveClaim(w, Idle)
        /\ \/ UNCHANGED job
           \/ SameTick(w, j) /\ job' = [job EXCEPT ![j] = Leased(w, j)]
  /\ UNCHANGED <<control, history>>

\* A shutdown cancels the context a claim runs under.
AbortClaim(w) ==
  /\ process = "draining"
  /\ worker[w].pc = "claiming"
  /\ LeaveClaim(w, Idle)
  /\ UNCHANGED <<job, faults, control, history>>
-----------------------------------------------------------------------------
(* One attempt: processNew, forward, retryOrFail.                          *)

\* Resolution succeeds; the forward begins once the payload is stored.
Resolved(w) ==
  LET j == worker[w].job IN
  /\ worker[w].pc = "resolving"
  /\ Write(w, j, {"resolving"}, SetResolved(job[j]), Proceed(w, "forwarding"), Idle)
  /\ submits' = IF worker'[w].pc = "forwarding"
                THEN [submits EXCEPT ![j] = @ + 1] ELSE submits
  /\ UNCHANGED <<control, cutOff, unsaid, untold>>

\* failJob, and the worker goes on as k.
Fail(w, k) == Write(w, worker[w].job, Live, MarkFailed(job[worker[w].job]), k, k)

\* A permanent error, an unknown target or a panic.
AttemptFails(w) ==
  /\ worker[w].pc \in Attempting
  /\ ~worker[w].late
  /\ Fail(w, Idle)
  /\ UNCHANGED <<control, history>>

RetryOrFail(w) ==
  IF worker[w].attempts >= MaxAttempts
  THEN Fail(w, Idle)
  ELSE \E b \in Backoffs :
         Write(w, worker[w].job, Live, Requeue(job[worker[w].job], b), Idle, Idle)

\* A transient error, the job timeout while resolving, or a shutdown.
AttemptRetries(w) ==
  /\ worker[w].pc \in Attempting
  /\ ~worker[w].late
  /\ RetryOrFail(w)
  /\ UNCHANGED <<control, history>>

\* A deadline cuts the forward off: the call returns, nothing is written yet.
CutOff(w) ==
  LET k == worker[w] IN
  /\ k.pc = "forwarding"
  /\ ~k.late
  /\ worker' = [worker EXCEPT ![w] = At(k.pc, k.job, k.left, k.attempts, TRUE)]
  /\ cutOff' = cutOff \cup ({k.job} \cap NoRetryJobs)
  /\ UNCHANGED <<job, snap, faults, control, submits, unsaid, untold>>

\* The target's retry_on_timeout.
RetriesAlways(j) == TRUE      \* mutant: a cut-off forward is any other error
RetriesOnTimeout(j) == j \notin NoRetryJobs

\* What a forward that was cut off is written down as.
ForwardTimesOut(w) ==
  /\ worker[w].pc = "forwarding"
  /\ worker[w].late
  /\ IF RetriesOnTimeout(worker[w].job) THEN RetryOrFail(w) ELSE Fail(w, Idle)
  /\ UNCHANGED <<control, history>>

\* markCompleted, and the worker goes on as k.
Complete(w, k) ==
  Write(w, worker[w].job, Live, MarkCompleted(job[worker[w].job]), k, k)

\* A direct-mode target answered with the result.
Forwarded(w) ==
  /\ worker[w].pc = "forwarding"
  /\ ~worker[w].late
  /\ worker[w].job \notin PollJobs
  /\ Complete(w, Idle)
  /\ UNCHANGED <<control, history>>

\* A poll-mode target accepted the job.
ParkForPolling(w) ==
  LET j == worker[w].job IN
  /\ worker[w].pc = "forwarding"
  /\ ~worker[w].late
  /\ j \in PollJobs
  /\ Write(w, j, {"forwarding"},
           MarkAwaitingTarget(job[j], Interval, PollTimeout), Idle, Idle)
  /\ UNCHANGED <<control, history>>
-----------------------------------------------------------------------------
(* One poll tick: processPoll, fetchAndComplete, reschedulePoll.           *)

Late(j) == job[j].deadline < 0

\* The tick is over; its deferred reschedulePoll is still to run.
TickOver(w) == Proceed(w, "rescheduling")

\* Still running, or the status endpoint is unreachable, before the deadline.
PollAgain(w) ==
  /\ worker[w].pc = "polling"
  /\ ~Late(worker[w].job)
  /\ worker' = [worker EXCEPT ![w] = TickOver(w)]
  /\ UNCHANGED <<job, snap, faults, control, history>>

\* The target job failed, the poll is refused, or the deadline has passed.
PollFails(w) ==
  /\ worker[w].pc = "polling"
  /\ Fail(w, TickOver(w))
  /\ UNCHANGED <<control, history>>

PollDone(w) ==
  LET j == worker[w].job IN
  /\ worker[w].pc = "polling"
  /\ worker' = [worker EXCEPT ![w] =
       At("fetching", j, ResultBudget, worker[w].attempts, Late(j))]
  /\ UNCHANGED <<job, snap, faults, control, history>>

FetchAgain(w) ==
  /\ worker[w].pc = "fetching"
  /\ ~worker[w].late
  /\ worker' = [worker EXCEPT ![w] = TickOver(w)]
  /\ UNCHANGED <<job, snap, faults, control, history>>

FetchFails(w) ==
  /\ worker[w].pc = "fetching"
  /\ Fail(w, TickOver(w))
  /\ UNCHANGED <<control, history>>

FetchCompletes(w) ==
  /\ worker[w].pc = "fetching"
  /\ Complete(w, TickOver(w))
  /\ UNCHANGED <<control, history>>

\* The deferred reschedulePoll: back to the real cadence if still waiting.
ReschedulePoll(w) ==
  /\ worker[w].pc = "rescheduling"
  /\ Write(w, worker[w].job, {"awaiting_target"},
           Rescheduled(job[worker[w].job], Interval), Idle, Idle)
  /\ UNCHANGED <<control, history>>

WorkerStep(w) ==
  \/ StartClaim(w) \/ AbortClaim(w)
  \/ \E j \in Jobs : FailExhausted(w, j) \/ ClaimReceived(w, j) \/ ClaimPollTick(w, j)
  \/ Resolved(w) \/ AttemptFails(w) \/ AttemptRetries(w)
  \/ CutOff(w) \/ ForwardTimesOut(w) \/ Forwarded(w) \/ ParkForPolling(w)
  \/ PollAgain(w) \/ PollFails(w) \/ PollDone(w)
  \/ FetchAgain(w) \/ FetchFails(w) \/ FetchCompletes(w)
  \/ ReschedulePoll(w)
-----------------------------------------------------------------------------
(* The sweeper: rescueStuckJobs reads the stuck ids, then requeues them    *)
(* one transaction at a time and gives up at the first error.              *)

StuckAtDeadline(j) ==    \* mutant: rescue at the attempt's own deadline
  job[j].state \in InFlight /\ job[j].age > jobTimeout

StuckResolving(j) ==     \* mutant: a stuck forward is never rescued
  job[j].state = "resolving" /\ job[j].age > 2 * jobTimeout

Stuck(j) == job[j].state \in InFlight /\ job[j].age > 2 * jobTimeout

SelectStuck ==
  /\ process = "up"
  /\ rescue = {}
  /\ \E j \in Jobs : Stuck(j)
  /\ rescue' = {j \in Jobs : Stuck(j)}
  /\ UNCHANGED <<job, worker, snap, cancel, process, jobTimeout, stops, faults, history>>

RescueOne(j) ==
  /\ j \in rescue
  /\ \/ /\ process = "up" /\ Accepts(job[j], Live)
        /\ job' = [job EXCEPT ![j] = Requeue(job[j], Null)]
        /\ rescue' = rescue \ {j}
        /\ UNCHANGED faults
     \/ /\ ~Accepts(job[j], Live) \/ process = "draining"
        /\ rescue' = {}
        /\ UNCHANGED <<job, faults>>
     \/ /\ Fault
        /\ rescue' = {}
        /\ UNCHANGED job
  /\ UNCHANGED <<worker, snap, cancel, process, jobTimeout, stops, history>>
-----------------------------------------------------------------------------
(* Clients: submission, and the two steps of handleCancel.                 *)

Submit(j, delay) ==
  /\ process = "up"
  /\ job[j].state = NoRow
  /\ job' = [job EXCEPT ![j] = Inserted(delay)]
  /\ UNCHANGED <<worker, snap, faults, control, history>>

ReadToCancel(j) ==
  /\ process # "down"
  /\ j \in CancelJobs
  /\ cancel[j] = NoRow
  /\ job[j].state \in Live
  /\ cancel' = [cancel EXCEPT ![j] = job[j].state]
  /\ UNCHANGED <<job, worker, snap, rescue, process, jobTimeout, stops, faults, history>>

\* MarkCancelled refuses a job being processed; the target is told to stop
\* when the state read before was awaiting_target.
CancelJob(j) ==
  /\ cancel[j] # NoRow
  /\ cancel' = [cancel EXCEPT ![j] = NoRow]
  /\ \/ /\ Accepts(job[j], Waiting)
        /\ job' = [job EXCEPT ![j] = MarkCancelled(job[j])]
        /\ untold' = IF job[j].state = "awaiting_target" /\ cancel[j] # "awaiting_target"
                     THEN untold \cup {j} ELSE untold
        /\ UNCHANGED faults
     \/ /\ ~Accepts(job[j], Waiting)
        /\ UNCHANGED <<job, faults, untold>>
     \/ /\ Fault
        /\ UNCHANGED <<job, untold>>
  /\ UNCHANGED <<worker, snap, rescue, process, jobTimeout, stops, submits, cutOff, unsaid>>
-----------------------------------------------------------------------------
(* The process: reload, shutdown, crash, restart; and the clock.           *)

Reload(t) ==
  /\ process = "up"
  /\ t # jobTimeout
  /\ jobTimeout' = t
  /\ UNCHANGED <<job, worker, snap, rescue, cancel, process, stops, faults, history>>

\* Everything in memory is gone.
Gone ==
  /\ process' = "down"
  /\ worker' = [w \in Workers |-> Idle]
  /\ snap' = [w \in Workers |-> NoCands]
  /\ rescue' = {}
  /\ cancel' = [j \in Jobs |-> NoRow]

\* Jobs whose worker knows of a cut-off it has not written yet.
BeingSaid ==
  {worker[w].job : w \in {v \in Workers : worker[v].pc = "forwarding" /\ worker[v].late}}

Crash ==
  /\ process # "down" /\ stops > 0
  /\ stops' = stops - 1
  /\ Gone
  /\ unsaid' = unsaid \cup (BeingSaid \cap NoRetryJobs)
  /\ UNCHANGED <<job, jobTimeout, faults, submits, cutOff, untold>>

BeginShutdown ==
  /\ process = "up" /\ stops > 0
  /\ stops' = stops - 1
  /\ process' = "draining"
  /\ UNCHANGED <<job, worker, snap, rescue, cancel, jobTimeout, faults, history>>

\* Pool.Run returns once every worker and the sweeper have.
FinishShutdown ==
  /\ process = "draining"
  /\ \A w \in Workers : worker[w].pc = "idle"
  /\ rescue = {}
  /\ Gone
  /\ UNCHANGED <<job, jobTimeout, stops, faults, history>>

\* RecoverInFlight on the jobs in r, then ResetPollSchedules on those in p,
\* each due at some point of the next interval.
RestartedResolving(j, r, p, at) ==   \* mutant: interrupted forwards are not recovered
  IF j \in r /\ job[j].state = "resolving" THEN Requeue(job[j], Null)
  ELSE IF j \in p THEN Rescheduled(job[j], at[j])
  ELSE job[j]

Restarted(j, r, p, at) ==
  IF j \in r THEN Requeue(job[j], Null)
  ELSE IF j \in p THEN Rescheduled(job[j], at[j])
  ELSE job[j]

Restart ==
  LET interrupted == {j \in Jobs : job[j].state \in InFlight}
      waiting     == {j \in Jobs : job[j].state = "awaiting_target"}
  IN
  /\ process = "down"
  /\ process' = "up"
  /\ \E r \in SUBSET interrupted, p \in SUBSET waiting,
        at \in [Jobs -> 0 .. Interval - 1] :
       /\ \/ r = interrupted /\ p = waiting /\ UNCHANGED faults
          \/ Fault /\ (r = interrupted \/ p = waiting)
       /\ job' = [j \in Jobs |-> Restarted(j, r, p, at)]
  /\ UNCHANGED <<worker, snap, rescue, cancel, jobTimeout, stops, history>>

\* Time passes unless some worker has used up its time.
OnTime(w) == worker[w].pc # "idle" => worker[w].left > -Slack

AgedCand(c) ==
  MkCand(c.state, c.attempts, IF c.state = NoRow THEN c.next ELSE Sooner(c.next))

AgedWorker(k) ==
  IF k.pc = "idle" THEN k ELSE At(k.pc, k.job, k.left - 1, k.attempts, k.late)

Tick ==
  /\ \A w \in Workers : OnTime(w)
  /\ job' = [j \in Jobs |-> Aged(job[j])]
  /\ worker' = [w \in Workers |-> AgedWorker(worker[w])]
  /\ snap' = [w \in Workers |-> [j \in Jobs |-> AgedCand(snap[w][j])]]
  /\ UNCHANGED <<faults, control, history>>
-----------------------------------------------------------------------------
Init ==
  /\ job = [j \in Jobs |-> Absent]
  /\ worker = [w \in Workers |-> Idle]
  /\ snap = [w \in Workers |-> NoCands]
  /\ rescue = {}
  /\ cancel = [j \in Jobs |-> NoRow]
  /\ process = "up"
  /\ jobTimeout \in JobTimeouts
  /\ stops = MaxStops /\ faults = MaxFaults
  /\ submits = [j \in Jobs |-> 0]
  /\ cutOff = {} /\ unsaid = {} /\ untold = {}

Next ==
  \/ \E w \in Workers : WorkerStep(w)
  \/ SelectStuck \/ (\E j \in Jobs : RescueOne(j))
  \/ \E j \in Jobs : (\E d \in Delays : Submit(j, d)) \/ ReadToCancel(j) \/ CancelJob(j)
  \/ \E t \in JobTimeouts : Reload(t)
  \/ Crash \/ BeginShutdown \/ FinishShutdown \/ Restart
  \/ Tick

Spec == Init /\ [][Next]_vars

\* The goroutines keep being scheduled, the sweeper's ticker keeps firing, a
\* stopped process is started again, and time passes.
Fairness ==
  /\ \A w \in Workers : WF_vars(WorkerStep(w))
  /\ WF_vars(SelectStuck) /\ WF_vars(\E j \in Jobs : RescueOne(j))
  /\ WF_vars(FinishShutdown) /\ WF_vars(Restart)
  /\ WF_vars(Tick)

FairSpec == Spec /\ Fairness
=============================================================================
