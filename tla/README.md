# TentaCron in TLA+

TentaCron accepts simulation requests, resolves the *resolvent* objects in
their payloads through resource APIs, forwards the payload to a target, waits
for its result and reports it. Requests are rows of one SQLite table; worker
goroutines, a sweeper, a scheduler, a callback deliverer and HTTP handlers all
work on those rows. This project models what they do to each other, checks
small instances with TLC, and proves with TLAPS, for every instance, each
invariant and action property the runs check, the three refinements, and that
the resolver's recursions and a shutdown cannot get stuck. Paths below are
relative to `src/`.

## Inventory

| Part | State it keeps | Operations | What is hard |
|---|---|---|---|
| Job store (`internal/store/jobs.go`) | `jobs` rows: state, attempts, next_attempt_at, updated_at | guarded transitions, claim, poll lease, rescue, recovery | every write is a compare-and-swap against a state read earlier |
| Workers (`internal/worker/pool.go`, `process.go`) | the job in hand, its deadline and configuration | resolve, forward, park, poll, fetch result, retry, fail | deadlines, lost writes, late outcomes, two workers on one row |
| Sweeper (`internal/worker/sweep.go`) | ids selected for rescue or retention | rescue, prune rows and result files | telling a stranded job from a long attempt |
| Scheduler (`internal/worker/scheduler.go`, `internal/store/schedules.go`) | `schedules` rows, the due list of a tick | list due, store run, advance | overlap of two processes, a failure between the two writes |
| Callback deliverer (`internal/callback`, `internal/store/deliveries.go`) | `callback_deliveries` rows, the due list and allow-list of a tick | list, check, POST, record | stop between POST and record, reload during a batch |
| Notifier and long poll (`internal/notify/hub.go`, `awaitTerminal`) | waiters per job, one terminal flag | wait, notify, forget | lost wake-ups, leaked waiters |
| Submission (`CreateJob`, `internal/api/handlers.go`) | rows per client and idempotency key | check, insert, replay, conflict, refuse; a batch item by item | concurrent calls, lost answers, retention between insert and replay |
| Listing (`ListJobs`, `writeJobPage`) | none; a cursor held by the client | one page | rows come and go between pages, ties in a millisecond |
| Fetching (`fetchAll`) | channels between feeder, fetchers, collector | feed, fetch, skip, collect | who waits on whom after a failure; which failure is named |
| Chains (`internal/resolver/chain.go`, `fetchChain`) | levels, filled inputs, series by key | bind, order, fill, rehash, substitute | cycles, depth, keys that change when filled |
| Documents (`internal/resolver/resolver.go`) | the payload, one closure per resolvent | find, substitute | what is opaque to the walk, slots inside slots |
| Results (`process.go`, `sweep.go`, `internal/upstream/target.go`, `handleResult`) | temp and result files, `result_path` | poll, download, spool, rename, complete, discard, serve, prune | broken downloads, two workers with one job's result, a crash in between |
| Configuration (`internal/config`) | the current snapshot | default, validate, reload | budgets put together from several sections, who reads it when |
| Process (`cmd/tentacron/main.go`, `internal/store/migrate.go`) | the context and channels of `run`, the schema | start, migrate, bind, reload, drain, stop, crash | coalescing signals, the order of a shutdown, two starts at once |

**Not modelled**, with the reason for each: the upstream client's requests
other than the result download (one call, one answer; the models take any
answer); response mappings (`internal/resolver/mapping.go`: path expressions
and exact decimal scaling of one body, string and number conversions without
state); authentication, CORS and routing (pure functions of one request);
metrics and job views (nothing reads them back); SQLite's vacuum and backup;
the SQL of a migration; the command line; what only the text of a
configuration file decides (YAML, URLs, names), which is one Boolean of
`Configuration`. `PROJECT.json` lists every part with its status.

**How they interact.** Handlers insert rows and nudge the workers. A worker
lists candidates, claims one by compare-and-swap, and runs an attempt or a poll
tick; every write it makes afterwards is guarded by the state it expects. A
terminal transition enqueues the callback in its own transaction; the worker
then calls the hub, which wakes long polls and raises the flag the deliverer
waits on. The scheduler calls `CreateJob` with a key made of the schedule and
its due time. The sweeper requeues what nobody seems to work on and deletes
what is old, files first. The process starts the loops and the listeners, hands
each reload to the configuration provider they all read, and stops them in
order: long polls, requests, workers, notifications, store.

## Modules

| Module | Models | Notes |
|---|---|---|
| `JobStore` | rows and the transitions of `jobs.go` | shared vocabulary; no variables |
| `JobQueue` | claims, attempts, poll ticks, sweeper, cancellation, reload, crash, shutdown, restart, time | extends `JobStore` |
| `JobLifecycle` | the abstract promise: a request's states and attempts | refined by `JobQueue` |
| `JobQueueProperties` | the queue's properties and its inductive invariant | |
| `Scheduler`, `Callbacks`, `LongPoll`, `Submission`, `Fetch`, `Chains`, `Paging`, `Results` | the component of that name | each with its properties |
| `Timetable`, `Outbox` | the abstract promises of schedules and of callbacks | refined by `Scheduler` and `Callbacks` |
| `Documents` | finding and substituting resolvents in a document: the path, the calls of `walk`, one substitution at a time | with a reference definition of what is to be found |
| `Configuration` | defaults, validation, deadlines, leases, backoff | operators only |
| `Process` | start, migrations, reloads, requests in flight, shutdown, crash | extends `Configuration` |
| `MC*` | the instance TLC checks | model values only |
| `JobQueueProofs`, `LongPollProofs`, `ResultsProofs`, `CallbacksProofs`, `SchedulerProofs`, `ProcessProofs` | theorems about the component of that name | TLAPS |
| `ApiProofs` | theorems about `Submission` and `Paging` | TLAPS; extends both |
| `ResolverProofs` | theorems about `Chains`, `Fetch` and `Documents` | TLAPS; extends all three |

An action is one atomic step of the code: a transaction, a channel operation,
a system call. What the code reads in one step and uses in a later one is kept
in a variable in between (`snap`, the candidates of a claim; `rescue`, the
sweeper's selection; `cancel`, the state a cancellation read; a scheduler's and
a deliverer's list; a poll's last read).

**Time in `JobQueue`.** `Tick` lowers the time left to each deadline and raises
each row's age, up to `Horizon`, past which the code cannot tell ages apart. A
worker whose deadline has passed keeps time from passing for longer than
`Slack`: upstream calls end at their context's deadline, and the claim and the
writes around a call take at most `Slack`. Each
outcome of an upstream call is a free choice at any moment before that.

**Faults.** A failing database write, a crash, a graceful shutdown and a reload
can come at any step, as often as `MaxFaults`, `MaxStops` and `MaxReloads`
say. A failed write does what the code does with the error (mostly: log it and
go on). In `Process` one budget, `MaxFaults`, pays for a crash, a failing
migration, bind or listener.

**Refinements.** `JobQueue` implements `JobLifecycle`: states and attempts of a
request, without workers or time. `Callbacks` implements `Outbox`: `status` is
the delivery's state, `tries` its attempts, `taken` whether an acknowledged POST
was made; the abstract machine has no deliverers, no lists and no lost records,
so the refinement says that none of them shows in what a client is told.
`Scheduler` implements `Timetable`: no run is made early, none twice while
retention keeps it, and a schedule leaves a due time only after its run. Where
the expression always has a next instant, only instants it names are run and a
schedule only moves forward; where it has none the due time is the zero time
(see Divergences), and neither is promised.

**`Process`.** `main` follows `run` from step to step; the two channels of one
that a SIGHUP passes through (`hup`, `reloads`) are Booleans; `asked` remembers
that a SIGHUP came after the file was last read. A request is running, parked in
`awaitTerminal` or done; a loop is busy, idle or done. The second process,
`Rival`, is a binary with fewer migrations that opens the same database at any
time.

## Runs

Twelve runs; each module's cfg gives the constants.

| Run | Instance | Shows |
|---|---|---|
| `JobQueueTiming` | one poll-mode job, two workers, two attempts, deadlines of 3 and 4 ticks, slack 1, one stop, one failing write | `ExclusiveWork`, `NeverPulledAway`, `AttemptsBounded`, `BackoffHonoured`, `CutOffNotResubmitted`, the inductive `QueueInv`, and the refinement `ImplementsLifecycle` |
| `JobQueueLiveness` | a direct and a poll-mode job of one client, ceiling 1, two workers, one attempt, one stop, one failing write | `CeilingRespected`, `StrandedOnlyByFault`, `EveryJobEnds` |
| `JobQueueCancel` | one poll-mode job | violation: see Findings |
| `Scheduler` | two schedules, one of them with an expression that names no instant, two overlapping processes, a clock from 3 to 5 with instants up to 7, a search horizon of 3, one stop, one failing write, one pruned run | `ImplementsTimetable`; every named due time gets its run |
| `Callbacks` | one request, two overlapping deliverers, two reloads, one stop, one failing write | `ImplementsOutbox`; `PostsBounded`, how often one process may send a callback; every callback ends |
| `LongPoll` | two polls of one of two jobs, a deliverer with a batch of one and failing reads, one timer, one tick, a drain, silent ends | no lost wake-up or flag, no leak; polls answer without timers |
| `Submission` | calls under one key (one with another body) and without, one refused, a batch, one of the scheduler; cap 2, two tries | the cap holds, an accepted call names the right job |
| `Fetch` | all documents of up to three resolvents, repeated ones included, two fetchers, calls that time out at any time, failing cache writes; two of the hashes may be cached before | one result each, the verdict of a pass (`PassVerdict`), bodies cached (`FetchedIsCached`), no goroutine left |
| `Resolver` | two machines, one at work in each behaviour. Chains: all payloads of three resolvents, three names, at most one literal; depth bound 2; backends and the shared cache answer anything. Documents: all of five nodes and two keys, three container paths, with and without the marker | `ChainVerdict` against a definition by trails; every series found by its key; slots and dependants agree; `FoundAllReplaced` against a definition by closed sets of nodes |
| `Paging` | five jobs, three milliseconds, pages of two, every state filter | `ListedExactlyOnce` |
| `Results` | two workers, two paths, results of one to three chunks with a limit of two, a client, a cancellation, retention at any time after the end, one stop, one failing operation | results are whole or retried; files and rows agree; a client gets the file or is told it was pruned |
| `Process` | one loop, two servers, a long poll and a cancel, three files (one must be refused), one edit, one fault or crash, three migrations and an older process with two | `SchemaSound`, `ConfigSound`, `OrderlyStop`; no reload is lost; a signal ends the process |

**Why the bounds are enough to see the interesting cases.** Two workers are
what it takes for one to act on the other's job. One stop and one failing write
reach each recovery path, and both in one behaviour reach a recovery of a
recovery. In `JobQueueTiming` the deadlines (3, 4), the interval (4) and the
slack (1) are the smallest that satisfy `Timely` with differing deadlines, so
that the lease and the cutoff are exercised at their margins: shortening either
by one step is a mutant that is caught. Three resolvents give cycles, diamonds
without a top, ambiguous names and chains past a bound of two; the bound itself
is a constant (eight in the code). Five nodes in two slots each give a
resolvent beside, inside and behind another, a series with one in its data, an
array with one in it, and a path that ends at a resolvent, inside one, at a
scalar or nowhere. Two tries (three in the code) let a
submission run out of them with three calls under one key. Five jobs in pages
of two make three pages. A limit of two chunks has results below, at and past
it. A batch of one callback is one that two jobs overfill. A batch of two
schedules (100 in the code) holds both: with a batch of one the schedule that
has no instant is listed first at every tick and the other never runs, which
is what 100 such schedules do in the code. `ConfigSound` also evaluates every text of `MCTexts` (workers, direct and
polled targets, own and backed resolvents, with absent, negative and boundary
values), and backoffs of up to nine attempts in words of five bits, where the
shift wraps to negative, zero and small positive values. One edit beside any
number of SIGHUPs is what a lost reload takes. Each property has a mutant of the code in
`PROJECT.json` that breaks it under the run's own bounds. The components'
type invariants are part of their inductive invariants (see Proofs), or follow
from them; only the queue's is listed with a run.

Deadlock checking is off where a finished workload is a legitimate stop (all
but the queue's runs, whose clock never stops).

**Fairness.** Weak fairness of goroutines' own steps (the Go scheduler), of the
sweeper, scheduler and deliverer loops (tickers), of restarts (the service
manager; without it nothing is promised) and of time. Upstream calls end
because their contexts have deadlines. No fairness is assumed of clients,
reloads, or upstreams answering well. `LongPoll` gives timers no fairness, so
its liveness property holds by the hub's signals alone. `Process` gives strong
fairness to the case of `run`'s select that sees the signal: Go picks at random
among the ready cases, and the signal stays ready. It gives none to the grace
timer, to a long poll's job or to clients, so `ShutdownEnds` holds because
`BeginDrain` answers the polls.

## Proofs

Every theorem is for every value of the constants that the named `ASSUME` of its
module allows: any number of jobs, workers, processes, requests or resolvents, any
budget of faults. `Spec` (`PagingSpec`, `FetchSpec`) is the specification the
runs check, less its fairness (in `Resolver`, of the half that is at work). Every invariant
here was first checked by TLC on the run's instance.

| Module | Theorem | Statement |
|---|---|---|
| `JobQueueProofs` | `TypeCorrect` | `Spec => []TypeOK` |
| | `InvariantHolds` | `Timely /\ Spec => []QueueInv` |
| | `OneWorkerPerJob` | `Timely /\ Spec => []ExclusiveWork` |
| | `JobsStayHeld` | `Timely /\ Spec => []NeverPulledAway` |
| | `AttemptsStayBounded` | `Timely /\ Spec => []AttemptsBounded` |
| | `NoEarlyClaim` | `Spec => BackoffHonoured` |
| | `CeilingHolds` | `Spec => []CeilingRespected` |
| | `QueueImplementsLifecycle` | `Timely /\ Spec => ImplementsLifecycle` |
| | `FaultsAloneStrand` | `Timely /\ Spec => []StrandedOnlyByFault` |
| | `CutOffStaysCutOff` | `Timely /\ Spec => CutOffNotResubmitted` |
| `LongPollProofs` | `HubInvariant` | `Spec => []HubInv` |
| | `NoLostWakeup`, `WaitersBounded`, `FlagIsEnough` | `[]WakeupComing`, `[]NoWaiterLeak`, `[]CallbackWillBeSeen` |
| `ApiProofs` | `SubmissionInvariant` | `Spec => []SubmissionInv` |
| | `CapNeverExceeded`, `RightJobAccepted` | `[]CapHolds`, `[]AcceptedRightJob` |
| | `ListingInvariant` | `PagingSpec => []ListingInv` |
| | `PagesNeverRepeatOrSkip` | `[]ListedExactlyOnce` |
| `ResultsProofs` | `ResultsInvariant` | `Spec => []ResultsInv` |
| | `ResultsAreWhole`, `CompletedKeepsItsFile`, `NoFileLeftBehind`, `RowOutlivesItsFile` | `[]WholeOrRetried`, `[]CompletedHasFile`, `[]NoOrphan`, `[]FileGoesBeforeRow` |
| `CallbacksProofs` | `CallbacksInvariant` | `Spec => []CallbacksInv` |
| | `PostsStayBounded` | `[]PostsBounded` |
| | `CallbacksImplementOutbox` | `Spec => ImplementsOutbox` |
| `SchedulerProofs` | `SchedulerInvariant` | `Spec => []SchedulerInv` |
| | `SchedulersImplementTimetable` | `Spec => ImplementsTimetable` |
| `ProcessProofs` | `ValidateIsSound` | `IsConfig(raw) /\ Accepted(raw) => Sound(ApplyDefaults(raw), m)` |
| | `ProcessInvariant` | `Spec => []ProcessInv` |
| | `SchemaStaysSound`, `ConfigStaysSound`, `StopStaysOrderly` | `[]SchemaSound`, `[]ConfigSound`, `[]OrderlyStop` |
| | `StopNeverWedged`, `NoReloadLost` | `[]StopGoesOn`, `[]ReloadComing` |
| `ResolverProofs` | `ChainsInvariant` | `Spec => []ChainsInv` |
| | `RecursionBounded` | `Spec => [](TypeOK /\ Len(stack) <= N)` |
| | `VerdictIsRight`, `NeverUnresolved` | `[]ChainVerdict`, `[]SeriesAlwaysThere` |
| | `PayloadConsistent` | `Spec => []DependantsAgree` |
| | `PassInvariant` | `FetchSpec => []PassInv` |
| | `PassesReportTruly`, `BodiesAreCached` | `[]PassVerdict`, `[]FetchedIsCached` |
| | `ResultsNeverBlock` | `[](OneResultEach /\ Len(results) <= Len(unique))` |
| | `ChainsEnd` | `[](ChainStepsLeft \in Nat) /\ [][ChainStepsLeft' < ChainStepsLeft]_vars` |
| | `PassNeverWedged` | `[](PassOver \/ PassMoves)` |
| | `PassIsFinite` | as `ChainsEnd`, with `StepsLeft` of a pass |
| | `DocumentInvariant` | `DocSpec => []DocInv` |
| | `FoundAndReplaced` | `DocSpec => []FoundAllReplaced` |
| | `DocumentsEnd` | as `ChainsEnd`, with `DocStepsLeft`; the calls of `walk` never exceed the nodes |

**Assumptions beyond the constants' types.** `Timely` is the timing the queue
relies on: the writes around a call are short next to the poll interval
(`3 * Slack < Interval`), and no configured attempt deadline plus that slack is
longer than twice another (`t + 2 * Slack <= 2 * u`): the sweeper's cutoff is
twice the deadline now configured, while an attempt may still run under an
earlier one. Backoff and ceilings need no timing: they rest on the claim's own
statement. The other modules assume nothing beyond their constants' types.

**The queue.** Exclusive ownership is not inductive. What makes it so is
`QueueInv`: a worker on an attempt owns its row, and the row's age plus the time
the worker has left is at most a deadline plus slack (`HoldsAttempt`), so nothing
the sweeper selects can still be held (`Abandoned`); a worker on a poll tick has a
lease that ends after every deadline the tick has left, the result download
included (`HoldsLease`), so no second tick can start; a candidate in a claim's
list is at most a slack old, too young for its job to have run out of attempts
meanwhile (`FreshCandidates`); and the counters agree (`Counted`). The proof has
one lemma per group of actions. `ClaimReceivedInv` and `ClaimPollTickInv` show
that what a claim takes is free; `HoldingInv` that a worker's own steps keep what
it holds; `RescueInv` and `SurroundingInv` that the sweeper, handlers and process
steps touch nothing held; `TickInv` that time moves rows and deadlines together.
The refinement uses a summary of what each group of actions may do to the table,
proved once per action and then matched with `JobLifecycle`'s steps. That a job
is stranded only by a fault needs `Unharmed`: while no write has failed, every
in-flight row has its worker, and a cut-off forward is still with the worker that
will fail it, has failed, or lost its process before the failure was written
(`unsaid`).

**The hub.** `HubInv` says who will wake a poll at each point: a poll is
registered until somebody ends its job (`Registered`), whoever ended it is inside
`Notify` and holds its channel (`EndersHold`), and a callback still to send has
the flag, a `Notify`, or the deliverer's own list, unless that list was not all
there was: a full batch, or a read that failed (`CallbackOnItsWay`).

**Submission and listing.** `SubmissionInv` holds one stored row per key
(`KeysUnique`, the partial unique index) and that an accepted call names a stored
job with its key and body (`AcceptedJob`); `CapHolds` is inductive because the
count is in the insert's transaction. `ListingInv` says that rows have distinct
rowids though pruned ones come back, that a job already listed is not ahead of
the cursor (`ListedOnce`), and that one that has matched all along is listed or
still ahead (`StillComing`). `OrderedIs` shows that `ORDER BY` gives every row one
place: each row has fewer rows ahead of it than any older one.

**Results.** `ResultsInv` follows a file from the download to retention: a worker
past the spool has the whole result (`WorkerSound`), the row tells the truth
about it (`RowSound`), a client and the sweeper act on what they read
(`ReaderSound`, `SweepSound`), and without faults every file is the row's, a
worker's, or at the path of a download that retention overtook (`Accounted`).
Nothing keeps retention from a row somebody still downloads for, so the history
variable `overtaken` names the paths of the downloads under way when the sweep
unlinked the file; from then on every worker at work is one of those, since no
new one starts on an ended request. `NoOrphan` and `FileGoesBeforeRow` hold at
every other path.

**Callbacks and schedules.** What makes overlapping loops harmless is that their
lists are stale only backwards. `ListSound`: a listed delivery that still has the
attempt count it was read with is still pending, so the guarded record of its
outcome is a step of `Outbox`. `LoopSound`: a listed due time was due when it was
read, a steady schedule (one whose expression always has a next instant) has not
moved back since, and a loop advances it only after its run is stored. With
`HasDueTime` (a steady schedule is due at a named instant) and
`MadeKept` (a stored run was made) this maps every step to one of `Timetable`;
`NextRunMonotone` and `NextRunSteady` say what the cron library's answer gives.
`PostsBounded` rests on `Counted`: what a process has sent of a callback, less
what a stop or a failing write kept it from recording, is at most the attempts
its list shows for it, with the POST in hand, or, once it is off the list, the
attempts the row shows. A list is never ahead of its row, so losing the
compare-and-set earns no POST: the row has moved on by another process's attempt.
`WithinBudget` keeps the row within the largest budget.

**Process.** `ValidateIsSound` is about every configuration text with the fields'
types (`IsConfig` in `Configuration`), any number of attempts and any word size:
defaults, budgets of direct, polled and backed targets, and the backoff's
overflow. `ProcessInv` keeps every recorded schema a prefix of the migrations
while two starters work (`Migrating`), an accepted configuration in force
(`Configured`) and the order of a stop (`Quiet`).

**Chains.** The code's recursion has no bound in the payload's shape; the proof
makes it a property of walks in the graph of references. `ChainsInv` says that a
depth is the length of the longest walk from its resolvent (`DepthSound`), that
the calls of `level` under way are a walk without repetition (`StackSound`), and
what was fetched so far (`Fetched`). `WalksGoOn` (a cycle has walks of every
length) and `WalksEnd` (a graph whose depths fall has none of the payload's size,
by the pigeonhole principle) turn this into the verdict of `ChainVerdict`.

**A pass of `fetchAll`.** `PassInv` says that each hash the feeder has passed is
at one fetcher, once in the channel, or collected (`Handed`, `Apart`,
`NoneLost`), that a body a backend delivered is in the cache, lost to a failing
write, or still with its fetcher (`Kept`), that whatever was skipped stands
behind a failure or a call that was cut off (`Behind`, `Honest`), and that the
verdict comes after the last result (`Settled`).
`UniqueIs` shows that `uniqueByHash` keeps every hash once, so the channel of
that size never fills.

**Documents.** `walk` is recursive over a tree of any shape, which no installed
prover can induct on. What replaces the induction is the numbering in document
order (`DocTree`: a node comes after its parent and after all that is in the
slots before its own). `DocInv` says that the calls under way have rising nodes,
each before whatever its callers have left (`CallsSound`), and that some set of
walked nodes is reachable past nothing opaque and closed except for the slots
those calls have left, all its resolvents among what is reported or left (`Seen`).
When the last call returns nothing is left, so that set is the least closed one,
which is what `FoundAll` speaks of. `Located` does the same for the path: every
way along it passes where `locateContainer` is. A slot reported is in a node that
no other resolvent is above, so each closure still writes into an object of the
document when its turn comes (`ReplacedThem`).

**Ends.** Liveness itself is out of reach, its safety half is not. Each of the
resolver's machines has a natural number that falls with every step it takes
(`ChainStepsLeft`: references to follow, resolvents to order, levels to fetch;
`StepsLeft`: hashes to feed, fetches under way, results to collect;
`DocStepsLeft`: nodes ahead of the walk, slots to overwrite), so none of them
runs forever, on any payload. `PassNeverWedged` adds that a pass of `fetchAll` that is not over has a goroutine with a step to
take: somebody listens to the feed until it is closed (`Manned`), so feeder,
fetchers and collector never all wait for each other. What
fairness then adds, that the step is taken, is the scheduler's part, and
`NoGoroutineLeft` checks it. `StopNeverWedged` is the same for a shutdown:
`Told` says that the long polls are told before the servers are waited for and
the loops before they are, so the first server still up is one that can be
closed, or waits for requests that will be answered. `NoReloadLost`: a SIGHUP
not yet served is in one of the two channels of one, or being served.

Where a fact needs induction over numbers or sets the proofs take a least
counterexample (`WFMin` with the order of the naturals, or of finite subsets),
which avoids the induction schemes the provers cannot instantiate.

**Only model-checked.** Liveness (`EveryJobEnds`, the due schedules, the ends of
callbacks, polls, reloads, shutdown and fetchers): fairness and `ENABLED` are
beyond the prover, so the theorems on ends above state guards and falling
measures instead.

## Findings

One run is expected to fail; it states what the documentation says.

- `JobQueueCancel`: `handleCancel` (`internal/api/handlers.go:823`) notifies the
  target if the state it *read* was `awaiting_target`. A request read as
  `received` that is claimed, forwarded and parked before `MarkCancelled` is
  cancelled, and its target keeps computing. `docs/operations.md:292`: "the
  target is told to stop when it offers a `cancel_url_template`".

### Divergences

Met while modelling; the models behave as the code does, and the properties are
stated so that they hold.

- A reload that more than halves `job_timeout` lets the sweeper
  (`internal/worker/sweep.go:60`) requeue an attempt that is within its own
  deadline, against "A job already in flight keeps the configuration it started
  with" (`docs/operations.md:205`). This is what `Timely` excludes.
- A forward cut off on a target with `retry_on_timeout: false` is submitted
  again if the write of that failure fails (`internal/worker/process.go:755`),
  and if the process dies between the deadline and that write, when recovery
  finds the row in `forwarding` and requeues it, against "the target's work is
  never re-submitted" (`docs/operations.md:280`). `CutOffNotResubmitted`
  excepts exactly these two.
- "A callback is never lost or sent twice; a crash between the POST and
  recording its outcome repeats that one attempt" (`docs/operations.md:334`) is
  contradicted in three ways without a crash, and the models have all three.
  `attempt` (`internal/callback/deliverer.go:178`) records the outcome under the
  context that shutdown cancels, so an acknowledged POST is repeated after a
  graceful restart; it is repeated when the write of the record fails; and while
  two processes overlap, both POST a delivery that both have listed, and only
  one record wins. So the sentence is not a property of this project.
  `PostsBounded` says what is left of it: one process sends a callback at most
  `max_attempts` times, and once more for each record that a stop or a failing
  write prevented.
- `deliverDue` reads the allow-list once per batch
  (`internal/callback/deliverer.go:130`), against "every attempt re-checks the
  list" (`docs/operations.md:342`).
- `claimOne` fails an exhausted job without a signal
  (`internal/store/jobs.go:651`), against "signal on every terminal transition"
  (`docs/architecture.md:268`). `LongPoll` calls such jobs `silent`.
- A deliverer takes the flag down before it lists (`internal/callback/deliverer.go`,
  `Run`), lists one batch of 50 and gives up on an error (`:122-141`): callbacks
  beyond a full batch, or behind a list or a job that cannot be read, wait for
  the ticker. `CallbackWillBeSeen` says that nothing else does.
- `handleCreateSchedule` (`internal/api/schedules.go:92-97`) accepts an expression
  that names no instant the cron library finds (`0 0 30 2 *`, or one past its
  search horizon), whose next run is the zero time: the schedule is due at once
  and at every tick, is run at a time nobody named, and once retention has
  removed that run, again. Such schedules come first in every due batch, so a
  hundred of them starve the others. `docs/openapi/openapi.yaml:287`: "submitted
  at every time the cron expression names". `Timetable` promises less for such schedules.
- A poll whose wait elapses answers with its last read
  (`internal/api/handlers.go:595`), against "answers with the freshest state"
  (`docs/api.md:207`).
- `max_queued` counts every unfinished row of the client, scheduled runs
  included (`internal/store/jobs.go:281`), against "runs materialised from
  schedules never count against it" (`docs/configuration.md:72`). `CapHolds`
  holds either way.
- `run` starts the loops, with their recovery of interrupted jobs, before
  `listenAndServe` binds (`cmd/tentacron/main.go:395`, `:408`), against "so a
  taken port fails before anything runs" (`cmd/tentacron/main.go:443`).
- `maxWait` (`internal/api/handlers.go:547`) takes the write timeout of the
  configuration now in force, the running `http.Server` keeps the one it was
  started with; and for a write timeout of a second or less the wait is not
  below it (`docs/api.md:208`).
- `restartRequired` (`internal/config/provider.go:105`) compares with the
  configuration loaded before, not with the one the process was started with: a
  second reload of the same file no longer names what still needs a restart. It
  also names settings that are read per job or per request and do change at
  once (`storage` in `internal/worker/process.go:551` and `sweep.go:83`,
  `server.max_body_bytes` in `handlers.go:380`).
- The lease of a poll tick is computed from the configuration at the claim, the
  tick runs under the one read after it (`internal/worker/pool.go:120`): a
  reload between the two that lengthens the target's timeouts makes the lease
  shorter than the tick. `JobQueue` reloads attempt deadlines only.
- The shift of the backoff (`internal/worker/process.go:723`, "overflows to a
  non-positive value") may also wrap to a small positive one: the wait then is
  short, though still positive and below `backoff_max`, as `ConfigSound` says.
- A resolvent whose filled key equals one of an earlier level is fetched again,
  and what it gets replaces that level's series (`maps.Copy`,
  `internal/worker/process.go:162`): the payload then may hold a series its
  dependants were not computed from. No cache mode prevents it: under `use` too
  the row may have expired, may not have been written (`:368`) or read (`:328`),
  or may have been overwritten by another job, as scheduled runs do by default.
  `DependantsAgree` excepts such a twin and nothing else.
- "Because feeding follows document order, the first failing resolvent in
  document order always records its true error" (`internal/worker/process.go:215`)
  misses calls that end at their own timeout (`internal/upstream/client.go:183`):
  that is a context error, which `pickResolveError` passes over for a later
  resolvent that failed otherwise. And "on the first error no new fetches start"
  (`:211`) is not strict: with `stop` closed and a fetcher waiting, Go's select
  in `feedResolvents` may still feed. `PassVerdict` is what holds with both.
- A row cancelled while its result is being downloaded and pruned before the
  download ends leaves its file for good: `MarkCompleted` answers that there is
  no such job, which is only logged (`internal/worker/process.go:636`). The same
  happens to a second download that ends between the sweep's unlink and its
  delete. Both are against "never leaves a file that no row references"
  (`process.go:656`, its comment) and "never orphaned files"
  (`internal/worker/sweep.go:80`). It takes a `retention` shorter than a
  download; validation only asks for a positive one
  (`internal/config/validate.go:94`). `NoOrphan` excepts the paths of such
  downloads.

## Abstractions to keep in mind

- Priorities and fairness between clients in `ClaimNext` only order the
  candidates; a worker here may take any.
- `Paging` assumes rowids are stable: incremental vacuum keeps them, a full
  `VACUUM` by an operator need not.
- `Chains` gives a field the name of the sibling it refers to and a series one
  value; `fetchAll` is one step there, `Fetch` opens it up.
- `Results` follows one job; `Submission` one client; `LongPoll` counts timers.
- `Documents` numbers keys, indices and nodes in document order; a body is its
  type and the marker it carries, what is inside it is not looked at again. JSON
  decoding and pointers' escaping are left out.
- `Configuration` computes with unbounded integers except for the backoff's
  shift: durations so large that a sum or a product of them overflows 64 bits
  are not modelled, and `backoff_max` bounds the wait before its jitter of 20%.
- A crash may leave a spool file, or a result file whose row was not completed:
  the next attempt overwrites the second, nothing removes the first. `NoOrphan`
  is for behaviours without a crash.
- In `Process` a handler or a loop's work is one step: what they do to the store
  is the subject of the other modules.

## Plan

Done: the components of the inventory with their runs, abstract specifications
for the queue, callbacks and schedules, and the theorems above.

1. Compose: `JobQueue` with `Results` (one job's result path under overlapping
   workers), `Scheduler` over `Submission` (the run key as an idempotency key).
2. Extend: per-client turns in `ClaimNext`; reloads of poll timeouts between a
   claim and its tick.
3. Prove: that `Chains` takes `fetchAll` as one step is justified by
   `PassVerdict`, which could be stated as a refinement; a falling measure for a
   shutdown, as for the resolver.
