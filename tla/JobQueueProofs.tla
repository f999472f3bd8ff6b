--------------------------- MODULE JobQueueProofs ---------------------------
(***************************************************************************)
(* Proofs about the job queue, for every set of jobs and workers, every    *)
(* timeout and every budget of faults and restarts.                        *)
(***************************************************************************)
EXTENDS JobQueueProperties, FiniteSetTheorems, TLAPS

USE DEF InFlight, Waiting, Terminal, Live, NoRow, States, Attempting, Ticking
-----------------------------------------------------------------------------
(* Rows and worker states.                                                 *)

\* What the store writes is a row of the jobs table.
LEMMA RowTypes ==
  /\ Absent \in Row
  /\ \A s \in Nat : Inserted(s) \in Row
  /\ \A r \in Row, s \in Nat : ClaimedRow(r, s) \in Row
  /\ \A r \in Row, t, u \in Int : MarkAwaitingTarget(r, t, u) \in Row
  /\ \A r \in Row, t \in Int : Requeue(r, t) \in Row /\ Rescheduled(r, t) \in Row
  /\ \A r \in Row : /\ SetResolved(r) \in Row
                    /\ MarkCompleted(r) \in Row
                    /\ MarkFailed(r) \in Row
                    /\ MarkCancelled(r) \in Row
                    /\ Requeue(r, Null) \in Row
                    /\ Aged(r) \in Row
  <1>0. Null \in Int
    BY HorizonAssumption DEF Null
  <1> USE <1>0 DEF Row, MkRow, Moved
  <1>1. Absent \in Row
    BY DEF Absent
  <1>2. \A s \in Nat : Inserted(s) \in Row
    BY DEF Inserted
  <1>3. \A r \in Row, s \in Nat : ClaimedRow(r, s) \in Row
    BY DEF ClaimedRow
  <1>4. \A r \in Row, t, u \in Int : MarkAwaitingTarget(r, t, u) \in Row
    BY DEF MarkAwaitingTarget
  <1>5. \A r \in Row, t \in Int : Requeue(r, t) \in Row /\ Rescheduled(r, t) \in Row
    BY DEF Requeue, Rescheduled
  <1>6. \A r \in Row : /\ SetResolved(r) \in Row
                      /\ MarkCompleted(r) \in Row
                      /\ MarkFailed(r) \in Row
                      /\ MarkCancelled(r) \in Row
    BY DEF SetResolved, MarkCompleted, MarkFailed, MarkCancelled
  <1>7. \A r \in Row : Aged(r) \in Row
    BY HorizonAssumption DEF Aged, Sooner, Older
  <1> QED BY <1>1, <1>2, <1>3, <1>4, <1>5, <1>6, <1>7

\* The states a worker moves to are worker states.
LEMMA WorkerTypes ==
  /\ Idle \in WorkerStates
  /\ Claiming \in WorkerStates
  /\ \A pc \in Attempting \cup Ticking, j \in Jobs, t \in Int, n \in Nat, l \in BOOLEAN :
       At(pc, j, t, n, l) \in WorkerStates
  BY DEF WorkerStates, Idle, Claiming, At

LEMMA ProceedType ==
  ASSUME TypeOK, NEW w \in Workers, worker[w].pc \in Attempting \cup Ticking,
         NEW pc \in Attempting \cup Ticking
  PROVE  Proceed(w, pc) \in WorkerStates
  BY DEF TypeOK, Proceed, At, WorkerStates

LEMMA HeldJob ==
  ASSUME TypeOK, NEW w \in Workers, worker[w].pc \in Attempting \cup Ticking
  PROVE  worker[w].job \in Jobs
  BY DEF TypeOK, WorkerStates

\* A guarded write leaves the table, the workers and the budget well typed.
LEMMA WriteType ==
  ASSUME TypeOK, NEW w \in Workers, NEW j \in Jobs, NEW from,
         NEW r \in Row, NEW then \in WorkerStates, NEW else \in WorkerStates,
         Write(w, j, from, r, then, else)
  PROVE  /\ job' \in [Jobs -> Row]
         /\ worker' \in [Workers -> WorkerStates]
         /\ snap' \in [Workers -> [Jobs -> Cands]]
         /\ faults' \in Nat
  BY DEF TypeOK, Write, Fault

LEMMA CandTypes ==
  ASSUME TypeOK
  PROVE  /\ NoCand \in Cands
         /\ NoCands \in [Jobs -> Cands]
         /\ Candidates \in [Jobs -> Cands]
         /\ \A c \in Cands : AgedCand(c) \in Cands
  <1>1. NoCand \in Cands
    BY DEF NoCand, MkCand, Cands
  <1>2. ASSUME NEW j \in Jobs, Listed(j)
        PROVE  MkCand(job[j].state, job[j].attempts, job[j].next) \in Cands
    BY <1>2 DEF TypeOK, Listed, Due, Row, MkCand, Cands
  <1>3. \A c \in Cands : AgedCand(c) \in Cands
    BY HorizonAssumption DEF AgedCand, MkCand, Cands, Sooner
  <1> QED BY <1>1, <1>2, <1>3 DEF NoCands, Candidates
-----------------------------------------------------------------------------
(* Type correctness.                                                       *)

LEMMA InitType == Init => TypeOK
  BY TypeAssumption, RowTypes, WorkerTypes, CandTypes
     DEF Init, TypeOK, NoCands, NoCand, MkCand, Cands

\* The steps of a worker that holds a job.
LEMMA HoldingType ==
  ASSUME TypeOK, NEW w \in Workers,
         \/ Resolved(w) \/ AttemptFails(w) \/ AttemptRetries(w)
         \/ CutOff(w) \/ ForwardTimesOut(w)
         \/ Forwarded(w) \/ ParkForPolling(w)
         \/ PollAgain(w) \/ PollFails(w) \/ PollDone(w)
         \/ FetchAgain(w) \/ FetchFails(w) \/ FetchCompletes(w)
         \/ ReschedulePoll(w)
  PROVE  TypeOK'
  <1> DEFINE j == worker[w].job
  <1>0. /\ worker[w].pc \in Attempting \cup Ticking
        /\ j \in Jobs
        /\ job[j] \in Row
    <2>1. worker[w].pc \in Attempting \cup Ticking
      BY DEF Resolved, AttemptFails, AttemptRetries, CutOff, ForwardTimesOut, Forwarded,
             ParkForPolling, PollAgain, PollFails, PollDone, FetchAgain,
             FetchFails, FetchCompletes, ReschedulePoll
    <2> QED BY <2>1, HeldJob DEF TypeOK
  <1>T. /\ Interval \in Int /\ PollTimeout \in Int /\ ResultBudget \in Int
        /\ \A b \in Backoffs : b \in Int
    BY TypeAssumption
  <1>1. \A pc \in Attempting \cup Ticking : Proceed(w, pc) \in WorkerStates
    BY <1>0, ProceedType
  <1>2. Idle \in WorkerStates /\ TickOver(w) \in WorkerStates
    BY <1>1, WorkerTypes DEF TickOver
  <1>3. ASSUME NEW k \in WorkerStates, Fail(w, k) \/ Complete(w, k)
        PROVE  /\ job' \in [Jobs -> Row]
               /\ worker' \in [Workers -> WorkerStates]
               /\ snap' \in [Workers -> [Jobs -> Cands]]
               /\ faults' \in Nat
    BY <1>0, <1>3, RowTypes, WriteType DEF Fail, Complete
  <1>4. ASSUME RetryOrFail(w)
        PROVE  /\ job' \in [Jobs -> Row]
               /\ worker' \in [Workers -> WorkerStates]
               /\ snap' \in [Workers -> [Jobs -> Cands]]
               /\ faults' \in Nat
    <2>1. CASE worker[w].attempts >= MaxAttempts
      BY <1>2, <1>3, <1>4, <2>1 DEF RetryOrFail
    <2>2. CASE ~(worker[w].attempts >= MaxAttempts)
      <3>1. PICK b \in Backoffs : Write(w, j, Live, Requeue(job[j], b), Idle, Idle)
        BY <1>4, <2>2 DEF RetryOrFail
      <3>2. Requeue(job[j], b) \in Row
        BY <1>0, <1>T, RowTypes
      <3> QED BY <1>0, <1>2, <3>1, <3>2, WriteType
    <2> QED BY <2>1, <2>2
  <1> USE DEF control, history
  <1>5. CASE Resolved(w)
    <2>1. SetResolved(job[j]) \in Row /\ Proceed(w, "forwarding") \in WorkerStates
      BY <1>0, <1>1, RowTypes
    <2>2. /\ job' \in [Jobs -> Row]
          /\ worker' \in [Workers -> WorkerStates]
          /\ snap' \in [Workers -> [Jobs -> Cands]]
          /\ faults' \in Nat
      BY <1>0, <1>2, <1>5, <2>1, WriteType DEF Resolved
    <2>3. submits' \in [Jobs -> Nat]
      BY <1>0, <1>5 DEF Resolved, TypeOK
    <2> QED BY <1>5, <2>2, <2>3 DEF Resolved, TypeOK
  <1>6. CASE AttemptFails(w)
    BY <1>2, <1>3, <1>6 DEF AttemptFails, TypeOK
  <1>7. CASE AttemptRetries(w)
    BY <1>4, <1>7 DEF AttemptRetries, TypeOK
  <1>8. CASE ForwardTimesOut(w)
    <2>1. /\ job' \in [Jobs -> Row]
          /\ worker' \in [Workers -> WorkerStates]
          /\ snap' \in [Workers -> [Jobs -> Cands]]
          /\ faults' \in Nat
      BY <1>2, <1>3, <1>4, <1>8 DEF ForwardTimesOut
    <2> QED BY <1>0, <1>8, <2>1 DEF ForwardTimesOut, TypeOK
  <1>8a. CASE CutOff(w)
    <2>1. At(worker[w].pc, j, worker[w].left, worker[w].attempts, TRUE) \in WorkerStates
      <3>1. worker[w].left \in Int /\ worker[w].attempts \in Nat
        BY <1>0 DEF TypeOK, WorkerStates
      <3> QED BY <1>0, <3>1, WorkerTypes
    <2>2. worker' \in [Workers -> WorkerStates]
      BY <1>8a, <2>1 DEF CutOff, TypeOK
    <2> QED BY <1>0, <1>8a, <2>2 DEF CutOff, TypeOK
  <1>9. CASE Forwarded(w)
    BY <1>2, <1>3, <1>9 DEF Forwarded, TypeOK
  <1>10. CASE ParkForPolling(w)
    <2>1. MarkAwaitingTarget(job[j], Interval, PollTimeout) \in Row
      BY <1>0, <1>T, RowTypes
    <2>2. /\ job' \in [Jobs -> Row]
          /\ worker' \in [Workers -> WorkerStates]
          /\ snap' \in [Workers -> [Jobs -> Cands]]
          /\ faults' \in Nat
      BY <1>0, <1>2, <1>10, <2>1, WriteType DEF ParkForPolling
    <2> QED BY <1>10, <2>2 DEF ParkForPolling, TypeOK
  <1>11. CASE PollAgain(w) \/ FetchAgain(w)
    BY <1>2, <1>11 DEF PollAgain, FetchAgain, TypeOK
  <1>12. CASE PollFails(w)
    BY <1>2, <1>3, <1>12 DEF PollFails, TypeOK
  <1>13. CASE PollDone(w)
    <2>1. At("fetching", j, ResultBudget, worker[w].attempts, Late(j)) \in WorkerStates
      <3>1. worker[w].attempts \in Nat /\ Late(j) \in BOOLEAN
        BY DEF TypeOK, WorkerStates, Late
      <3> QED BY <1>0, <1>T, <3>1, WorkerTypes
    <2> QED BY <1>13, <2>1 DEF PollDone, TypeOK
  <1>14. CASE FetchFails(w)
    BY <1>2, <1>3, <1>14 DEF FetchFails, TypeOK
  <1>15. CASE FetchCompletes(w)
    BY <1>2, <1>3, <1>15 DEF FetchCompletes, TypeOK
  <1>16. CASE ReschedulePoll(w)
    <2>1. Rescheduled(job[j], Interval) \in Row
      BY <1>0, <1>T, RowTypes
    <2>2. /\ job' \in [Jobs -> Row]
          /\ worker' \in [Workers -> WorkerStates]
          /\ snap' \in [Workers -> [Jobs -> Cands]]
          /\ faults' \in Nat
      BY <1>0, <1>2, <1>16, <2>1, WriteType DEF ReschedulePoll
    <2> QED BY <1>16, <2>2 DEF ReschedulePoll, TypeOK
  <1> QED BY <1>5, <1>6, <1>7, <1>8, <1>8a, <1>9, <1>10, <1>11, <1>12, <1>13, <1>14,
             <1>15, <1>16

\* The steps of a claim.
LEMMA ClaimingType ==
  ASSUME TypeOK, NEW w \in Workers, NEW j \in Jobs,
         \/ StartClaim(w) \/ AbortClaim(w)
         \/ FailExhausted(w, j) \/ ClaimReceived(w, j) \/ ClaimPollTick(w, j)
  PROVE  TypeOK'
  <1> DEFINE Typed == /\ snap' \in [Workers -> [Jobs -> Cands]]
                      /\ worker' \in [Workers -> WorkerStates]
  <1>0. /\ job[j] \in Row /\ Idle \in WorkerStates /\ Claiming \in WorkerStates
        /\ NoCand \in Cands /\ NoCands \in [Jobs -> Cands]
        /\ Candidates \in [Jobs -> Cands]
    BY WorkerTypes, CandTypes DEF TypeOK
  <1>1. SkipCand(w, j) => Typed
    BY <1>0 DEF SkipCand, TypeOK
  <1>2. ASSUME NEW k \in WorkerStates, LeaveClaim(w, k) PROVE Typed
    BY <1>0, <1>2 DEF LeaveClaim, TypeOK
  <1>3. Fault => faults' \in Nat
    BY DEF Fault, TypeOK
  <1> USE DEF control, history
  <1>4. CASE StartClaim(w)
    BY <1>0, <1>4 DEF StartClaim, TypeOK
  <1>5. CASE AbortClaim(w)
    BY <1>0, <1>2, <1>5 DEF AbortClaim, TypeOK
  <1>6. CASE FailExhausted(w, j)
    <2>1. Typed
      BY <1>0, <1>1, <1>2, <1>6 DEF FailExhausted
    <2>2. MarkFailed(job[j]) \in Row
      BY <1>0, RowTypes
    <2>3. job' \in [Jobs -> Row] /\ faults' \in Nat
      BY <1>3, <1>6, <2>2 DEF FailExhausted, TypeOK
    <2> QED BY <1>6, <2>1, <2>3 DEF FailExhausted, TypeOK
  <1>7. CASE ClaimReceived(w, j)
    <2>1. Since(w) \in Nat
      BY <1>7 DEF ClaimReceived, Since, TypeOK, WorkerStates
    <2>2. ClaimedRow(job[j], Since(w)) \in Row
      BY <1>0, <2>1, RowTypes
    <2>3. At("resolving", j, jobTimeout, job[j].attempts + 1, FALSE) \in WorkerStates
      <3>1. jobTimeout \in Int /\ job[j].attempts + 1 \in Nat
        BY <1>0, TypeAssumption DEF TypeOK, Row
      <3> QED BY <3>1, WorkerTypes
    <2>4. Typed
      BY <1>0, <1>1, <1>2, <1>7, <2>3 DEF ClaimReceived
    <2>5. job' \in [Jobs -> Row] /\ faults' \in Nat
      BY <1>3, <1>7, <2>2 DEF ClaimReceived, TypeOK
    <2> QED BY <1>7, <2>4, <2>5 DEF ClaimReceived, TypeOK
  <1>8. CASE ClaimPollTick(w, j)
    <2>1. CallTimeout + ResultBudget + Interval - Since(w) \in Int /\ CallTimeout \in Int
      BY <1>8, TypeAssumption DEF ClaimPollTick, Since, TypeOK, WorkerStates
    <2>2. Leased(w, j) \in Row
      BY <1>0, <2>1, RowTypes DEF Leased
    <2>3. At("polling", j, CallTimeout, job[j].attempts, FALSE) \in WorkerStates
      <3>1. job[j].attempts \in Nat
        BY <1>0 DEF Row
      <3> QED BY <2>1, <3>1, WorkerTypes
    <2>4. Typed
      BY <1>0, <1>1, <1>2, <1>8, <2>3 DEF ClaimPollTick
    <2>5. job' \in [Jobs -> Row] /\ faults' \in Nat
      BY <1>3, <1>8, <2>2 DEF ClaimPollTick, TypeOK
    <2> QED BY <1>8, <2>4, <2>5 DEF ClaimPollTick, TypeOK
  <1> QED BY <1>4, <1>5, <1>6, <1>7, <1>8

\* The steps of the sweeper, the clients, the operator and the clock.
LEMMA SurroundingType ==
  ASSUME TypeOK,
         \/ SelectStuck \/ (\E j \in Jobs : RescueOne(j))
         \/ \E j \in Jobs : (\E d \in Delays : Submit(j, d)) \/ ReadToCancel(j) \/ CancelJob(j)
         \/ \E t \in JobTimeouts : Reload(t)
         \/ Crash \/ BeginShutdown \/ FinishShutdown \/ Restart
         \/ Tick
  PROVE  TypeOK'
  <1>0. \A j \in Jobs : /\ job[j] \in Row
                        /\ Requeue(job[j], Null) \in Row
                        /\ MarkCancelled(job[j]) \in Row
                        /\ Aged(job[j]) \in Row
    BY RowTypes DEF TypeOK
  <1>1. Fault => faults' \in Nat
    BY DEF Fault, TypeOK
  <1> USE DEF control, history
  <1>2. CASE SelectStuck
    BY <1>2 DEF SelectStuck, TypeOK
  <1>3. CASE \E j \in Jobs : RescueOne(j)
    <2>1. PICK j \in Jobs : RescueOne(j)
      BY <1>3
    <2>2. job' \in [Jobs -> Row] /\ faults' \in Nat /\ rescue' \subseteq Jobs
      BY <1>0, <1>1, <2>1 DEF RescueOne, TypeOK
    <2> QED BY <2>1, <2>2 DEF RescueOne, TypeOK
  <1>4. CASE \E j \in Jobs : \E d \in Delays : Submit(j, d)
    <2>1. PICK j \in Jobs, d \in Delays : Submit(j, d)
      BY <1>4
    <2>2. d \in Nat
      BY TypeAssumption
    <2>3. Inserted(d) \in Row
      BY <2>2, RowTypes
    <2> QED BY <2>1, <2>3 DEF Submit, TypeOK
  <1>5. CASE \E j \in Jobs : ReadToCancel(j)
    BY <1>5 DEF ReadToCancel, TypeOK
  <1>6. CASE \E j \in Jobs : CancelJob(j)
    <2>1. PICK j \in Jobs : CancelJob(j)
      BY <1>6
    <2>2. job' \in [Jobs -> Row] /\ faults' \in Nat /\ untold' \subseteq Jobs
      BY <1>0, <1>1, <2>1 DEF CancelJob, TypeOK
    <2>3. cancel' \in [Jobs -> Live \cup {NoRow}]
      BY <2>1 DEF CancelJob, TypeOK
    <2> QED BY <2>1, <2>2, <2>3 DEF CancelJob, TypeOK
  <1>7. CASE \E t \in JobTimeouts : Reload(t)
    BY <1>7 DEF Reload, TypeOK
  <1>8. Gone => /\ worker' \in [Workers -> WorkerStates]
                /\ snap' \in [Workers -> [Jobs -> Cands]]
                /\ rescue' \subseteq Jobs
                /\ cancel' \in [Jobs -> Live \cup {NoRow}]
                /\ process' = "down"
    BY WorkerTypes, CandTypes DEF Gone
  <1>9. CASE Crash \/ FinishShutdown
    <2>1. BeingSaid \subseteq Jobs
      BY HeldJob DEF BeingSaid
    <2>2. CASE Crash
      <3>1. unsaid' \subseteq Jobs
        BY <2>1, <2>2 DEF Crash, TypeOK
      <3> QED BY <1>8, <2>2, <3>1 DEF Crash, TypeOK
    <2>3. CASE FinishShutdown
      BY <1>8, <2>3 DEF FinishShutdown, TypeOK
    <2> QED BY <1>9, <2>2, <2>3
  <1>10. CASE BeginShutdown
    BY <1>10 DEF BeginShutdown, TypeOK
  <1>11. CASE Restart
    <2> DEFINE interrupted == {j \in Jobs : job[j].state \in InFlight}
               waiting == {j \in Jobs : job[j].state = "awaiting_target"}
    <2>1. PICK r \in SUBSET interrupted, p \in SUBSET waiting,
               at \in [Jobs -> 0 .. Interval - 1] :
            /\ \/ r = interrupted /\ p = waiting /\ UNCHANGED faults
               \/ Fault /\ (r = interrupted \/ p = waiting)
            /\ job' = [j \in Jobs |-> Restarted(j, r, p, at)]
      BY <1>11, Zenon DEF Restart
    <2>2. \A j \in Jobs : at[j] \in Int
      <3>1. 0 .. Interval - 1 \subseteq Int
        BY TypeAssumption
      <3> QED BY <3>1
    <2>3. \A j \in Jobs : Restarted(j, r, p, at) \in Row
      BY <1>0, <2>2, RowTypes DEF Restarted
    <2> QED BY <1>1, <1>11, <2>1, <2>3 DEF Restart, TypeOK
  <1>12. CASE Tick
    <2>1. \A w \in Workers : AgedWorker(worker[w]) \in WorkerStates
      BY DEF TypeOK, AgedWorker, At, WorkerStates
    <2>2. \A c \in Cands : AgedCand(c) \in Cands
      BY CandTypes
    <2>3. job' \in [Jobs -> Row] /\ worker' \in [Workers -> WorkerStates]
      BY <1>0, <1>12, <2>1 DEF Tick
    <2>4. snap' \in [Workers -> [Jobs -> Cands]]
      BY <1>12, <2>2 DEF Tick, TypeOK
    <2> QED BY <1>12, <2>3, <2>4 DEF Tick, TypeOK
  <1> QED BY <1>2, <1>3, <1>4, <1>5, <1>6, <1>7, <1>9, <1>10, <1>11, <1>12

LEMMA TypeInductive == TypeOK /\ [Next]_vars => TypeOK'
  <1> SUFFICES ASSUME TypeOK, [Next]_vars PROVE TypeOK'
    OBVIOUS
  <1>1. CASE UNCHANGED vars
    BY <1>1 DEF vars, TypeOK
  <1>2. CASE \E w \in Workers : WorkerStep(w)
    <2>1. PICK w \in Workers : WorkerStep(w)
      BY <1>2
    <2>2. CASE \/ Resolved(w) \/ AttemptFails(w) \/ AttemptRetries(w)
               \/ CutOff(w) \/ ForwardTimesOut(w)
               \/ Forwarded(w) \/ ParkForPolling(w)
               \/ PollAgain(w) \/ PollFails(w) \/ PollDone(w)
               \/ FetchAgain(w) \/ FetchFails(w) \/ FetchCompletes(w)
               \/ ReschedulePoll(w)
      BY <2>2, HoldingType
    <2>3. ASSUME NEW j \in Jobs,
                 FailExhausted(w, j) \/ ClaimReceived(w, j) \/ ClaimPollTick(w, j)
          PROVE  TypeOK'
      BY <2>3, ClaimingType
    <2>4. CASE StartClaim(w)
      <3>1. PICK j \in Jobs : Listed(j)
        BY <2>4 DEF StartClaim
      <3> QED BY <2>4, ClaimingType
    <2>5. CASE AbortClaim(w)
      BY <2>5, WorkerTypes, CandTypes
         DEF AbortClaim, LeaveClaim, TypeOK, control, history
    <2> QED BY <2>1, <2>2, <2>3, <2>4, <2>5 DEF WorkerStep
  <1>3. CASE \/ SelectStuck \/ (\E j \in Jobs : RescueOne(j))
             \/ \E j \in Jobs : (\E d \in Delays : Submit(j, d)) \/ ReadToCancel(j) \/ CancelJob(j)
             \/ \E t \in JobTimeouts : Reload(t)
             \/ Crash \/ BeginShutdown \/ FinishShutdown \/ Restart
             \/ Tick
    BY <1>3, SurroundingType
  <1> QED BY <1>1, <1>2, <1>3 DEF Next

\* Rows, workers, candidates and budgets keep their types through every step
\* of the queue (store.Job, worker.run): no claim, rescue, restart or stale
\* write ever leaves a state outside the schema.
THEOREM TypeCorrect == Spec => []TypeOK
  <1>1. Init => TypeOK
    BY InitType
  <1>2. TypeOK /\ [Next]_vars => TypeOK'
    BY TypeInductive
  <1> QED BY <1>1, <1>2, PTL DEF Spec
-----------------------------------------------------------------------------
(* The invariant of the claims, the lease and the rescue.                  *)

LEMMA InitInv == Init => QueueInv
  BY TypeAssumption
     DEF Init, QueueInv, HoldsAttempt, HoldsLease, FreshCandidates, Abandoned,
         Counted, ExclusiveWork, Idle, At, Absent, MkRow

\* A row no worker holds under an attempt is not the row of a rescued job:
\* a worker's row is younger than anything the sweeper selects.
LEMMA HeldNotRescued ==
  ASSUME TypeOK, QueueInv, NEW w \in Workers,
         worker[w].pc \in Attempting \cup Ticking
  PROVE  worker[w].job \notin rescue
  <1> DEFINE j == worker[w].job
  <1>1. j \in Jobs /\ job[j] \in Row /\ worker[w].left \in Int
    BY HeldJob DEF TypeOK, WorkerStates
  <1>2. SUFFICES ASSUME j \in rescue PROVE FALSE
    OBVIOUS
  <1>3. Abandoned(j) /\ HoldsAttempt(w) /\ HoldsLease(w)
    BY <1>2 DEF QueueInv
  <1>4. CASE worker[w].pc \in Attempting
    <2>1. PICK t \in JobTimeouts : job[j].age + worker[w].left <= t + Slack
      BY <1>3, <1>4 DEF HoldsAttempt
    <2>2. worker[w].left >= -Slack /\ job[j].age > t + 2 * Slack
      BY <1>3, <1>4 DEF HoldsAttempt, Abandoned
    <2>3. t \in Int /\ Slack \in Int /\ job[j].age \in Int
      BY <1>1, TypeAssumption DEF Row
    <2> QED BY <1>1, <2>1, <2>2, <2>3
  <1>5. CASE worker[w].pc \in Ticking
    BY <1>3, <1>5 DEF HoldsLease, Abandoned
  <1> QED BY <1>4, <1>5

\* A step of worker w that touches row j alone keeps the invariant if no
\* other worker holds j, nor the sweeper, and w's own part of it holds after.
LEMMA OneWorkerOneRow ==
  ASSUME TypeOK, TypeOK', QueueInv, NEW w \in Workers, NEW j \in Jobs,
         \A v \in Workers \ {w} : worker'[v] = worker[v] /\ snap'[v] = snap[v],
         \A i \in Jobs \ {j} : job'[i] = job[i] /\ submits'[i] = submits[i],
         \A v \in Workers \ {w} :
           worker[v].pc \in Attempting \cup Ticking => worker[v].job # j,
         worker'[w].pc \in Attempting \cup Ticking => worker'[w].job = j,
         rescue' = rescue, j \notin rescue,
         process' = process, process # "down",
         \A v \in Workers \ {w} :
           worker[v].pc = "claiming" /\ FreshCand(v, j) => FreshCand(v, j)',
         HoldsAttempt(w)', HoldsLease(w)', FreshCandidates(w)', Counted(j)'
  PROVE  QueueInv'
  <1>1. ASSUME NEW v \in Workers \ {w}
        PROVE  HoldsAttempt(v)' /\ HoldsLease(v)'
    <2>1. HoldsAttempt(v) /\ HoldsLease(v) /\ worker'[v] = worker[v]
      BY DEF QueueInv
    <2>2. ASSUME worker[v].pc \in Attempting \cup Ticking
          PROVE  job'[worker[v].job] = job[worker[v].job]
      BY <2>2, HeldJob
    <2> QED BY <2>1, <2>2 DEF HoldsAttempt, HoldsLease
  <1>2. ASSUME NEW v \in Workers \ {w}
        PROVE  FreshCandidates(v)'
    <2>1. FreshCandidates(v) /\ worker'[v] = worker[v] /\ snap'[v] = snap[v]
      BY DEF QueueInv
    <2>2. ASSUME worker[v].pc = "claiming", NEW i \in Jobs \ {j}
          PROVE  FreshCand(v, i)'
      BY <2>1, <2>2 DEF FreshCandidates, FreshCand, Since
    <2>3. ASSUME worker[v].pc = "claiming" PROVE FreshCand(v, j)'
      BY <2>1, <2>3 DEF FreshCandidates
    <2> QED BY <2>1, <2>2, <2>3 DEF FreshCandidates, Since
  <1>3. \A i \in rescue : Abandoned(i)'
    BY DEF QueueInv, Abandoned, TypeOK
  <1>4. \A i \in Jobs : Counted(i)'
    BY DEF QueueInv, Counted
  <1>5. ExclusiveWork'
    BY DEF QueueInv, ExclusiveWork
  <1> QED BY <1>1, <1>2, <1>3, <1>4, <1>5 DEF QueueInv

\* What a worker that holds nothing must satisfy.
LEMMA EmptyHanded ==
  ASSUME NEW w \in Workers, worker'[w].pc = "idle"
  PROVE  HoldsAttempt(w)' /\ HoldsLease(w)' /\ FreshCandidates(w)'
  BY DEF HoldsAttempt, HoldsLease, FreshCandidates

\* No worker holds a job that waits for a claim of its next attempt, and
\* none holds one whose poll is due.
LEMMA ClaimableIsFree ==
  ASSUME Timely, TypeOK, QueueInv, NEW j \in Jobs,
         \/ job[j].state = "received"
         \/ job[j].state = "awaiting_target" /\ job[j].next <= 0,
         NEW v \in Workers, worker[v].pc \in Attempting \cup Ticking
  PROVE  worker[v].job # j
  <1> SUFFICES ASSUME worker[v].job = j PROVE FALSE
    OBVIOUS
  <1>1. HoldsAttempt(v) /\ HoldsLease(v)
    BY DEF QueueInv
  <1>2. worker[v].pc \in Ticking /\ job[j].state = "awaiting_target" /\ job[j].next <= 0
    BY <1>1 DEF HoldsAttempt, HoldsLease
  <1>3. /\ worker[v].left >= -Slack
        /\ \/ job[j].next >= worker[v].left + ResultBudget + Interval - Slack
           \/ job[j].next >= worker[v].left + Interval - 2 * Slack
    BY <1>1, <1>2 DEF HoldsLease
  <1>4. /\ worker[v].left \in Int /\ job[j].next \in Int
        /\ ResultBudget \in Nat /\ Interval \in Nat /\ Slack \in Nat
        /\ 3 * Slack < Interval
    BY TypeAssumption DEF TypeOK, WorkerStates, Row, Timely
  <1> QED BY <1>2, <1>3, <1>4

\* A claim that writes nothing: the candidate is skipped or the claim ends.
LEMMA QuietClaim ==
  ASSUME TypeOK, TypeOK', QueueInv, NEW w \in Workers, NEW j \in Jobs,
         worker[w].pc = "claiming", process' = process, rescue' = rescue,
         job' = job, submits' = submits,
         SkipCand(w, j) \/ LeaveClaim(w, Idle)
  PROVE  QueueInv'
  <1>1. /\ \A v \in Workers \ {w} : worker'[v] = worker[v] /\ snap'[v] = snap[v]
        /\ worker'[w] = worker[w] \/ worker'[w] = Idle
        /\ \A i \in Jobs : snap'[w][i] = snap[w][i] \/ snap'[w][i] = NoCand
    BY DEF SkipCand, LeaveClaim, NoCands, TypeOK
  <1>2. \A v \in Workers : HoldsAttempt(v)' /\ HoldsLease(v)'
    BY <1>1 DEF QueueInv, HoldsAttempt, HoldsLease, Idle, At
  <1>3. \A v \in Workers : FreshCandidates(v)'
    BY <1>1 DEF QueueInv, FreshCandidates, FreshCand, Since, Idle, At, NoCand, MkCand
  <1>4. /\ \A i \in rescue' : Abandoned(i)'
        /\ \A i \in Jobs : Counted(i)'
    BY DEF QueueInv, Abandoned, Counted
  <1>5. ExclusiveWork'
    BY <1>1 DEF QueueInv, ExclusiveWork, Idle, At
  <1>6. process # "down"
    BY DEF QueueInv
  <1> QED BY <1>2, <1>3, <1>4, <1>5, <1>6 DEF QueueInv

\* The claim's compare-and-swap takes a job nobody holds, with an attempt
\* left, however stale the candidate is.
LEMMA ClaimReceivedInv ==
  ASSUME Timely, TypeOK, TypeOK', QueueInv, NEW w \in Workers, NEW j \in Jobs,
         ClaimReceived(w, j)
  PROVE  QueueInv'
  <1> USE DEF control, history
  <1>0. /\ job[j] \in Row /\ worker[w].left \in Int /\ Slack \in Nat
        /\ jobTimeout \in JobTimeouts /\ jobTimeout \in Nat
        /\ MaxAttempts \in Nat
    BY TypeAssumption DEF TypeOK, WorkerStates
  <1>1. /\ Since(w) <= Slack /\ Since(w) \in Nat
        /\ FreshCand(w, j)
        /\ process # "down"
    BY DEF ClaimReceived, QueueInv, FreshCandidates, TypeOK, WorkerStates, Since
  <1>2. /\ \A v \in Workers \ {w} : worker'[v] = worker[v] /\ snap'[v] = snap[v]
        /\ \A i \in Jobs \ {j} : job'[i] = job[i] /\ submits'[i] = submits[i]
        /\ rescue' = rescue /\ process' = process
        /\ submits' = submits
    BY DEF ClaimReceived, SkipCand, LeaveClaim, TypeOK
  <1>3. CASE CanClaim(w, j) /\ job' = [job EXCEPT ![j] = ClaimedRow(job[j], Since(w))]
    <2>1. /\ job[j].state = "received"
          /\ job[j].attempts < MaxAttempts
          /\ job'[j] = ClaimedRow(job[j], Since(w))
      BY <1>1, <1>3 DEF CanClaim, FreshCand, TypeOK, ClaimReceived
    <2>2. /\ job'[j].state = "resolving" /\ job'[j].age = Since(w)
          /\ job'[j].attempts = job[j].attempts + 1
      BY <2>1 DEF ClaimedRow, MkRow
    <2>3. j \notin rescue
      BY <2>1 DEF QueueInv, Abandoned
    <2>4. \A v \in Workers \ {w} :
            worker[v].pc \in Attempting \cup Ticking => worker[v].job # j
      BY <2>1, ClaimableIsFree
    <2>5. \A v \in Workers \ {w} :
            worker[v].pc = "claiming" /\ FreshCand(v, j) => FreshCand(v, j)'
      <3>1. \A v \in Workers : worker[v].pc = "claiming" => Since(v) \in Nat
        BY DEF TypeOK, WorkerStates, Since
      <3> QED BY <1>0, <1>1, <1>2, <2>2, <3>1 DEF FreshCand, Since
    <2>6. Counted(j)'
      <3>1. Counted(j) /\ submits[j] \in Nat /\ job[j].attempts \in Nat
        BY <1>0 DEF QueueInv, TypeOK, Row
      <3> QED BY <1>0, <1>2, <2>1, <2>2, <3>1 DEF Counted
    <2>7. \/ worker'[w] = Idle
          \/ worker'[w] = At("resolving", j, jobTimeout, job[j].attempts + 1, FALSE)
      BY <1>3, <2>1 DEF ClaimReceived, LeaveClaim, SkipCand, TypeOK, CanClaim
    <2>8. CASE worker'[w] = Idle
      <3>1. worker'[w].pc = "idle"
        BY <2>8 DEF Idle, At
      <3> QED BY <1>1, <1>2, <2>3, <2>4, <2>5, <2>6, <3>1, EmptyHanded, OneWorkerOneRow
    <2>9. CASE worker'[w] = At("resolving", j, jobTimeout, job[j].attempts + 1, FALSE)
      <3>1. /\ worker'[w].pc = "resolving" /\ worker'[w].job = j
            /\ worker'[w].left = jobTimeout
            /\ worker'[w].attempts = job[j].attempts + 1
        BY <2>9 DEF At
      <3>2. HoldsAttempt(w)'
        <4>1. job'[j].age + worker'[w].left <= jobTimeout + Slack
          BY <1>0, <1>1, <2>2, <3>1
        <4> QED BY <1>0, <2>2, <3>1, <4>1 DEF HoldsAttempt
      <3>3. HoldsLease(w)' /\ FreshCandidates(w)'
        BY <3>1 DEF HoldsLease, FreshCandidates
      <3> QED BY <1>1, <1>2, <2>3, <2>4, <2>5, <2>6, <3>1, <3>2, <3>3, OneWorkerOneRow
    <2> QED BY <2>7, <2>8, <2>9
  <1>4. CASE job' = job /\ (SkipCand(w, j) \/ LeaveClaim(w, Idle))
    BY <1>1, <1>2, <1>4, QuietClaim DEF ClaimReceived
  <1> QED BY <1>3, <1>4 DEF ClaimReceived

\* A poll tick is claimed only when its schedule is due and unchanged, and
\* its lease outlasts every deadline the tick has.
LEMMA ClaimPollTickInv ==
  ASSUME Timely, TypeOK, TypeOK', QueueInv, NEW w \in Workers, NEW j \in Jobs,
         ClaimPollTick(w, j)
  PROVE  QueueInv'
  <1> USE DEF control, history
  <1>0. /\ job[j] \in Row /\ worker[w].left \in Int /\ Slack \in Nat
        /\ CallTimeout \in Nat /\ ResultBudget \in Nat /\ Interval \in Nat
    BY TypeAssumption DEF TypeOK, WorkerStates
  <1>1. /\ Since(w) <= Slack /\ Since(w) \in Nat
        /\ FreshCand(w, j)
        /\ process # "down"
    BY DEF ClaimPollTick, QueueInv, FreshCandidates, TypeOK, WorkerStates, Since
  <1>2. /\ \A v \in Workers \ {w} : worker'[v] = worker[v] /\ snap'[v] = snap[v]
        /\ \A i \in Jobs \ {j} : job'[i] = job[i] /\ submits'[i] = submits[i]
        /\ rescue' = rescue /\ process' = process
        /\ submits' = submits
    BY DEF ClaimPollTick, SkipCand, LeaveClaim, TypeOK
  <1>3. CASE /\ SameTick(w, j) /\ job' = [job EXCEPT ![j] = Leased(w, j)]
             /\ \/ LeaveClaim(w, Idle)
                \/ LeaveClaim(w, At("polling", j, CallTimeout, job[j].attempts, FALSE))
    <2>1. /\ job[j].state = "awaiting_target"
          /\ job[j].next <= 0
          /\ job'[j] = Leased(w, j)
      BY <1>1, <1>3 DEF SameTick, FreshCand, TypeOK
    <2>2. /\ job'[j].state = "awaiting_target" /\ job'[j].attempts = job[j].attempts
          /\ job'[j].next = CallTimeout + ResultBudget + Interval - Since(w)
      BY <2>1 DEF Leased, Rescheduled, MkRow
    <2>3. j \notin rescue
      BY <2>1 DEF QueueInv, Abandoned
    <2>4. \A v \in Workers \ {w} :
            worker[v].pc \in Attempting \cup Ticking => worker[v].job # j
      BY <2>1, ClaimableIsFree
    <2>5. \A v \in Workers \ {w} :
            worker[v].pc = "claiming" /\ FreshCand(v, j) => FreshCand(v, j)'
      BY <1>2, <2>2 DEF FreshCand
    <2>6. Counted(j)'
      BY <1>2, <2>2 DEF QueueInv, Counted
    <2>7. \/ worker'[w] = Idle
          \/ worker'[w] = At("polling", j, CallTimeout, job[j].attempts, FALSE)
      BY <1>3 DEF LeaveClaim, TypeOK
    <2>8. CASE worker'[w] = Idle
      <3>1. worker'[w].pc = "idle"
        BY <2>8 DEF Idle, At
      <3> QED BY <1>1, <1>2, <2>3, <2>4, <2>5, <2>6, <3>1, EmptyHanded, OneWorkerOneRow
    <2>9. CASE worker'[w] = At("polling", j, CallTimeout, job[j].attempts, FALSE)
      <3>1. /\ worker'[w].pc = "polling" /\ worker'[w].job = j
            /\ worker'[w].left = CallTimeout
        BY <2>9 DEF At
      <3>2. HoldsLease(w)'
        <4>1. job'[j].next >= worker'[w].left + ResultBudget + Interval - Slack
          BY <1>0, <1>1, <2>2, <3>1
        <4> QED BY <1>0, <2>2, <3>1, <4>1 DEF HoldsLease
      <3>3. HoldsAttempt(w)' /\ FreshCandidates(w)'
        BY <3>1 DEF HoldsAttempt, FreshCandidates
      <3> QED BY <1>1, <1>2, <2>3, <2>4, <2>5, <2>6, <3>1, <3>2, <3>3, OneWorkerOneRow
    <2> QED BY <2>7, <2>8, <2>9
  <1>4. CASE job' = job /\ (SkipCand(w, j) \/ LeaveClaim(w, Idle))
    BY <1>1, <1>2, <1>4, QuietClaim DEF ClaimPollTick
  <1> QED BY <1>3, <1>4 DEF ClaimPollTick

\* Failing an exhausted job takes it from nobody.
LEMMA FailExhaustedInv ==
  ASSUME Timely, TypeOK, TypeOK', QueueInv, NEW w \in Workers, NEW j \in Jobs,
         FailExhausted(w, j)
  PROVE  QueueInv'
  <1> USE DEF control, history
  <1>1. process # "down"
    BY DEF FailExhausted, QueueInv
  <1>2. /\ \A v \in Workers \ {w} : worker'[v] = worker[v] /\ snap'[v] = snap[v]
        /\ \A i \in Jobs \ {j} : job'[i] = job[i] /\ submits'[i] = submits[i]
        /\ rescue' = rescue /\ process' = process
        /\ submits' = submits
    BY DEF FailExhausted, SkipCand, LeaveClaim, TypeOK
  <1>3. CASE /\ Accepts(job[j], {"received"}) /\ SkipCand(w, j)
             /\ job' = [job EXCEPT ![j] = MarkFailed(job[j])]
    <2>1. job[j].state = "received" /\ job'[j] = MarkFailed(job[j])
      BY <1>3 DEF Accepts, TypeOK
    <2>2. job'[j].state = "failed" /\ job'[j].attempts = job[j].attempts
      BY <2>1 DEF MarkFailed, Moved, MkRow
    <2>3. j \notin rescue
      BY <2>1 DEF QueueInv, Abandoned
    <2>4. \A v \in Workers \ {w} :
            worker[v].pc \in Attempting \cup Ticking => worker[v].job # j
      BY <2>1, ClaimableIsFree
    <2>5. \A v \in Workers \ {w} :
            worker[v].pc = "claiming" /\ FreshCand(v, j) => FreshCand(v, j)'
      BY <1>2, <2>2 DEF FreshCand
    <2>6. Counted(j)'
      BY <1>2, <2>2 DEF QueueInv, Counted
    <2>7. /\ worker'[w] = worker[w] \/ worker'[w] = Idle
          /\ \A i \in Jobs : snap'[w][i] = snap[w][i] \/ snap'[w][i] = NoCand
      BY <1>3 DEF SkipCand, TypeOK
    <2>8. worker'[w].pc \notin Attempting \cup Ticking
      BY <2>7 DEF FailExhausted, Idle, At
    <2>9. HoldsAttempt(w)' /\ HoldsLease(w)'
      BY <2>8 DEF HoldsAttempt, HoldsLease
    <2>10. FreshCandidates(w)'
      <3>1. FreshCandidates(w)
        BY DEF QueueInv
      <3>2. ASSUME worker'[w] = worker[w], NEW i \in Jobs PROVE FreshCand(w, i)'
        BY <1>2, <2>2, <2>7, <3>1, <3>2
           DEF FreshCandidates, FreshCand, Since, NoCand, MkCand, FailExhausted
      <3> QED BY <2>7, <3>1, <3>2 DEF FreshCandidates, Since, Idle, At
    <2> QED BY <1>1, <1>2, <2>3, <2>4, <2>5, <2>6, <2>8, <2>9, <2>10, OneWorkerOneRow
  <1>4. CASE job' = job /\ (SkipCand(w, j) \/ LeaveClaim(w, Idle))
    BY <1>2, <1>4, QuietClaim DEF FailExhausted
  <1> QED BY <1>3, <1>4 DEF FailExhausted

\* A listed candidate is due, and has attempts left if the copy says so.
LEMMA StartClaimInv ==
  ASSUME TypeOK, TypeOK', QueueInv, NEW w \in Workers, StartClaim(w)
  PROVE  QueueInv'
  <1> USE DEF control, history
  <1>1. /\ job' = job /\ submits' = submits /\ rescue' = rescue
        /\ process' = process /\ process # "down"
        /\ \A v \in Workers \ {w} : worker'[v] = worker[v] /\ snap'[v] = snap[v]
        /\ worker'[w] = Claiming /\ snap'[w] = Candidates
    BY DEF StartClaim, TypeOK
  <1>2. worker'[w].pc = "claiming" /\ worker'[w].left = 0
    BY <1>1 DEF Claiming, At
  <1>3. \A v \in Workers : HoldsAttempt(v)' /\ HoldsLease(v)'
    BY <1>1, <1>2 DEF QueueInv, HoldsAttempt, HoldsLease
  <1>4. \A j \in Jobs : FreshCand(w, j)'
    <2> TAKE j \in Jobs
    <2>1. CASE Listed(j)
      <3>1. snap'[w][j] = MkCand(job[j].state, job[j].attempts, job[j].next)
        BY <1>1, <2>1 DEF Candidates
      <3>2. job[j].next <= 0
        BY <2>1 DEF Listed, Due
      <3> QED BY <1>1, <3>1, <3>2 DEF FreshCand, MkCand
    <2>2. CASE ~Listed(j)
      BY <1>1, <2>2 DEF Candidates, FreshCand, NoCand, MkCand
    <2> QED BY <2>1, <2>2
  <1>5. \A v \in Workers : FreshCandidates(v)'
    <2>1. FreshCandidates(w)'
      BY <1>2, <1>4, TypeAssumption DEF FreshCandidates, Since
    <2>2. \A v \in Workers \ {w} : FreshCandidates(v)'
      BY <1>1 DEF QueueInv, FreshCandidates, FreshCand, Since
    <2> QED BY <2>1, <2>2
  <1>6. ExclusiveWork'
    BY <1>1, <1>2 DEF QueueInv, ExclusiveWork
  <1> QED BY <1>1, <1>3, <1>5, <1>6 DEF QueueInv, Abandoned, Counted

\* A step of the worker that holds job j.
LEMMA HolderStep ==
  ASSUME TypeOK, TypeOK', QueueInv, NEW w \in Workers, NEW j \in Jobs,
         worker[w].pc \in Attempting \cup Ticking, worker[w].job = j,
         \A v \in Workers \ {w} : worker'[v] = worker[v], snap' = snap,
         \A i \in Jobs \ {j} : job'[i] = job[i] /\ submits'[i] = submits[i],
         rescue' = rescue, process' = process,
         \/ worker'[w].pc = "idle"
         \/ worker'[w].pc \in Attempting \cup Ticking /\ worker'[w].job = j,
         \/ job'[j] = job[j]
         \/ job'[j].state = "received" /\ job'[j].attempts < MaxAttempts
         \/ job'[j].state \in InFlight /\ job'[j].age = 0
         \/ job'[j].state \in Terminal \cup {"awaiting_target"},
         HoldsAttempt(w)', HoldsLease(w)', Counted(j)'
  PROVE  QueueInv'
  <1>1. j \notin rescue
    BY HeldNotRescued
  <1>2. process # "down"
    BY DEF QueueInv
  <1>3. \A v \in Workers \ {w} :
          worker[v].pc \in Attempting \cup Ticking => worker[v].job # j
    BY DEF QueueInv, ExclusiveWork
  <1>4. ASSUME NEW v \in Workers \ {w}, worker[v].pc = "claiming", FreshCand(v, j)
        PROVE  FreshCand(v, j)'
    <2>1. Since(v) \in Nat /\ Slack \in Nat /\ Since(v)' = Since(v)
      BY <1>4, TypeAssumption DEF TypeOK, WorkerStates, Since
    <2>2. 0 <= Since(v) + Slack
      BY <2>1
    <2> QED BY <1>4, <2>1, <2>2 DEF FreshCand
  <1>5. FreshCandidates(w)'
    BY DEF FreshCandidates
  <1> QED BY <1>1, <1>2, <1>3, <1>4, <1>5, OneWorkerOneRow

\* The time a tick has left shrinks no faster than its lease.
LEMMA TickOverLease ==
  ASSUME TypeOK, QueueInv, NEW w \in Workers, worker[w].pc \in Ticking,
         job[worker[w].job].state = "awaiting_target"
  PROVE  job[worker[w].job].next >= worker[w].left + Interval - 2 * Slack
  <1>1. worker[w].job \in Jobs /\ HoldsLease(w)
    BY HeldJob DEF QueueInv
  <1>2. /\ worker[w].left \in Int /\ job[worker[w].job].next \in Int
        /\ ResultBudget \in Nat /\ Interval \in Nat /\ Slack \in Nat
    BY <1>1, TypeAssumption DEF TypeOK, WorkerStates, Row
  <1>3. \/ job[worker[w].job].next >= worker[w].left + ResultBudget + Interval - Slack
        \/ job[worker[w].job].next >= worker[w].left + Interval - 2 * Slack
    BY <1>1 DEF HoldsLease
  <1> QED BY <1>2, <1>3

\* The holder's last write of an attempt or a tick.
LEMMA WriteEnds ==
  ASSUME TypeOK, TypeOK', QueueInv, NEW w \in Workers, NEW j \in Jobs,
         worker[w].pc \in Attempting \cup Ticking, worker[w].job = j,
         NEW from, NEW r, NEW k, Write(w, j, from, r, k, k),
         submits' = submits, rescue' = rescue, process' = process,
         r.attempts = job[j].attempts,
         \/ r.state \in Terminal \cup {"awaiting_target"}
         \/ r.state = "received" /\ r.attempts < MaxAttempts,
         \/ k = Idle
         \/ k = TickOver(w) /\ worker[w].pc \in Ticking /\ r.state \in Terminal
  PROVE  QueueInv'
  <1>1. /\ worker'[w] = k
        /\ \A v \in Workers \ {w} : worker'[v] = worker[v]
        /\ snap' = snap
        /\ \A i \in Jobs \ {j} : job'[i] = job[i]
        /\ job'[j] = job[j] \/ job'[j] = r
    BY DEF Write, TypeOK
  <1>2. Counted(j)'
    BY <1>1 DEF QueueInv, Counted
  <1>3. CASE k = Idle
    <2>1. worker'[w].pc = "idle"
      BY <1>1, <1>3 DEF Idle, At
    <2> QED BY <1>1, <1>2, <2>1, EmptyHanded, HolderStep
  <1>4. CASE k = TickOver(w) /\ worker[w].pc \in Ticking /\ r.state \in Terminal
    <2>1. /\ worker'[w].pc = "rescheduling" /\ worker'[w].job = j
          /\ worker'[w].left = worker[w].left
      BY <1>1, <1>4 DEF TickOver, Proceed, At
    <2>2. HoldsLease(w)
      BY DEF QueueInv
    <2>3. HoldsLease(w)'
      BY <1>1, <1>4, <2>1, <2>2, TickOverLease DEF HoldsLease
    <2>4. HoldsAttempt(w)'
      BY <2>1 DEF HoldsAttempt
    <2> QED BY <1>1, <1>2, <1>4, <2>1, <2>3, <2>4, HolderStep
  <1> QED BY <1>3, <1>4

\* The steps of a worker that holds a job.
LEMMA HoldingInv ==
  ASSUME TypeOK, TypeOK', QueueInv, NEW w \in Workers,
         \/ Resolved(w) \/ AttemptFails(w) \/ AttemptRetries(w)
         \/ CutOff(w) \/ ForwardTimesOut(w)
         \/ Forwarded(w) \/ ParkForPolling(w)
         \/ PollAgain(w) \/ PollFails(w) \/ PollDone(w)
         \/ FetchAgain(w) \/ FetchFails(w) \/ FetchCompletes(w)
         \/ ReschedulePoll(w)
  PROVE  QueueInv'
  <1>j. PICK j : j = worker[w].job
    OBVIOUS
  <1> USE <1>j DEF control, history
  <1>0. /\ worker[w].pc \in Attempting \cup Ticking
        /\ j \in Jobs /\ job[j] \in Row
        /\ HoldsAttempt(w) /\ HoldsLease(w) /\ Counted(j)
    <2>1. worker[w].pc \in Attempting \cup Ticking
      BY DEF Resolved, AttemptFails, AttemptRetries, CutOff, ForwardTimesOut, Forwarded,
             ParkForPolling, PollAgain, PollFails, PollDone, FetchAgain,
             FetchFails, FetchCompletes, ReschedulePoll
    <2> QED BY <2>1, HeldJob DEF TypeOK, QueueInv
  <1>1. ASSUME NEW k, Fail(w, k) \/ Complete(w, k),
               k = Idle \/ (k = TickOver(w) /\ worker[w].pc \in Ticking),
               submits' = submits, rescue' = rescue, process' = process
        PROVE  QueueInv'
    <2>1. /\ MarkFailed(job[j]).state = "failed" /\ MarkCompleted(job[j]).state = "completed"
          /\ MarkFailed(job[j]).attempts = job[j].attempts
          /\ MarkCompleted(job[j]).attempts = job[j].attempts
      BY DEF MarkFailed, MarkCompleted, Moved, MkRow
    <2>2. CASE Fail(w, k)
      BY <1>0, <1>1, <2>1, <2>2, WriteEnds DEF Fail
    <2>3. CASE Complete(w, k)
      BY <1>0, <1>1, <2>1, <2>3, WriteEnds DEF Complete
    <2> QED BY <1>1, <2>2, <2>3
  <1>2. ASSUME RetryOrFail(w), worker[w].pc \in Attempting,
               submits' = submits, rescue' = rescue, process' = process
        PROVE  QueueInv'
    <2>1. CASE worker[w].attempts >= MaxAttempts
      BY <1>1, <1>2, <2>1 DEF RetryOrFail
    <2>2. CASE ~(worker[w].attempts >= MaxAttempts)
      <3>1. PICK b \in Backoffs : Write(w, j, Live, Requeue(job[j], b), Idle, Idle)
        BY <1>2, <2>2 DEF RetryOrFail
      <3>2. job[j].attempts < MaxAttempts
        BY <1>0, <1>2, <2>2, TypeAssumption DEF HoldsAttempt, Row
      <3>3. /\ Requeue(job[j], b).state = "received"
            /\ Requeue(job[j], b).attempts = job[j].attempts
        BY DEF Requeue, Moved, MkRow
      <3> QED BY <1>0, <1>2, <3>1, <3>2, <3>3, WriteEnds
    <2> QED BY <2>1, <2>2
  <1>3. CASE Resolved(w)
    <2>1. /\ \A v \in Workers \ {w} : worker'[v] = worker[v]
          /\ snap' = snap /\ rescue' = rescue /\ process' = process
          /\ \A i \in Jobs \ {j} : job'[i] = job[i] /\ submits'[i] = submits[i]
          /\ worker[w].pc = "resolving"
      BY <1>0, <1>3 DEF Resolved, Write, TypeOK
    <2>2. CASE worker'[w] = Proceed(w, "forwarding") /\ job'[j] = SetResolved(job[j])
      <3>1. /\ worker'[w].pc = "forwarding" /\ worker'[w].job = j
            /\ worker'[w].left = worker[w].left
            /\ worker'[w].attempts = worker[w].attempts
            /\ job'[j].state = "forwarding" /\ job'[j].age = 0
            /\ job'[j].attempts = job[j].attempts
        BY <2>2 DEF Proceed, At, SetResolved, Moved, MkRow
      <3>2. submits'[j] = submits[j] + 1
        BY <1>0, <1>3, <3>1 DEF Resolved, TypeOK
      <3>3. Counted(j)'
        <4>1. submits[j] \in Nat /\ job[j].attempts \in Nat /\ submits[j] < job[j].attempts
          BY <1>0, <2>1 DEF Counted, TypeOK, Row, HoldsAttempt
        <4> QED BY <1>0, <3>1, <3>2, <4>1 DEF Counted
      <3>4. HoldsAttempt(w)'
        <4>1. PICK t \in JobTimeouts : job[j].age + worker[w].left <= t + Slack
          BY <1>0, <2>1 DEF HoldsAttempt
        <4>2. job[j].age \in Nat /\ worker[w].left \in Int /\ t \in Int /\ Slack \in Int
          BY <1>0, TypeAssumption DEF Row, TypeOK, WorkerStates
        <4>3. 0 + worker[w].left <= t + Slack
          BY <4>1, <4>2
        <4> QED BY <1>0, <2>1, <3>1, <4>3 DEF HoldsAttempt
      <3>5. HoldsLease(w)'
        BY <3>1 DEF HoldsLease
      <3> QED BY <1>0, <2>1, <3>1, <3>3, <3>4, <3>5, HolderStep
    <2>3. CASE worker'[w] = Idle /\ job' = job
      <3>1. worker'[w].pc = "idle"
        BY <2>3 DEF Idle, At
      <3>2. submits' = submits
        BY <1>3, <3>1 DEF Resolved
      <3>3. Counted(j)'
        BY <1>0, <2>3, <3>2 DEF Counted
      <3> QED BY <1>0, <2>1, <2>3, <3>1, <3>3, EmptyHanded, HolderStep
    <2> QED BY <1>0, <1>3, <2>2, <2>3 DEF Resolved, Write, TypeOK
  <1>4. CASE AttemptFails(w)
    BY <1>1, <1>4 DEF AttemptFails
  <1>5. CASE AttemptRetries(w)
    BY <1>2, <1>5 DEF AttemptRetries
  <1>6. CASE ForwardTimesOut(w)
    BY <1>1, <1>2, <1>6 DEF ForwardTimesOut
  <1>6a. CASE CutOff(w)
    <2>1. /\ worker'[w] = At(worker[w].pc, j, worker[w].left, worker[w].attempts, TRUE)
          /\ \A v \in Workers \ {w} : worker'[v] = worker[v]
          /\ snap' = snap /\ rescue' = rescue /\ process' = process
          /\ job' = job /\ submits' = submits
      BY <1>6a DEF CutOff, TypeOK
    <2>2. /\ worker'[w].pc = worker[w].pc /\ worker'[w].job = j
          /\ worker'[w].left = worker[w].left /\ worker'[w].attempts = worker[w].attempts
      BY <2>1 DEF At
    <2>3. HoldsLease(w)' /\ HoldsAttempt(w)'
      BY <1>0, <2>1, <2>2 DEF HoldsLease, HoldsAttempt
    <2>4. Counted(j)'
      BY <1>0, <2>1 DEF Counted
    <2> QED BY <1>0, <2>1, <2>2, <2>3, <2>4, HolderStep
  <1>7. CASE Forwarded(w)
    BY <1>1, <1>7 DEF Forwarded
  <1>8. CASE ParkForPolling(w)
    <2> DEFINE r == MarkAwaitingTarget(job[j], Interval, PollTimeout)
    <2>1. r.state = "awaiting_target" /\ r.attempts = job[j].attempts
      BY DEF MarkAwaitingTarget, MkRow
    <2>2. Write(w, j, {"forwarding"}, r, Idle, Idle)
      BY <1>8 DEF ParkForPolling
    <2> HIDE DEF r
    <2> QED BY <1>0, <1>8, <2>1, <2>2, WriteEnds DEF ParkForPolling
  <1>9. CASE PollAgain(w) \/ FetchAgain(w)
    <2>1. /\ worker'[w] = TickOver(w) /\ worker[w].pc \in Ticking
          /\ \A v \in Workers \ {w} : worker'[v] = worker[v]
          /\ snap' = snap /\ rescue' = rescue /\ process' = process
          /\ job' = job /\ submits' = submits
      BY <1>9 DEF PollAgain, FetchAgain, TypeOK
    <2>2. /\ worker'[w].pc = "rescheduling" /\ worker'[w].job = j
          /\ worker'[w].left = worker[w].left
      BY <2>1 DEF TickOver, Proceed, At
    <2>3. HoldsLease(w)' /\ HoldsAttempt(w)'
      BY <1>0, <2>1, <2>2, TickOverLease DEF HoldsLease, HoldsAttempt
    <2>4. Counted(j)'
      BY <1>0, <2>1 DEF Counted
    <2> QED BY <1>0, <2>1, <2>2, <2>3, <2>4, HolderStep
  <1>10. CASE PollFails(w)
    BY <1>1, <1>10 DEF PollFails
  <1>11. CASE PollDone(w)
    <2>1. /\ worker'[w] = At("fetching", j, ResultBudget, worker[w].attempts, Late(j))
          /\ worker[w].pc = "polling"
          /\ \A v \in Workers \ {w} : worker'[v] = worker[v]
          /\ snap' = snap /\ rescue' = rescue /\ process' = process
          /\ job' = job /\ submits' = submits
      BY <1>11 DEF PollDone, TypeOK
    <2>2. worker'[w].pc = "fetching" /\ worker'[w].job = j /\ worker'[w].left = ResultBudget
      BY <2>1 DEF At
    <2>3. /\ ResultBudget >= -Slack
          /\ job[j].state = "awaiting_target" =>
               job[j].next >= ResultBudget + Interval - 2 * Slack
      <3>1. /\ worker[w].left \in Int /\ job[j].next \in Int
            /\ ResultBudget \in Nat /\ Interval \in Nat /\ Slack \in Nat
        BY <1>0, TypeAssumption DEF TypeOK, WorkerStates, Row
      <3>2. /\ worker[w].left >= -Slack
            /\ job[j].state = "awaiting_target" =>
                 job[j].next >= worker[w].left + ResultBudget + Interval - Slack
        BY <1>0, <2>1 DEF HoldsLease
      <3> QED BY <3>1, <3>2
    <2>4. HoldsLease(w)' /\ HoldsAttempt(w)'
      BY <1>0, <2>1, <2>2, <2>3 DEF HoldsLease, HoldsAttempt
    <2>5. Counted(j)'
      BY <1>0, <2>1 DEF Counted
    <2> QED BY <1>0, <2>1, <2>2, <2>4, <2>5, HolderStep
  <1>12. CASE FetchFails(w)
    BY <1>1, <1>12 DEF FetchFails
  <1>13. CASE FetchCompletes(w)
    BY <1>1, <1>13 DEF FetchCompletes
  <1>14. CASE ReschedulePoll(w)
    <2>1. CASE Accepts(job[j], {"awaiting_target"})
      <3> DEFINE r == Rescheduled(job[j], Interval)
      <3>1. r.state = "awaiting_target" /\ r.attempts = job[j].attempts
        BY <2>1 DEF Rescheduled, MkRow, Accepts
      <3>2. Write(w, j, {"awaiting_target"}, r, Idle, Idle)
        BY <1>14 DEF ReschedulePoll
      <3> HIDE DEF r
      <3> QED BY <1>0, <1>14, <3>1, <3>2, WriteEnds DEF ReschedulePoll
    <2>2. CASE ~Accepts(job[j], {"awaiting_target"})
      <3>1. /\ worker'[w] = Idle
            /\ \A v \in Workers \ {w} : worker'[v] = worker[v]
            /\ snap' = snap /\ rescue' = rescue /\ process' = process
            /\ job' = job /\ submits' = submits
        BY <1>14, <2>2 DEF ReschedulePoll, Write, TypeOK
      <3>2. worker'[w].pc = "idle" /\ Counted(j)'
        BY <1>0, <3>1 DEF Idle, At, Counted
      <3> QED BY <1>0, <3>1, <3>2, EmptyHanded, HolderStep
    <2> QED BY <2>1, <2>2
  <1> QED BY <1>3, <1>4, <1>5, <1>6, <1>6a, <1>7, <1>8, <1>9, <1>10, <1>11, <1>12,
             <1>13, <1>14

\* A step of a client or the sweeper on row j, with the workers untouched.
LEMMA RowStep ==
  ASSUME TypeOK, TypeOK', QueueInv, NEW j \in Jobs,
         worker' = worker, snap' = snap, submits' = submits, process' = process,
         \A i \in Jobs \ {j} : job'[i] = job[i],
         rescue' \subseteq rescue, j \notin rescue',
         process = "down" => rescue' = {},
         job'[j].attempts = job[j].attempts,
         job'[j].state \in Terminal \cup {"received"},
         \A v \in Workers : worker[v].pc \in Attempting => worker[v].job # j,
         \A v \in Workers :
           worker[v].pc \in Ticking /\ worker[v].job = j => job'[j].state \in Terminal,
         \A v \in Workers : worker[v].pc = "claiming" =>
           (job'[j].state = "received" /\ snap[v][j].state = "received"
              /\ snap[v][j].attempts < MaxAttempts => job[j].attempts < MaxAttempts)
  PROVE  QueueInv'
  <1>1. ASSUME NEW v \in Workers PROVE HoldsAttempt(v)' /\ HoldsLease(v)'
    <2>1. HoldsAttempt(v) /\ HoldsLease(v)
      BY DEF QueueInv
    <2>2. worker[v].pc \in Attempting \cup Ticking => worker[v].job \in Jobs
      BY HeldJob
    <2> QED BY <2>1, <2>2 DEF HoldsAttempt, HoldsLease
  <1>2. ASSUME NEW v \in Workers PROVE FreshCandidates(v)'
    <2>1. FreshCandidates(v)
      BY DEF QueueInv
    <2>2. ASSUME worker[v].pc = "claiming", NEW i \in Jobs PROVE FreshCand(v, i)'
      BY <2>1, <2>2 DEF FreshCandidates, FreshCand, Since
    <2> QED BY <2>1, <2>2 DEF FreshCandidates, Since
  <1>3. \A i \in rescue' : Abandoned(i)'
    BY DEF QueueInv, Abandoned, TypeOK
  <1>4. \A i \in Jobs : Counted(i)'
    BY DEF QueueInv, Counted
  <1>5. ExclusiveWork'
    BY DEF QueueInv, ExclusiveWork
  <1> QED BY <1>1, <1>2, <1>3, <1>4, <1>5 DEF QueueInv

\* A rescue takes a job from nobody: its row is older than any attempt lasts,
\* and older than any candidate list that still has attempts to offer.
LEMMA RescueInv ==
  ASSUME TypeOK, TypeOK', QueueInv, NEW j \in Jobs, RescueOne(j)
  PROVE  QueueInv'
  <1> USE DEF history
  <1>1. /\ j \in rescue /\ Abandoned(j)
        /\ worker' = worker /\ snap' = snap /\ submits' = submits /\ process' = process
    BY DEF RescueOne, QueueInv
  <1>2. CASE job' = job
    <2>1. rescue' \subseteq rescue
      BY DEF RescueOne
    <2> QED BY <1>1, <1>2, <2>1
            DEF QueueInv, HoldsAttempt, HoldsLease, FreshCandidates, FreshCand,
                Since, Abandoned, Counted, ExclusiveWork
  <1>3. CASE job' = [job EXCEPT ![j] = Requeue(job[j], Null)] /\ rescue' = rescue \ {j}
    <2>1. /\ \A i \in Jobs \ {j} : job'[i] = job[i]
          /\ job'[j].state = "received" /\ job'[j].attempts = job[j].attempts
          /\ process = "down" => rescue' = {}
      BY <1>3 DEF Requeue, Moved, MkRow, TypeOK, QueueInv
    <2>2. \A v \in Workers : worker[v].pc \in Attempting \cup Ticking => worker[v].job # j
      BY <1>1, HeldNotRescued
    <2>3. ASSUME NEW v \in Workers, worker[v].pc = "claiming",
                 snap[v][j].state = "received", snap[v][j].attempts < MaxAttempts
          PROVE  FALSE
      <3>1. job[j].age <= Since(v) + Slack /\ Since(v) <= Slack
        BY <1>1, <2>3 DEF QueueInv, FreshCandidates, FreshCand, Abandoned
      <3>2. PICK t \in JobTimeouts : TRUE
        BY TypeAssumption
      <3>3. job[j].age > t + 2 * Slack
        BY <1>1 DEF Abandoned
      <3>4. /\ t \in Nat /\ Slack \in Nat /\ job[j].age \in Nat /\ Since(v) \in Int
        BY <2>3, TypeAssumption DEF TypeOK, Row, WorkerStates, Since
      <3> QED BY <3>1, <3>3, <3>4
    <2> QED BY <1>1, <1>3, <2>1, <2>2, <2>3, RowStep
  <1> QED BY <1>2, <1>3 DEF RescueOne

\* Ages and deadlines move together.
LEMMA TickInv ==
  ASSUME TypeOK, TypeOK', QueueInv, Tick
  PROVE  QueueInv'
  <1> USE DEF control, history
  <1>0. /\ \A j \in Jobs : job[j] \in Row /\ job'[j] = Aged(job[j])
        /\ \A w \in Workers : worker[w] \in WorkerStates /\ worker'[w] = AgedWorker(worker[w])
        /\ rescue' = rescue /\ submits' = submits /\ process' = process
        /\ Horizon \in Nat /\ Slack \in Nat
    BY TypeAssumption, HorizonAssumption DEF Tick, TypeOK
  <1>1. ASSUME NEW j \in Jobs
        PROVE  /\ job'[j].state = job[j].state /\ job'[j].attempts = job[j].attempts
               /\ job'[j].next >= job[j].next - 1
               /\ job'[j].age >= job[j].age /\ job'[j].age <= job[j].age + 1
    <2>1. job[j].next \in Int /\ job[j].age \in Nat
      BY <1>0 DEF Row
    <2>2. /\ job'[j].state = job[j].state /\ job'[j].attempts = job[j].attempts
          /\ job'[j].next = Sooner(job[j].next)
          /\ job'[j].age = Older(job[j].age) \/ job'[j].age = job[j].age
      <3>1. job'[j] = Aged(job[j])
        BY <1>0
      <3> QED BY ONLY <3>1 DEF Aged, MkRow
    <2>3. /\ Sooner(job[j].next) >= job[j].next - 1
          /\ Older(job[j].age) >= job[j].age /\ Older(job[j].age) <= job[j].age + 1
      BY <1>0, <2>1 DEF Sooner, Older
    <2>4. job[j].age >= job[j].age /\ job[j].age <= job[j].age + 1
      BY <2>1
    <2> QED BY <2>2, <2>3, <2>4
  <1>2. ASSUME NEW w \in Workers
        PROVE  /\ worker'[w].pc = worker[w].pc /\ worker'[w].job = worker[w].job
               /\ worker'[w].attempts = worker[w].attempts
               /\ worker[w].pc # "idle" => /\ worker'[w].left = worker[w].left - 1
                                           /\ worker[w].left > -Slack
               /\ worker[w].left \in Int
    BY <1>0 DEF AgedWorker, At, WorkerStates, Tick, OnTime
  <1>3. ASSUME NEW w \in Workers, worker[w].pc \in Attempting PROVE HoldsAttempt(w)'
    <2>1. worker[w].job \in Jobs /\ HoldsAttempt(w)
      BY <1>3, HeldJob DEF QueueInv
    <2> DEFINE r == job[worker[w].job]
    <2>2. PICK t \in JobTimeouts : r.age + worker[w].left <= t + Slack
      BY <1>3, <2>1 DEF HoldsAttempt
    <2>3. r.age \in Nat /\ t \in Int /\ (r.age)' \in Nat
      BY <1>0, <1>2, <2>1, TypeAssumption DEF Row, TypeOK
    <2>4. (r.age)' + worker'[w].left <= t + Slack /\ worker'[w].left >= -Slack
      BY <1>0, <1>1, <1>2, <1>3, <2>1, <2>2, <2>3
    <2> QED BY <1>1, <1>2, <1>3, <2>1, <2>4 DEF HoldsAttempt
  <1>4. ASSUME NEW w \in Workers, worker[w].pc \in Ticking PROVE HoldsLease(w)'
    <2>1. worker[w].job \in Jobs /\ HoldsLease(w)
      BY <1>4, HeldJob DEF QueueInv
    <2>2. /\ job[worker[w].job].next \in Int /\ job'[worker[w].job].next \in Int
          /\ ResultBudget \in Int /\ Interval \in Int
      BY <2>1, TypeAssumption DEF Row, TypeOK
    <2>3. worker'[w].left >= -Slack
      BY <1>0, <1>2, <1>4
    <2>5. ASSUME job[worker[w].job].next >= worker[w].left + ResultBudget + Interval - Slack
          PROVE  job'[worker[w].job].next >= worker'[w].left + ResultBudget + Interval - Slack
      BY <1>0, <1>1, <1>2, <1>4, <2>1, <2>2, <2>5
    <2>6. ASSUME job[worker[w].job].next >= worker[w].left + Interval - 2 * Slack
          PROVE  job'[worker[w].job].next >= worker'[w].left + Interval - 2 * Slack
      BY <1>0, <1>1, <1>2, <1>4, <2>1, <2>2, <2>6
    <2> QED BY <1>1, <1>2, <1>4, <2>1, <2>3, <2>5, <2>6 DEF HoldsLease
  <1>5. ASSUME NEW w \in Workers, worker[w].pc = "claiming" PROVE FreshCandidates(w)'
    <2>1. FreshCandidates(w)
      BY DEF QueueInv
    <2>2. Since(w)' = Since(w) + 1 /\ Since(w)' <= Slack /\ Since(w) \in Int
      BY <1>0, <1>2, <1>5 DEF Since
    <2>3. ASSUME NEW j \in Jobs PROVE FreshCand(w, j)'
      <3>1. FreshCand(w, j) /\ snap[w][j] \in Cands /\ snap'[w][j] = AgedCand(snap[w][j])
        BY <1>5, <2>1 DEF FreshCandidates, TypeOK, Tick
      <3>2. /\ snap'[w][j].state = snap[w][j].state
            /\ snap'[w][j].attempts = snap[w][j].attempts
            /\ snap'[w][j].next <= 0
        BY <1>0, <3>1 DEF AgedCand, MkCand, Cands, Sooner, FreshCand
      <3>3. job[j].age \in Nat /\ job'[j].age \in Nat
        BY DEF TypeOK, Row
      <3>4. job[j].age <= Since(w) + Slack => job'[j].age <= Since(w)' + Slack
        BY <1>0, <1>1, <2>2, <3>3
      <3> QED BY <1>1, <3>1, <3>2, <3>4 DEF FreshCand
    <2> QED BY <2>2, <2>3 DEF FreshCandidates
  <1>6. \A i \in rescue' : Abandoned(i)'
    <2> SUFFICES ASSUME NEW i \in rescue PROVE Abandoned(i)'
      BY <1>0
    <2>1. i \in Jobs /\ Abandoned(i)
      BY DEF QueueInv, TypeOK
    <2>2. \A t \in JobTimeouts : t + 2 * Slack \in Int
      BY <1>0, TypeAssumption
    <2>3. job[i].age \in Nat /\ job'[i].age \in Nat
      BY <2>1 DEF TypeOK, Row
    <2>4. \A t \in JobTimeouts : job'[i].age > t + 2 * Slack
      BY <1>1, <2>1, <2>2, <2>3 DEF Abandoned
    <2> QED BY <1>1, <2>1, <2>4 DEF Abandoned
  <1>7. \A i \in Jobs : Counted(i)'
    BY <1>0, <1>1 DEF QueueInv, Counted
  <1>8. ExclusiveWork'
    BY <1>2 DEF QueueInv, ExclusiveWork
  <1>9. \A w \in Workers : HoldsAttempt(w)' /\ HoldsLease(w)' /\ FreshCandidates(w)'
    BY <1>2, <1>3, <1>4, <1>5 DEF HoldsAttempt, HoldsLease, FreshCandidates
  <1>10. process' = "down" => rescue' = {} /\ \A w \in Workers : worker'[w].pc = "idle"
    BY <1>0, <1>2 DEF QueueInv
  <1> QED BY <1>6, <1>7, <1>8, <1>9, <1>10 DEF QueueInv

\* The steps of the sweeper, the clients, the operator and the clock.
LEMMA SurroundingInv ==
  ASSUME Timely, TypeOK, TypeOK', QueueInv,
         \/ SelectStuck \/ (\E j \in Jobs : RescueOne(j))
         \/ \E j \in Jobs : (\E d \in Delays : Submit(j, d)) \/ ReadToCancel(j) \/ CancelJob(j)
         \/ \E t \in JobTimeouts : Reload(t)
         \/ Crash \/ BeginShutdown \/ FinishShutdown \/ Restart
         \/ Tick
  PROVE  QueueInv'
  <1> USE DEF control, history
  <1>1. CASE SelectStuck
    <2>1. /\ job' = job /\ worker' = worker /\ snap' = snap /\ submits' = submits
          /\ process' = process /\ process = "up"
          /\ rescue' = {j \in Jobs : Stuck(j)}
      BY <1>1 DEF SelectStuck
    <2>2. \A j \in rescue' : Abandoned(j)'
      <3> SUFFICES ASSUME NEW j \in Jobs, Stuck(j) PROVE Abandoned(j)'
        BY <2>1
      <3>1. job[j].state \in InFlight /\ job[j].age > 2 * jobTimeout /\ job[j].age \in Nat
        BY DEF Stuck, TypeOK, Row
      <3>2. ASSUME NEW t \in JobTimeouts PROVE job[j].age > t + 2 * Slack
        <4>1. t + 2 * Slack <= 2 * jobTimeout
          BY DEF Timely, TypeOK
        <4>2. t \in Nat /\ jobTimeout \in Nat /\ Slack \in Nat
          BY TypeAssumption DEF TypeOK
        <4> QED BY <3>1, <4>1, <4>2
      <3> QED BY <2>1, <3>1, <3>2 DEF Abandoned
    <2> QED BY <2>1, <2>2
            DEF QueueInv, HoldsAttempt, HoldsLease, FreshCandidates, FreshCand,
                Since, Counted, ExclusiveWork
  <1>2. CASE \E j \in Jobs : RescueOne(j)
    BY <1>2, RescueInv
  <1>3. CASE \E j \in Jobs : \E d \in Delays : Submit(j, d)
    <2>1. PICK j \in Jobs, d \in Delays : Submit(j, d)
      BY <1>3
    <2>2. /\ job[j].state = NoRow /\ job' = [job EXCEPT ![j] = Inserted(d)]
          /\ worker' = worker /\ snap' = snap /\ submits' = submits
          /\ process' = process /\ rescue' = rescue /\ process = "up"
      BY <2>1 DEF Submit
    <2>3. /\ \A i \in Jobs \ {j} : job'[i] = job[i]
          /\ job'[j].state = "received" /\ job'[j].attempts = 0
      BY <2>2 DEF TypeOK, Inserted, MkRow
    <2>4. \A v \in Workers : worker[v].pc \in Attempting \cup Ticking => worker[v].job # j
      BY <2>2 DEF QueueInv, HoldsAttempt, HoldsLease
    <2>5. \A v \in Workers : HoldsAttempt(v)' /\ HoldsLease(v)'
      BY <2>2, <2>3, <2>4, HeldJob DEF QueueInv, HoldsAttempt, HoldsLease
    <2>6. \A v \in Workers : FreshCandidates(v)'
      BY <2>2, <2>3, TypeAssumption DEF QueueInv, FreshCandidates, FreshCand, Since
    <2>7. /\ \A i \in rescue' : Abandoned(i)'
          /\ ExclusiveWork'
      BY <2>2, <2>3 DEF QueueInv, Abandoned, ExclusiveWork, TypeOK
    <2>8. \A i \in Jobs : Counted(i)'
      <3>1. Counted(j)'
        <4>1. submits[j] = 0
          BY <2>2 DEF QueueInv, Counted
        <4> QED BY <2>2, <2>3, <4>1, TypeAssumption DEF Counted
      <3> QED BY <2>2, <2>3, <3>1 DEF QueueInv, Counted
    <2> QED BY <2>2, <2>5, <2>6, <2>7, <2>8 DEF QueueInv
  <1>4. CASE \E j \in Jobs : CancelJob(j)
    <2>1. PICK j \in Jobs : CancelJob(j)
      BY <1>4
    <2>2. /\ worker' = worker /\ snap' = snap /\ submits' = submits
          /\ process' = process /\ rescue' = rescue
      BY <2>1 DEF CancelJob
    <2>3. CASE job' = job
      BY <2>2, <2>3 DEF QueueInv, HoldsAttempt, HoldsLease, FreshCandidates, FreshCand,
                        Since, Abandoned, Counted, ExclusiveWork
    <2>4. CASE Accepts(job[j], Waiting) /\ job' = [job EXCEPT ![j] = MarkCancelled(job[j])]
      <3>1. /\ \A i \in Jobs \ {j} : job'[i] = job[i]
            /\ job'[j].state = "cancelled" /\ job'[j].attempts = job[j].attempts
            /\ job[j].state \in Waiting
        BY <2>4 DEF TypeOK, MarkCancelled, Moved, MkRow, Accepts
      <3>2. \A v \in Workers : worker[v].pc \in Attempting => worker[v].job # j
        BY <3>1 DEF QueueInv, HoldsAttempt
      <3>3. j \notin rescue /\ (process = "down" => rescue = {})
        BY <3>1 DEF QueueInv, Abandoned
      <3> QED BY <2>2, <3>1, <3>2, <3>3, RowStep
    <2> QED BY <2>1, <2>3, <2>4 DEF CancelJob
  <1>5. CASE (\E j \in Jobs : ReadToCancel(j)) \/ (\E t \in JobTimeouts : Reload(t)) \/ BeginShutdown
    BY <1>5 DEF ReadToCancel, Reload, BeginShutdown, QueueInv, HoldsAttempt, HoldsLease,
                FreshCandidates, FreshCand, Since, Abandoned, Counted, ExclusiveWork
  <1>6. CASE Crash \/ FinishShutdown
    <2>1. /\ job' = job /\ submits' = submits /\ rescue' = {}
          /\ \A w \in Workers : worker'[w] = Idle
      BY <1>6 DEF Crash, FinishShutdown, Gone
    <2>2. \A w \in Workers : worker'[w].pc = "idle"
      BY <2>1 DEF Idle, At
    <2> QED BY <2>1, <2>2 DEF QueueInv, HoldsAttempt, HoldsLease, FreshCandidates,
                              Counted, ExclusiveWork
  <1>7. CASE Restart
    <2>1. /\ worker' = worker /\ submits' = submits /\ rescue' = rescue
          /\ rescue = {} /\ \A w \in Workers : worker[w].pc = "idle"
          /\ process' = "up"
      BY <1>7 DEF Restart, QueueInv
    <2>2. ASSUME NEW j \in Jobs PROVE Counted(j)'
      <3>1. \/ job'[j] = job[j] \/ job'[j] = Requeue(job[j], Null)
            \/ \E t : job'[j] = Rescheduled(job[j], t)
        BY <1>7 DEF Restart, Restarted
      <3>2. /\ job'[j].attempts = job[j].attempts
            /\ job'[j].state \in {job[j].state, "received"}
        <4>1. CASE job'[j] = Requeue(job[j], Null)
          BY <4>1 DEF Requeue, Moved, MkRow
        <4>2. ASSUME NEW t, job'[j] = Rescheduled(job[j], t)
              PROVE  job'[j].attempts = job[j].attempts /\ job'[j].state = job[j].state
          BY ONLY <4>2 DEF Rescheduled, MkRow
        <4> QED BY <3>1, <4>1, <4>2
      <3> QED BY <2>1, <3>2 DEF QueueInv, Counted
    <2> QED BY <2>1, <2>2 DEF QueueInv, HoldsAttempt, HoldsLease, FreshCandidates,
                              ExclusiveWork
  <1>8. CASE Tick
    BY <1>8, TickInv
  <1> QED BY <1>1, <1>2, <1>3, <1>4, <1>5, <1>6, <1>7, <1>8

LEMMA InvInductive == Timely /\ TypeOK /\ TypeOK' /\ QueueInv /\ [Next]_vars => QueueInv'
  <1> SUFFICES ASSUME Timely, TypeOK, TypeOK', QueueInv, [Next]_vars PROVE QueueInv'
    OBVIOUS
  <1>1. CASE UNCHANGED vars
    BY <1>1 DEF vars, QueueInv, HoldsAttempt, HoldsLease, FreshCandidates, FreshCand,
                Since, Abandoned, Counted, ExclusiveWork
  <1>2. CASE \E w \in Workers : WorkerStep(w)
    <2>1. PICK w \in Workers : WorkerStep(w)
      BY <1>2
    <2>2. CASE \/ Resolved(w) \/ AttemptFails(w) \/ AttemptRetries(w)
               \/ CutOff(w) \/ ForwardTimesOut(w)
               \/ Forwarded(w) \/ ParkForPolling(w)
               \/ PollAgain(w) \/ PollFails(w) \/ PollDone(w)
               \/ FetchAgain(w) \/ FetchFails(w) \/ FetchCompletes(w)
               \/ ReschedulePoll(w)
      BY <2>2, HoldingInv
    <2>3. CASE \E j \in Jobs :
                 FailExhausted(w, j) \/ ClaimReceived(w, j) \/ ClaimPollTick(w, j)
      BY <2>3, FailExhaustedInv, ClaimReceivedInv, ClaimPollTickInv
    <2>4. CASE StartClaim(w)
      BY <2>4, StartClaimInv
    <2>5. CASE AbortClaim(w)
      <3>1. /\ \A v \in Workers \ {w} : worker'[v] = worker[v] /\ snap'[v] = snap[v]
            /\ worker'[w] = Idle
            /\ job' = job /\ submits' = submits /\ rescue' = rescue /\ process' = process
        BY <2>5 DEF AbortClaim, LeaveClaim, TypeOK, control, history
      <3>2. worker'[w].pc = "idle"
        BY <3>1 DEF Idle, At
      <3> QED BY <2>5, <3>1, <3>2
              DEF AbortClaim, QueueInv, HoldsAttempt, HoldsLease, FreshCandidates,
                  FreshCand, Since, Abandoned, Counted, ExclusiveWork
    <2> QED BY <2>1, <2>2, <2>3, <2>4, <2>5 DEF WorkerStep
  <1>3. CASE \/ SelectStuck \/ (\E j \in Jobs : RescueOne(j))
             \/ \E j \in Jobs : (\E d \in Delays : Submit(j, d)) \/ ReadToCancel(j) \/ CancelJob(j)
             \/ \E t \in JobTimeouts : Reload(t)
             \/ Crash \/ BeginShutdown \/ FinishShutdown \/ Restart
             \/ Tick
    BY <1>3, SurroundingInv
  <1> QED BY <1>1, <1>2, <1>3 DEF Next

\* Under the timing the code relies on, the compare-and-swaps of the claims,
\* the poll lease and the rescue cutoff keep the queue's invariant through
\* every crash, reload, failed write and stale candidate (ClaimNext,
\* RescueStuck, processPoll).
THEOREM InvariantHolds == Timely /\ Spec => []QueueInv
  <1>1. Init => TypeOK /\ QueueInv
    BY InitType, InitInv
  <1>2. Timely /\ TypeOK /\ QueueInv /\ [Next]_vars => (TypeOK /\ QueueInv)'
    BY TypeInductive, InvInductive
  <1>3. CASE Timely
    <2>1. TypeOK /\ QueueInv /\ [Next]_vars => (TypeOK /\ QueueInv)'
      BY <1>2, <1>3
    <2> QED BY <1>1, <2>1, PTL DEF Spec
  <1> QED BY <1>3

\* At most one worker processes a job, attempt or poll tick, at any time
\* (claimReceived, claimPollTick, RescueStuck).
THEOREM OneWorkerPerJob == Timely /\ Spec => []ExclusiveWork
  <1>1. QueueInv => ExclusiveWork
    BY DEF QueueInv
  <1> QED BY <1>1, InvariantHolds, PTL

\* No rescue, recovery or cancellation ever takes a job from a worker that
\* is still on it (RescueStuck, RecoverInFlight, MarkCancelled).
THEOREM JobsStayHeld == Timely /\ Spec => []NeverPulledAway
  <1>1. QueueInv => NeverPulledAway
    BY DEF QueueInv, HoldsAttempt, NeverPulledAway
  <1> QED BY <1>1, InvariantHolds, PTL

\* max_attempts bounds the attempts counted and the forwards made, over any
\* number of crashes, rescues and stale candidates (ClaimNext, claimOne).
THEOREM AttemptsStayBounded == Timely /\ Spec => []AttemptsBounded
  <1>1. QueueInv => AttemptsBounded
    BY DEF QueueInv, Counted, AttemptsBounded
  <1> QED BY <1>1, InvariantHolds, PTL
-----------------------------------------------------------------------------
(* How one step changes the states and the attempts of the table.          *)

\* Row i keeps its state and its attempts, whatever happens to its times.
Same(i) == job'[i].state = job[i].state /\ job'[i].attempts = job[i].attempts

\* Row j alone changes its state.
Moves(j, from, to) ==
  /\ job[j].state \in from
  /\ job'[j].state = to /\ job'[j].attempts = job[j].attempts
  /\ \A i \in Jobs \ {j} : Same(i)

\* Row j is claimed for an attempt.
Begins(j) ==
  /\ job[j].state = "received" /\ job[j].next <= 0
  /\ HasRoom(ClientOf[j])
  /\ job'[j].state = "resolving" /\ job'[j].attempts = job[j].attempts + 1
  /\ \A i \in Jobs \ {j} : Same(i)

\* A guarded write by a worker moves its job's row or leaves the table alone.
LEMMA WriteMoves ==
  ASSUME TypeOK, NEW w, NEW j \in Jobs, NEW from, NEW r, NEW then, NEW else,
         Write(w, j, from, r, then, else), r.attempts = job[j].attempts
  PROVE  job' = job \/ Moves(j, Live \cap from, r.state)
  BY DEF Write, Accepts, Moves, Same, TypeOK

\* What the outcomes of an attempt or a tick do to the row's state.
LEMMA OutcomeRows ==
  ASSUME NEW r
  PROVE  /\ SetResolved(r).state = "forwarding" /\ SetResolved(r).attempts = r.attempts
         /\ MarkCompleted(r).state = "completed" /\ MarkCompleted(r).attempts = r.attempts
         /\ MarkFailed(r).state = "failed" /\ MarkFailed(r).attempts = r.attempts
         /\ MarkCancelled(r).state = "cancelled" /\ MarkCancelled(r).attempts = r.attempts
         /\ \A t, u : /\ MarkAwaitingTarget(r, t, u).state = "awaiting_target"
                      /\ MarkAwaitingTarget(r, t, u).attempts = r.attempts
         /\ \A t : /\ Requeue(r, t).state = "received" /\ Requeue(r, t).attempts = r.attempts
                   /\ Rescheduled(r, t).state = r.state
                   /\ Rescheduled(r, t).attempts = r.attempts
         /\ \A t : /\ ClaimedRow(r, t).state = "resolving"
                   /\ ClaimedRow(r, t).attempts = r.attempts + 1
         /\ Aged(r).state = r.state /\ Aged(r).attempts = r.attempts
  BY DEF SetResolved, MarkCompleted, MarkFailed, MarkCancelled, MarkAwaitingTarget,
         Requeue, Rescheduled, ClaimedRow, Aged, Moved, MkRow

\* The steps of a worker that holds job j.
LEMMA HoldingMoves ==
  ASSUME TypeOK, NEW w \in Workers, NEW j, j = worker[w].job,
         \/ Resolved(w) \/ AttemptFails(w) \/ AttemptRetries(w)
         \/ CutOff(w) \/ ForwardTimesOut(w)
         \/ Forwarded(w) \/ ParkForPolling(w)
         \/ PollAgain(w) \/ PollFails(w) \/ PollDone(w)
         \/ FetchAgain(w) \/ FetchFails(w) \/ FetchCompletes(w)
         \/ ReschedulePoll(w)
  PROVE  /\ j \in Jobs
         /\ \/ \A i \in Jobs : Same(i)
            \/ Moves(j, {"resolving"}, "forwarding")
            \/ Moves(j, Live, "failed")
            \/ Moves(j, Live, "received") /\ worker[w].pc \in Attempting
            \/ Moves(j, {"forwarding"}, "awaiting_target") /\ j \in PollJobs
            \/ Moves(j, Live, "completed") /\ worker[w].pc = "forwarding" /\ j \notin PollJobs
            \/ Moves(j, Live, "completed") /\ worker[w].pc = "fetching"
  <1> DEFINE G == \/ \A i \in Jobs : Same(i)
                  \/ Moves(j, {"resolving"}, "forwarding")
                  \/ Moves(j, Live, "failed")
                  \/ Moves(j, Live, "received") /\ worker[w].pc \in Attempting
                  \/ Moves(j, {"forwarding"}, "awaiting_target") /\ j \in PollJobs
                  \/ Moves(j, Live, "completed") /\ worker[w].pc = "forwarding" /\ j \notin PollJobs
                  \/ Moves(j, Live, "completed") /\ worker[w].pc = "fetching"
  <1>0. j \in Jobs
    <2>1. worker[w].pc \in Attempting \cup Ticking
      BY DEF Resolved, AttemptFails, AttemptRetries, CutOff, ForwardTimesOut, Forwarded,
             ParkForPolling, PollAgain, PollFails, PollDone, FetchAgain,
             FetchFails, FetchCompletes, ReschedulePoll
    <2> QED BY <2>1, HeldJob
  <1>S. job' = job => \A i \in Jobs : Same(i)
    BY DEF Same
  <1>1. ASSUME NEW k, Fail(w, k) PROVE job' = job \/ Moves(j, Live, "failed")
    <2>1. Write(w, j, Live, MarkFailed(job[j]), k, k)
      BY <1>1 DEF Fail
    <2>2. MarkFailed(job[j]).state = "failed" /\ MarkFailed(job[j]).attempts = job[j].attempts
      BY OutcomeRows
    <2>3. job' = job \/ Moves(j, Live \cap Live, MarkFailed(job[j]).state)
      BY <1>0, <2>1, <2>2, WriteMoves
    <2> QED BY <2>2, <2>3
  <1>2. ASSUME NEW k, Complete(w, k) PROVE job' = job \/ Moves(j, Live, "completed")
    <2>1. Write(w, j, Live, MarkCompleted(job[j]), k, k)
      BY <1>2 DEF Complete
    <2>2. /\ MarkCompleted(job[j]).state = "completed"
          /\ MarkCompleted(job[j]).attempts = job[j].attempts
      BY OutcomeRows
    <2>3. job' = job \/ Moves(j, Live \cap Live, MarkCompleted(job[j]).state)
      BY <1>0, <2>1, <2>2, WriteMoves
    <2> QED BY <2>2, <2>3
  <1>3. ASSUME RetryOrFail(w)
        PROVE  job' = job \/ Moves(j, Live, "failed") \/ Moves(j, Live, "received")
    <2>1. CASE worker[w].attempts >= MaxAttempts
      BY <1>1, <1>3, <2>1 DEF RetryOrFail
    <2>2. CASE ~(worker[w].attempts >= MaxAttempts)
      <3>1. PICK b \in Backoffs : Write(w, j, Live, Requeue(job[j], b), Idle, Idle)
        BY <1>3, <2>2 DEF RetryOrFail
      <3>2. Requeue(job[j], b).state = "received" /\ Requeue(job[j], b).attempts = job[j].attempts
        BY OutcomeRows
      <3>3. job' = job \/ Moves(j, Live \cap Live, Requeue(job[j], b).state)
        BY <1>0, <3>1, <3>2, WriteMoves
      <3> QED BY <3>2, <3>3
    <2> QED BY <2>1, <2>2
  <1>4. CASE Resolved(w)
    <2>1. Write(w, j, {"resolving"}, SetResolved(job[j]), Proceed(w, "forwarding"), Idle)
      BY <1>4 DEF Resolved
    <2>2. SetResolved(job[j]).state = "forwarding" /\ SetResolved(job[j]).attempts = job[j].attempts
      BY OutcomeRows
    <2>3. job' = job \/ Moves(j, Live \cap {"resolving"}, SetResolved(job[j]).state)
      BY <1>0, <2>1, <2>2, WriteMoves
    <2>4. Live \cap {"resolving"} = {"resolving"}
      OBVIOUS
    <2> QED BY <1>0, <1>S, <2>2, <2>3, <2>4
  <1>5. CASE AttemptFails(w) \/ PollFails(w) \/ FetchFails(w)
    BY <1>0, <1>S, <1>1, <1>5 DEF AttemptFails, PollFails, FetchFails
  <1>6. CASE AttemptRetries(w)
    BY <1>0, <1>S, <1>3, <1>6 DEF AttemptRetries
  <1>7. CASE ForwardTimesOut(w)
    BY <1>0, <1>S, <1>1, <1>3, <1>7 DEF ForwardTimesOut
  <1>8. CASE Forwarded(w)
    BY <1>0, <1>S, <1>2, <1>8 DEF Forwarded
  <1>9. CASE ParkForPolling(w)
    <2> DEFINE r == MarkAwaitingTarget(job[j], Interval, PollTimeout)
    <2>1. Write(w, j, {"forwarding"}, r, Idle, Idle) /\ j \in PollJobs
      BY <1>9 DEF ParkForPolling
    <2>2. r.state = "awaiting_target" /\ r.attempts = job[j].attempts
      BY OutcomeRows
    <2> HIDE DEF r
    <2>3. job' = job \/ Moves(j, Live \cap {"forwarding"}, r.state)
      BY <1>0, <2>1, <2>2, WriteMoves
    <2>4. Live \cap {"forwarding"} = {"forwarding"}
      OBVIOUS
    <2> QED BY <1>0, <1>S, <2>1, <2>2, <2>3, <2>4
  <1>10. CASE CutOff(w) \/ PollAgain(w) \/ PollDone(w) \/ FetchAgain(w)
    BY <1>0, <1>S, <1>10 DEF CutOff, PollAgain, PollDone, FetchAgain
  <1>11. CASE FetchCompletes(w)
    BY <1>0, <1>S, <1>2, <1>11 DEF FetchCompletes
  <1>12. CASE ReschedulePoll(w)
    <2> DEFINE r == Rescheduled(job[j], Interval)
    <2>1. job' = job \/ job' = [job EXCEPT ![j] = r]
      BY <1>12 DEF ReschedulePoll, Write
    <2>2. r.state = job[j].state /\ r.attempts = job[j].attempts
      BY DEF Rescheduled, MkRow
    <2> HIDE DEF r
    <2> QED BY <1>0, <1>S, <2>1, <2>2 DEF Same, TypeOK
  <1> QED BY <1>4, <1>5, <1>6, <1>7, <1>8, <1>9, <1>10, <1>11, <1>12

\* The jobs in S, all in flight, go back to received.
Returns(S) ==
  \A i \in Jobs : IF i \in S
                  THEN /\ job[i].state \in InFlight /\ job'[i].state = "received"
                       /\ job'[i].attempts = job[i].attempts
                  ELSE Same(i)

\* Who may begin an attempt of j, end one, and return j to the queue.
Offered(j) ==
  \E w \in Workers : /\ worker[w].pc = "claiming"
                     /\ snap[w][j].state = "received"
                     /\ snap[w][j].attempts < MaxAttempts
Answered(j) ==
  \E w \in Workers : /\ worker[w].job = j
                     /\ \/ worker[w].pc = "forwarding" /\ j \notin PollJobs
                        \/ worker[w].pc = "fetching"
GivenUp(j) ==
  j \in rescue \/ \E w \in Workers : worker[w].pc \in Attempting /\ worker[w].job = j

\* A request not submitted yet counts no attempts, and only a job of a
\* poll-mode target waits for its target.
TableSound ==
  \A j \in Jobs : /\ job[j].state = NoRow => job[j].attempts = 0
                  /\ job[j].state = "awaiting_target" => j \in PollJobs

\* Everything a step of the queue may do to the table.
RowChange(j) ==
  \/ Begins(j) /\ Offered(j)
  \/ Moves(j, {NoRow}, "received")
  \/ Moves(j, {"resolving"}, "forwarding")
  \/ Moves(j, {"forwarding"}, "awaiting_target") /\ j \in PollJobs
  \/ Moves(j, Live, "completed") /\ Answered(j)
  \/ Moves(j, Live, "failed")
  \/ Moves(j, Waiting, "cancelled")
  \/ Moves(j, Live, "received") /\ GivenUp(j)

TableStep ==
  \/ \A i \in Jobs : Same(i)
  \/ \E j \in Jobs : RowChange(j)
  \/ \E S \in SUBSET Jobs : Returns(S)

LEMMA HoldingTable ==
  ASSUME TypeOK, NEW w \in Workers,
         \/ Resolved(w) \/ AttemptFails(w) \/ AttemptRetries(w)
         \/ CutOff(w) \/ ForwardTimesOut(w)
         \/ Forwarded(w) \/ ParkForPolling(w)
         \/ PollAgain(w) \/ PollFails(w) \/ PollDone(w)
         \/ FetchAgain(w) \/ FetchFails(w) \/ FetchCompletes(w)
         \/ ReschedulePoll(w)
  PROVE  TableStep
  <1>1. PICK j : j = worker[w].job
    OBVIOUS
  <1>2. /\ j \in Jobs
        /\ \/ \A i \in Jobs : Same(i)
           \/ Moves(j, {"resolving"}, "forwarding")
           \/ Moves(j, Live, "failed")
           \/ Moves(j, Live, "received") /\ worker[w].pc \in Attempting
           \/ Moves(j, {"forwarding"}, "awaiting_target") /\ j \in PollJobs
           \/ Moves(j, Live, "completed") /\ worker[w].pc = "forwarding" /\ j \notin PollJobs
           \/ Moves(j, Live, "completed") /\ worker[w].pc = "fetching"
    BY <1>1, HoldingMoves
  <1>3. worker[w].pc \in Attempting => GivenUp(j)
    BY <1>1 DEF GivenUp
  <1>4. (worker[w].pc = "forwarding" /\ j \notin PollJobs) \/ worker[w].pc = "fetching"
          => Answered(j)
    BY <1>1 DEF Answered
  <1>5. (\A i \in Jobs : Same(i)) \/ RowChange(j)
    BY <1>2, <1>3, <1>4 DEF RowChange
  <1> QED BY <1>2, <1>5 DEF TableStep

\* The steps of a claim.
LEMMA ClaimingTable ==
  ASSUME TypeOK, NEW w \in Workers, NEW j \in Jobs,
         FailExhausted(w, j) \/ ClaimReceived(w, j) \/ ClaimPollTick(w, j)
  PROVE  TableStep
  <1>0. job' = job => TableStep
    BY DEF TableStep, Same
  <1>1. CASE FailExhausted(w, j)
    <2>1. CASE Accepts(job[j], {"received"}) /\ job' = [job EXCEPT ![j] = MarkFailed(job[j])]
      <3>1. Moves(j, Live, "failed")
        BY <2>1, OutcomeRows DEF Accepts, Moves, Same, TypeOK
      <3> QED BY <3>1 DEF RowChange, TableStep
    <2> QED BY <1>0, <1>1, <2>1 DEF FailExhausted
  <1>2. CASE ClaimReceived(w, j)
    <2>1. CASE CanClaim(w, j) /\ job' = [job EXCEPT ![j] = ClaimedRow(job[j], Since(w))]
      <3>1. job[j].next <= 0
        <4>1. worker[w].left \in Int /\ worker[w].left <= 0 /\ job[j].next \in Int
          BY <1>2 DEF ClaimReceived, TypeOK, WorkerStates, Row
        <4>2. job[j].next <= -(-worker[w].left)
          BY <2>1 DEF CanClaim, Since
        <4> QED BY <4>1, <4>2
      <3>2. /\ job'[j].state = "resolving" /\ job'[j].attempts = job[j].attempts + 1
            /\ \A i \in Jobs \ {j} : job'[i] = job[i]
        BY <2>1 DEF TypeOK, ClaimedRow, MkRow
      <3>3. Begins(j)
        BY <2>1, <3>1, <3>2 DEF CanClaim, Begins, Same
      <3>4. Offered(j)
        BY <1>2 DEF ClaimReceived, Offered
      <3> QED BY <3>3, <3>4 DEF RowChange, TableStep
    <2> QED BY <1>0, <1>2, <2>1 DEF ClaimReceived
  <1>3. CASE ClaimPollTick(w, j)
    <2>1. CASE job' = [job EXCEPT ![j] = Leased(w, j)]
      <3>1. /\ job'[j].state = job[j].state /\ job'[j].attempts = job[j].attempts
            /\ \A i \in Jobs \ {j} : job'[i] = job[i]
        BY <2>1 DEF TypeOK, Leased, Rescheduled, MkRow
      <3> QED BY <3>1 DEF TableStep, Same
    <2> QED BY <1>0, <1>3, <2>1 DEF ClaimPollTick
  <1> QED BY <1>1, <1>2, <1>3

\* The steps of the sweeper, the clients, the operator and the clock.
LEMMA SurroundingTable ==
  ASSUME TypeOK, TableSound,
         \/ SelectStuck \/ (\E j \in Jobs : RescueOne(j))
         \/ \E j \in Jobs : (\E d \in Delays : Submit(j, d)) \/ ReadToCancel(j) \/ CancelJob(j)
         \/ \E t \in JobTimeouts : Reload(t)
         \/ Crash \/ BeginShutdown \/ FinishShutdown \/ Restart
         \/ Tick
  PROVE  TableStep
  <1>0. job' = job => TableStep
    BY DEF TableStep, Same
  <1>1. CASE \E j \in Jobs : RescueOne(j)
    <2>1. PICK j \in Jobs : RescueOne(j)
      BY <1>1
    <2>2. CASE Accepts(job[j], Live) /\ job' = [job EXCEPT ![j] = Requeue(job[j], Null)]
      <3>1. /\ job'[j].state = "received" /\ job'[j].attempts = job[j].attempts
            /\ \A i \in Jobs \ {j} : job'[i] = job[i]
        BY <2>2 DEF TypeOK, Requeue, Moved, MkRow
      <3>2. Moves(j, Live, "received")
        BY <2>2, <3>1 DEF Accepts, Moves, Same
      <3>3. GivenUp(j)
        BY <2>1 DEF RescueOne, GivenUp
      <3> QED BY <3>2, <3>3 DEF RowChange, TableStep
    <2> QED BY <1>0, <2>1, <2>2 DEF RescueOne
  <1>2. CASE \E j \in Jobs : \E d \in Delays : Submit(j, d)
    <2>1. PICK j \in Jobs, d \in Delays : Submit(j, d)
      BY <1>2
    <2>2. job[j].state = NoRow /\ job' = [job EXCEPT ![j] = Inserted(d)] /\ job[j].attempts = 0
      BY <2>1 DEF Submit, TableSound
    <2>3. Moves(j, {NoRow}, "received")
      BY <2>2 DEF Moves, Same, TypeOK, Inserted, MkRow
    <2> QED BY <2>3 DEF RowChange, TableStep
  <1>3. CASE \E j \in Jobs : CancelJob(j)
    <2>1. PICK j \in Jobs : CancelJob(j)
      BY <1>3
    <2>2. CASE Accepts(job[j], Waiting) /\ job' = [job EXCEPT ![j] = MarkCancelled(job[j])]
      <3>1. Moves(j, Waiting, "cancelled")
        BY <2>2, OutcomeRows DEF Accepts, Moves, Same, TypeOK
      <3> QED BY <3>1 DEF RowChange, TableStep
    <2> QED BY <1>0, <2>1, <2>2 DEF CancelJob
  <1>4. CASE Restart
    <2> DEFINE interrupted == {i \in Jobs : job[i].state \in InFlight}
               waiting == {i \in Jobs : job[i].state = "awaiting_target"}
    <2>1. PICK r \in SUBSET interrupted, p \in SUBSET waiting,
               at \in [Jobs -> 0 .. Interval - 1] :
            job' = [i \in Jobs |-> Restarted(i, r, p, at)]
      BY <1>4, Zenon DEF Restart
    <2>2. ASSUME NEW i \in Jobs
          PROVE  IF i \in r
                 THEN /\ job[i].state \in InFlight /\ job'[i].state = "received"
                      /\ job'[i].attempts = job[i].attempts
                 ELSE Same(i)
      <3>1. job'[i] = Restarted(i, r, p, at)
        BY <2>1
      <3>2. CASE i \in r
        BY <3>1, <3>2 DEF Restarted, Requeue, Moved, MkRow
      <3>3. CASE i \notin r
        BY <3>1, <3>3 DEF Restarted, Rescheduled, MkRow, Same
      <3> QED BY <3>2, <3>3
    <2>3. r \in SUBSET Jobs /\ Returns(r)
      BY <2>2 DEF Returns
    <2> QED BY <2>3 DEF TableStep
  <1>5. CASE Tick
    <2>1. \A i \in Jobs : job'[i] = Aged(job[i])
      BY <1>5 DEF Tick
    <2>2. ASSUME NEW i \in Jobs PROVE Same(i)
      <3>1. Aged(job[i]).state = job[i].state /\ Aged(job[i]).attempts = job[i].attempts
        BY DEF Aged, MkRow
      <3> QED BY <2>1, <3>1 DEF Same
    <2> QED BY <2>2 DEF TableStep
  <1>6. CASE \/ SelectStuck \/ (\E j \in Jobs : ReadToCancel(j)) \/ (\E t \in JobTimeouts : Reload(t))
             \/ Crash \/ BeginShutdown \/ FinishShutdown
    BY <1>0, <1>6 DEF SelectStuck, ReadToCancel, Reload, Crash, BeginShutdown, FinishShutdown
  <1> QED BY <1>1, <1>2, <1>3, <1>4, <1>5, <1>6

\* No step changes the table otherwise.
LEMMA StepChangesTable ==
  ASSUME TypeOK, TableSound, [Next]_vars PROVE TableStep
  <1>1. CASE UNCHANGED vars
    BY <1>1 DEF vars, TableStep, Same
  <1>2. ASSUME NEW w \in Workers, WorkerStep(w) PROVE TableStep
    <2>1. CASE StartClaim(w) \/ AbortClaim(w)
      BY <2>1 DEF StartClaim, AbortClaim, TableStep, Same
    <2>2. CASE \E j \in Jobs : FailExhausted(w, j) \/ ClaimReceived(w, j) \/ ClaimPollTick(w, j)
      BY <2>2, ClaimingTable
    <2> QED BY <1>2, <2>1, <2>2, HoldingTable DEF WorkerStep
  <1>3. CASE \/ SelectStuck \/ (\E j \in Jobs : RescueOne(j))
             \/ \E j \in Jobs : (\E d \in Delays : Submit(j, d)) \/ ReadToCancel(j) \/ CancelJob(j)
             \/ \E t \in JobTimeouts : Reload(t)
             \/ Crash \/ BeginShutdown \/ FinishShutdown \/ Restart
             \/ Tick
    BY <1>3, SurroundingTable
  <1> QED BY <1>1, <1>2, <1>3 DEF Next

LEMMA TableSoundStep ==
  ASSUME TypeOK, TableSound, TableStep PROVE TableSound'
  <1>1. CASE \A i \in Jobs : Same(i)
    BY <1>1 DEF Same, TableSound
  <1>2. ASSUME NEW j \in Jobs, RowChange(j) PROVE TableSound'
    <2>1. \A i \in Jobs \ {j} : Same(i)
      BY <1>2 DEF RowChange, Moves, Begins
    <2>2. \/ job'[j].state \in States \ {NoRow, "awaiting_target"}
          \/ job'[j].state = "awaiting_target" /\ j \in PollJobs
      BY <1>2 DEF RowChange, Moves, Begins
    <2> QED BY <2>1, <2>2 DEF Same, TableSound
  <1>3. ASSUME NEW S \in SUBSET Jobs, Returns(S) PROVE TableSound'
    BY <1>3 DEF Returns, Same, TableSound
  <1> QED BY <1>1, <1>2, <1>3 DEF TableStep

\* The table and its types hold together, whatever the timing.
LEMMA TableHolds == Spec => [](TypeOK /\ TableSound)
  <1>1. Init => TypeOK /\ TableSound
    <2>1. Init => TableSound
      BY DEF Init, TableSound, Absent, MkRow
    <2> QED BY <2>1, InitType
  <1>2. TypeOK /\ TableSound /\ [Next]_vars => (TypeOK /\ TableSound)'
    BY TypeInductive, StepChangesTable, TableSoundStep
  <1> QED BY <1>1, <1>2, PTL DEF Spec

\* A claim never begins an attempt before the job's backoff or not_before is
\* over, whatever list it read before (claimReceived compares
\* next_attempt_at with its own now, which lies in the past).
THEOREM NoEarlyClaim == Spec => BackoffHonoured
  <1>1. ASSUME TypeOK, TableSound, [Next]_vars, NEW j \in Jobs,
               job[j].state = "received", job'[j].state = "resolving"
        PROVE  job[j].next <= 0
    <2>1. TableStep
      BY <1>1, StepChangesTable
    <2>2. ~ \A i \in Jobs : Same(i)
      BY <1>1 DEF Same
    <2>3. ASSUME NEW S \in SUBSET Jobs PROVE ~Returns(S)
      BY <1>1, <2>3 DEF Returns, Same
    <2>4. PICK i \in Jobs : RowChange(i)
      BY <2>1, <2>2, <2>3 DEF TableStep
    <2>5. i = j
      BY <1>1, <2>4 DEF RowChange, Moves, Begins, Same
    <2>6. Begins(j)
      BY <1>1, <2>4, <2>5 DEF RowChange, Moves
    <2> QED BY <2>6 DEF Begins
  <1>2. TypeOK /\ TableSound /\ [Next]_vars =>
          [\A j \in Jobs :
             job[j].state = "received" /\ job'[j].state = "resolving" => job[j].next <= 0]_vars
    BY <1>1
  <1> QED BY <1>2, TableHolds, PTL DEF Spec, BackoffHonoured

\* A client's jobs in flight never exceed its ceiling, however many claims
\* run from lists read before (claimReceived counts in its own transaction).
THEOREM CeilingHolds == Spec => []CeilingRespected
  <1>1. \A c \in Clients : IsFiniteSet(Busy(c)) /\ Cardinality(Busy(c)) \in Nat
    <2>1. \A c : Busy(c) \subseteq Jobs
      BY DEF Busy
    <2> QED BY <2>1, TypeAssumption, FS_Subset, FS_CardinalityType
  <1>2. Init => CeilingRespected
    <2>1. ASSUME Init, NEW c \in Clients PROVE Busy(c) = {}
      BY <2>1 DEF Init, Busy, Absent, MkRow
    <2>2. MaxConcurrent \in Nat /\ Cardinality({}) = 0
      BY TypeAssumption, FS_EmptySet
    <2> QED BY <2>1, <2>2 DEF CeilingRespected
  <1>3. ASSUME CeilingRespected, TableStep PROVE CeilingRespected'
    <2> SUFFICES ASSUME MaxConcurrent > 0, NEW c \in Clients
                 PROVE  Cardinality(Busy(c)') <= MaxConcurrent
      BY DEF CeilingRespected
    <2>1. /\ Cardinality(Busy(c)) <= MaxConcurrent /\ MaxConcurrent \in Nat
          /\ Cardinality(Busy(c)) \in Nat /\ IsFiniteSet(Busy(c))
      BY <1>1, <1>3, TypeAssumption DEF CeilingRespected
    <2>2. CASE Busy(c)' \subseteq Busy(c)
      <3>1. Cardinality(Busy(c)') <= Cardinality(Busy(c)) /\ Cardinality(Busy(c)') \in Nat
        BY <2>1, <2>2, FS_Subset, FS_CardinalityType
      <3> QED BY <2>1, <3>1
    <2>3. ASSUME NEW j \in Jobs, Begins(j), ClientOf[j] = c
          PROVE  Cardinality(Busy(c)') <= MaxConcurrent
      <3>1. j \notin Busy(c) /\ Busy(c)' = Busy(c) \cup {j}
        BY <2>3 DEF Begins, Busy, Same
      <3>2. Cardinality(Busy(c)) < MaxConcurrent
        BY <2>1, <2>3 DEF Begins, HasRoom
      <3>3. Cardinality(Busy(c)') = Cardinality(Busy(c)) + 1
        BY <2>1, <3>1, FS_AddElement
      <3> QED BY <2>1, <3>2, <3>3
    <2>4. ASSUME NEW j \in Jobs, RowChange(j), ~(Begins(j) /\ ClientOf[j] = c)
          PROVE  Busy(c)' \subseteq Busy(c)
      <3>1. CASE Begins(j)
        BY <2>4, <3>1 DEF Begins, Busy, Same
      <3>2. CASE ~Begins(j)
        <4>1. \A i \in Jobs \ {j} : Same(i)
          BY <2>4, <3>2 DEF RowChange, Moves
        <4>2. job'[j].state \in InFlight => job[j].state \in InFlight
          BY <2>4, <3>2 DEF RowChange, Moves
        <4> QED BY <4>1, <4>2 DEF Busy, Same
      <3> QED BY <3>1, <3>2
    <2>5. CASE \A i \in Jobs : Same(i)
      <3>1. Busy(c)' \subseteq Busy(c)
        BY <2>5 DEF Same, Busy
      <3> QED BY <2>2, <3>1
    <2>6. ASSUME NEW S \in SUBSET Jobs, Returns(S) PROVE Busy(c)' \subseteq Busy(c)
      BY <2>6 DEF Returns, Same, Busy
    <2> QED BY <1>3, <2>2, <2>3, <2>4, <2>5, <2>6 DEF TableStep
  <1>4. TypeOK /\ TableSound /\ CeilingRespected /\ [Next]_vars => CeilingRespected'
    BY <1>3, StepChangesTable
  <1> QED BY <1>2, <1>4, TableHolds, PTL DEF Spec
-----------------------------------------------------------------------------
(* The lifecycle clients see.                                              *)

\* Under the queue's invariant a table step is a step of the lifecycle.
LEMMA LifecycleStep ==
  ASSUME TypeOK, TableSound, QueueInv, TableStep
  PROVE  [Lifecycle!Next]_(Lifecycle!vars)
  <1> DEFINE st == [i \in Jobs |-> job[i].state]
             at == [i \in Jobs |-> job[i].attempts]
  <1>1. CASE \A i \in Jobs : Same(i)
    <2>1. st' = st /\ at' = at
      BY <1>1 DEF Same
    <2> QED BY <2>1 DEF Lifecycle!vars
  <1>2. ASSUME NEW S \in SUBSET Jobs, Returns(S) PROVE Lifecycle!Next
    <2>1. Lifecycle!Return(S)
      <3>1. \A i \in S : st[i] \in {"resolving", "forwarding"}
        BY <1>2 DEF Returns
      <3>2. st' = [i \in Jobs |-> IF i \in S THEN "received" ELSE st[i]]
        BY <1>2 DEF Returns, Same
      <3>3. at' = at
        BY <1>2 DEF Returns, Same
      <3> QED BY <3>1, <3>2, <3>3 DEF Lifecycle!Return
    <2> QED BY <2>1 DEF Lifecycle!Next
  <1>3. ASSUME NEW j \in Jobs, NEW from, NEW to, Moves(j, from, to)
        PROVE  Lifecycle!Move(j, from, to)
    <2>1. st[j] \in from
      BY <1>3 DEF Moves
    <2>2. st' = [st EXCEPT ![j] = to]
      BY <1>3 DEF Moves, Same
    <2>3. at' = at
      BY <1>3 DEF Moves, Same
    <2> QED BY <2>1, <2>2, <2>3 DEF Lifecycle!Move
  <1>4. ASSUME NEW j \in Jobs, Begins(j), Offered(j) PROVE Lifecycle!Begin(j)
    <2>1. st[j] = "received" /\ st' = [st EXCEPT ![j] = "resolving"]
      BY <1>4 DEF Begins, Same
    <2>2. at' = [at EXCEPT ![j] = at[j] + 1]
      BY <1>4 DEF Begins, Same
    <2>3. at[j] < MaxAttempts
      BY <1>4 DEF Offered, Begins, QueueInv, FreshCandidates, FreshCand
    <2>4. Lifecycle!Running(ClientOf[j]) = Busy(ClientOf[j])
      BY DEF Lifecycle!Running, Busy
    <2>5. MaxConcurrent > 0 =>
            Lifecycle!Cardinality(Lifecycle!Running(ClientOf[j])) < MaxConcurrent
      <3>1. HasRoom(ClientOf[j]) /\ MaxConcurrent \in Nat
        BY <1>4, TypeAssumption DEF Begins
      <3>2. Lifecycle!Cardinality(Busy(ClientOf[j])) = Cardinality(Busy(ClientOf[j]))
        BY DEF Lifecycle!Cardinality, Cardinality
      <3> QED BY <2>4, <3>1, <3>2 DEF HasRoom
    <2> QED BY <2>1, <2>2, <2>3, <2>5 DEF Lifecycle!Begin
  <1>5. ASSUME NEW j \in Jobs, Moves(j, Live, "completed"), Answered(j)
        PROVE  Lifecycle!Complete(j)
    <2>1. PICK w \in Workers : /\ worker[w].job = j
                               /\ \/ worker[w].pc = "forwarding" /\ j \notin PollJobs
                                  \/ worker[w].pc = "fetching"
      BY <1>5 DEF Answered
    <2>2. HoldsAttempt(w) /\ HoldsLease(w) /\ job[j].state \in Live
      BY <1>5 DEF QueueInv, Moves
    <2>3. job[j].state = IF j \in PollJobs THEN "awaiting_target" ELSE "forwarding"
      BY <2>1, <2>2 DEF HoldsAttempt, HoldsLease, TableSound
    <2>4. Moves(j, {IF j \in PollJobs THEN "awaiting_target" ELSE "forwarding"}, "completed")
      BY <1>5, <2>3 DEF Moves
    <2> QED BY <1>3, <2>4 DEF Lifecycle!Complete
  <1>6. ASSUME NEW j \in Jobs, Moves(j, Live, "received"), GivenUp(j)
        PROVE  Lifecycle!Return({j})
    <2>1. job[j].state \in InFlight
      BY <1>6 DEF GivenUp, QueueInv, Abandoned, HoldsAttempt
    <2>2. /\ \A i \in {j} : st[i] \in {"resolving", "forwarding"}
          /\ st' = [i \in Jobs |-> IF i \in {j} THEN "received" ELSE st[i]]
          /\ at' = at
      BY <1>6, <2>1 DEF Moves, Same
    <2> QED BY <2>2 DEF Lifecycle!Return
  <1>7. ASSUME NEW j \in Jobs, RowChange(j) PROVE Lifecycle!Next
    <2>1. CASE Begins(j) /\ Offered(j)
      BY <1>4, <2>1 DEF Lifecycle!Next
    <2>2. CASE Moves(j, {NoRow}, "received")
      BY <1>3, <2>2 DEF Lifecycle!Next, Lifecycle!Accept
    <2>3. CASE Moves(j, {"resolving"}, "forwarding")
      BY <1>3, <2>3 DEF Lifecycle!Next, Lifecycle!Forward
    <2>4. CASE Moves(j, {"forwarding"}, "awaiting_target") /\ j \in PollJobs
      BY <1>3, <2>4 DEF Lifecycle!Next, Lifecycle!Park
    <2>5. CASE Moves(j, Live, "completed") /\ Answered(j)
      BY <1>5, <2>5 DEF Lifecycle!Next
    <2>6. CASE Moves(j, Live, "failed")
      <3>1. Live = {"received", "resolving", "forwarding", "awaiting_target"}
        OBVIOUS
      <3> QED BY <1>3, <2>6, <3>1 DEF Lifecycle!Next, Lifecycle!Fail
    <2>7. CASE Moves(j, Waiting, "cancelled")
      BY <1>3, <2>7 DEF Lifecycle!Next, Lifecycle!Cancel
    <2>8. CASE Moves(j, Live, "received") /\ GivenUp(j)
      BY <1>6, <2>8 DEF Lifecycle!Next
    <2> QED BY <1>7, <2>1, <2>2, <2>3, <2>4, <2>5, <2>6, <2>7, <2>8 DEF RowChange
  <1> QED BY <1>1, <1>2, <1>7 DEF TableStep

\* The queue implements the lifecycle of docs/architecture.md as clients see
\* it: outcomes are final, every attempt stays within the budget and the
\* ceiling, and a polled job is completed only after it was parked (the
\* guarded writes of store/jobs.go under all of the queue's races).
THEOREM QueueImplementsLifecycle == Timely /\ Spec => ImplementsLifecycle
  <1>1. Init => Lifecycle!Init
    BY DEF Init, Lifecycle!Init, Absent, MkRow
  <1>2. TypeOK /\ TableSound /\ QueueInv /\ [Next]_vars => [Lifecycle!Next]_(Lifecycle!vars)
    BY StepChangesTable, LifecycleStep
  <1> QED BY <1>1, <1>2, TableHolds, InvariantHolds, PTL
          DEF Spec, ImplementsLifecycle, Lifecycle!Spec
-----------------------------------------------------------------------------
(* What only a failing write can break.                                    *)

\* The budget of faults only shrinks; while it is whole, a job cut off on a
\* target without retries has ended, or its worker is about to write so, or
\* has died about to; and a job in flight has its worker.
Ending(j) == job[j].state \in Terminal \/ j \in BeingSaid
Unharmed ==
  /\ faults <= MaxFaults
  /\ cutOff \subseteq NoRetryJobs
  /\ \A j \in cutOff \ unsaid : faults = MaxFaults => Ending(j)
  /\ StrandedOnlyByFault

LEMMA FaultsShrink ==
  ASSUME TypeOK, [Next]_vars
  PROVE  faults' = faults \/ faults' = faults - 1
  <1>1. CASE UNCHANGED vars
    BY <1>1 DEF vars
  <1>2. \A w, j, from, r, then, else :
          Write(w, j, from, r, then, else) => faults' = faults \/ faults' = faults - 1
    BY DEF Write, Fault
  <1>3. ASSUME NEW w \in Workers, WorkerStep(w)
        PROVE  faults' = faults \/ faults' = faults - 1
    <2>1. CASE \/ StartClaim(w) \/ AbortClaim(w) \/ CutOff(w)
               \/ PollAgain(w) \/ PollDone(w) \/ FetchAgain(w)
      BY <2>1 DEF StartClaim, AbortClaim, CutOff, PollAgain, PollDone, FetchAgain
    <2>2. CASE \E j \in Jobs : FailExhausted(w, j) \/ ClaimReceived(w, j) \/ ClaimPollTick(w, j)
      BY <2>2 DEF FailExhausted, ClaimReceived, ClaimPollTick, Fault
    <2>3. CASE \/ Resolved(w) \/ AttemptFails(w) \/ AttemptRetries(w) \/ ForwardTimesOut(w)
               \/ Forwarded(w) \/ ParkForPolling(w) \/ PollFails(w) \/ FetchFails(w)
               \/ FetchCompletes(w) \/ ReschedulePoll(w)
      BY <1>2, <2>3
         DEF Resolved, AttemptFails, AttemptRetries, ForwardTimesOut, Forwarded,
             ParkForPolling, PollFails, FetchFails, FetchCompletes, ReschedulePoll,
             RetryOrFail, Fail, Complete
    <2> QED BY <1>3, <2>1, <2>2, <2>3 DEF WorkerStep
  <1>4. CASE \/ SelectStuck \/ (\E j \in Jobs : RescueOne(j))
             \/ \E j \in Jobs : (\E d \in Delays : Submit(j, d)) \/ ReadToCancel(j) \/ CancelJob(j)
             \/ \E t \in JobTimeouts : Reload(t)
             \/ Crash \/ BeginShutdown \/ FinishShutdown \/ Restart
             \/ Tick
    BY <1>4 DEF SelectStuck, RescueOne, Submit, ReadToCancel, CancelJob, Reload, Crash,
                BeginShutdown, FinishShutdown, Restart, Tick, Fault
  <1> QED BY <1>1, <1>3, <1>4 DEF Next

\* A write the holder of an attempt makes without a fault is accepted.
LEMMA HolderWrites ==
  ASSUME TypeOK, NEW w \in Workers, NEW j \in Jobs, NEW from, NEW r, NEW then, NEW else,
         Write(w, j, from, r, then, else), faults' = faults,
         job[j].state \in Live \cap from
  PROVE  job'[j] = r /\ worker'[w] = then
  <1>1. ~Fault
    BY DEF Fault, TypeOK
  <1> QED BY <1>1 DEF Write, Accepts, TypeOK

\* Without a fault the last step of an attempt takes its job out of flight,
\* and a resolved job is forwarded by the same worker.
LEMMA AttemptHandsOver ==
  ASSUME TypeOK, QueueInv, NEW w \in Workers, NEW j, j = worker[w].job,
         faults' = faults,
         \/ Resolved(w) \/ AttemptFails(w) \/ AttemptRetries(w)
         \/ CutOff(w) \/ ForwardTimesOut(w)
         \/ Forwarded(w) \/ ParkForPolling(w)
  PROVE  /\ worker[w].pc \in Attempting
         /\ \A v \in Workers \ {w} : worker'[v] = worker[v]
         /\ \/ job'[j].state \notin InFlight
            \/ worker'[w].pc = "forwarding" /\ worker'[w].job = j
         /\ ForwardTimesOut(w) /\ j \in NoRetryJobs => job'[j].state = "failed"
  <1>1. worker[w].pc \in Attempting
    BY DEF Resolved, AttemptFails, AttemptRetries, CutOff, ForwardTimesOut, Forwarded, ParkForPolling
  <1>2. j \in Jobs /\ job[j].state = worker[w].pc
    BY <1>1, HeldJob DEF QueueInv, HoldsAttempt
  <1>3. \A i, from, r, then, else :
          Write(w, i, from, r, then, else) => \A v \in Workers \ {w} : worker'[v] = worker[v]
    BY DEF Write, TypeOK
  <1>4. \A v \in Workers \ {w} : worker'[v] = worker[v]
    <2>1. CASE CutOff(w)
      BY <2>1 DEF CutOff, TypeOK
    <2> QED BY <1>3, <2>1
            DEF Resolved, AttemptFails, AttemptRetries, ForwardTimesOut, Forwarded,
                ParkForPolling, RetryOrFail, Fail, Complete
  <1>5. ASSUME NEW k, Fail(w, k) PROVE job'[j].state = "failed"
    <2>1. Write(w, j, Live, MarkFailed(job[j]), k, k) /\ MarkFailed(job[j]).state = "failed"
      BY <1>5, OutcomeRows DEF Fail
    <2>2. job'[j] = MarkFailed(job[j])
      BY <1>1, <1>2, <2>1, HolderWrites
    <2> QED BY <2>1, <2>2
  <1>6. ASSUME NEW k, Complete(w, k) PROVE job'[j].state = "completed"
    <2>1. /\ Write(w, j, Live, MarkCompleted(job[j]), k, k)
          /\ MarkCompleted(job[j]).state = "completed"
      BY <1>6, OutcomeRows DEF Complete
    <2>2. job'[j] = MarkCompleted(job[j])
      BY <1>1, <1>2, <2>1, HolderWrites
    <2> QED BY <2>1, <2>2
  <1>7. ASSUME RetryOrFail(w) PROVE job'[j].state \in {"failed", "received"}
    <2>1. CASE worker[w].attempts >= MaxAttempts
      BY <1>5, <1>7, <2>1 DEF RetryOrFail
    <2>2. CASE ~(worker[w].attempts >= MaxAttempts)
      <3>1. PICK b \in Backoffs : Write(w, j, Live, Requeue(job[j], b), Idle, Idle)
        BY <1>7, <2>2 DEF RetryOrFail
      <3>2. Requeue(job[j], b).state = "received"
        BY DEF Requeue, Moved, MkRow
      <3>3. job'[j] = Requeue(job[j], b)
        BY <1>1, <1>2, <3>1, HolderWrites
      <3> QED BY <3>2, <3>3
    <2> QED BY <2>1, <2>2
  <1>8. CASE Resolved(w)
    <2>1. Write(w, j, {"resolving"}, SetResolved(job[j]), Proceed(w, "forwarding"), Idle)
      BY <1>8 DEF Resolved
    <2>2. worker[w].pc = "resolving"
      BY <1>8 DEF Resolved
    <2>3. worker'[w] = Proceed(w, "forwarding")
      BY <1>2, <2>1, <2>2, HolderWrites
    <2>4. worker'[w].pc = "forwarding" /\ worker'[w].job = j
      BY <2>3 DEF Proceed, At
    <2> QED BY <1>1, <1>4, <2>2, <2>4 DEF ForwardTimesOut
  <1>8a. CASE CutOff(w)
    <2>1. worker'[w].pc = "forwarding" /\ worker'[w].job = j /\ ~worker[w].late
      BY <1>8a DEF CutOff, At, TypeOK
    <2> QED BY <1>1, <1>4, <2>1 DEF ForwardTimesOut
  <1>9. CASE AttemptFails(w) \/ AttemptRetries(w) \/ Forwarded(w) \/ ForwardTimesOut(w)
    <2>1. job'[j].state \in {"failed", "received", "completed"}
      BY <1>5, <1>6, <1>7, <1>9 DEF AttemptFails, AttemptRetries, Forwarded, ForwardTimesOut
    <2>2. ForwardTimesOut(w) /\ j \in NoRetryJobs => job'[j].state = "failed"
      BY <1>5 DEF ForwardTimesOut, RetriesOnTimeout
    <2> QED BY <1>1, <1>4, <2>1, <2>2
  <1>10. CASE ParkForPolling(w)
    <2> DEFINE r == MarkAwaitingTarget(job[j], Interval, PollTimeout)
    <2>1. /\ Write(w, j, {"forwarding"}, r, Idle, Idle) /\ r.state = "awaiting_target"
          /\ worker[w].pc = "forwarding"
      BY <1>10 DEF ParkForPolling, MarkAwaitingTarget, MkRow
    <2> HIDE DEF r
    <2>2. job'[j] = r
      BY <1>2, <2>1, HolderWrites
    <2>3. ForwardTimesOut(w) /\ j \in NoRetryJobs => job'[j].state = "failed"
      BY <1>5 DEF ForwardTimesOut, RetriesOnTimeout
    <2> QED BY <1>1, <1>4, <2>1, <2>2, <2>3
  <1> QED BY <1>8, <1>8a, <1>9, <1>10

\* A step that leaves every attempt with its worker strands no job, unless it
\* begins one.
LEMMA NoneStranded ==
  ASSUME TypeOK, StrandedOnlyByFault, faults' = faults,
         process' # "down" => process # "down",
         \A v \in Workers : worker[v].pc \in Attempting =>
           \/ worker'[v].pc \in Attempting /\ worker'[v].job = worker[v].job
           \/ job'[worker[v].job].state \notin InFlight,
         \A j \in Jobs : job'[j].state \in InFlight =>
           \/ job[j].state \in InFlight
           \/ \E v \in Workers : worker'[v].pc \in Attempting /\ worker'[v].job = j
  PROVE  StrandedOnlyByFault'
  <1> SUFFICES ASSUME NEW j \in Jobs, process' # "down", faults' = MaxFaults,
                      job'[j].state \in InFlight
               PROVE  \E v \in Workers : worker'[v].pc \in Attempting /\ worker'[v].job = j
    BY DEF StrandedOnlyByFault
  <1>1. CASE job[j].state \in InFlight
    <2>1. PICK v \in Workers : worker[v].pc \in Attempting /\ worker[v].job = j
      BY <1>1 DEF StrandedOnlyByFault
    <2> QED BY <2>1
  <1> QED BY <1>1

\* The steps of a worker that keep the budget of faults.
LEMMA WorkerStrandsNone ==
  ASSUME TypeOK, QueueInv, StrandedOnlyByFault, faults' = faults,
         NEW w \in Workers, WorkerStep(w)
  PROVE  StrandedOnlyByFault'
  <1>0. process' = process
    BY DEF WorkerStep, StartClaim, AbortClaim, FailExhausted, ClaimReceived, ClaimPollTick,
           Resolved, AttemptFails, AttemptRetries, CutOff, ForwardTimesOut, Forwarded,
           ParkForPolling, PollAgain, PollFails, PollDone, FetchAgain, FetchFails,
           FetchCompletes, ReschedulePoll, control
  <1>1. CASE StartClaim(w) \/ AbortClaim(w)
    <2>1. /\ worker[w].pc \notin Attempting /\ job' = job
          /\ \A v \in Workers \ {w} : worker'[v] = worker[v]
      BY <1>1 DEF StartClaim, AbortClaim, LeaveClaim, TypeOK
    <2> QED BY <1>0, <2>1, NoneStranded
  <1>2. ASSUME NEW j \in Jobs,
               FailExhausted(w, j) \/ ClaimReceived(w, j) \/ ClaimPollTick(w, j)
        PROVE  StrandedOnlyByFault'
    <2>1. ~Fault
      BY DEF Fault, TypeOK
    <2>2. /\ worker[w].pc \notin Attempting
          /\ \A v \in Workers \ {w} : worker'[v] = worker[v]
      BY <1>2 DEF FailExhausted, ClaimReceived, ClaimPollTick, LeaveClaim, SkipCand, TypeOK
    <2>3. CASE ClaimReceived(w, j) /\ CanClaim(w, j)
      <3>1. worker'[w] = At("resolving", j, jobTimeout, job[j].attempts + 1, FALSE)
        BY <2>1, <2>3 DEF ClaimReceived, LeaveClaim, TypeOK
      <3>2. worker'[w].pc \in Attempting /\ worker'[w].job = j
        BY <3>1 DEF At
      <3>3. \A i \in Jobs \ {j} : job'[i] = job[i]
        BY <2>3 DEF ClaimReceived, TypeOK
      <3> QED BY <1>0, <2>2, <3>2, <3>3, NoneStranded
    <2>4. CASE ~(ClaimReceived(w, j) /\ CanClaim(w, j))
      <3>1. \A i \in Jobs : job'[i].state \in InFlight => job[i].state \in InFlight
        <4>1. CASE job' = job
          BY <4>1
        <4>2. CASE job' = [job EXCEPT ![j] = MarkFailed(job[j])]
          <5>1. MarkFailed(job[j]).state = "failed"
            BY OutcomeRows
          <5> QED BY <4>2, <5>1 DEF TypeOK
        <4>3. CASE job' = [job EXCEPT ![j] = Leased(w, j)]
          <5>1. Leased(w, j).state = job[j].state
            BY DEF Leased, Rescheduled, MkRow
          <5> QED BY <4>3, <5>1 DEF TypeOK
        <4> QED BY <1>2, <2>1, <2>4, <4>1, <4>2, <4>3
                DEF FailExhausted, ClaimReceived, ClaimPollTick
      <3> QED BY <1>0, <2>2, <3>1, NoneStranded
    <2> QED BY <2>3, <2>4
  <1>3. CASE \/ Resolved(w) \/ AttemptFails(w) \/ AttemptRetries(w)
             \/ CutOff(w) \/ ForwardTimesOut(w)
             \/ Forwarded(w) \/ ParkForPolling(w)
    <2>1. PICK j : j = worker[w].job
      OBVIOUS
    <2>2. /\ worker[w].pc \in Attempting
          /\ \A v \in Workers \ {w} : worker'[v] = worker[v]
          /\ \/ job'[j].state \notin InFlight
             \/ worker'[w].pc = "forwarding" /\ worker'[w].job = j
      BY <1>3, <2>1, AttemptHandsOver
    <2>3. /\ j \in Jobs
          /\ \A i \in Jobs : job'[i].state \in InFlight => job[i].state \in InFlight
      BY <1>3, <2>1, HoldingMoves DEF Moves, Same
    <2> QED BY <1>0, <2>1, <2>2, <2>3, NoneStranded
  <1>4. CASE \/ PollAgain(w) \/ PollFails(w) \/ PollDone(w)
             \/ FetchAgain(w) \/ FetchFails(w) \/ FetchCompletes(w)
             \/ ReschedulePoll(w)
    <2>1. PICK j : j = worker[w].job
      OBVIOUS
    <2>2. /\ worker[w].pc \notin Attempting
          /\ \A v \in Workers \ {w} : worker'[v] = worker[v]
      BY <1>4 DEF PollAgain, PollFails, PollDone, FetchAgain, FetchFails, FetchCompletes,
                  ReschedulePoll, Fail, Complete, Write, TypeOK
    <2>3. \A i \in Jobs : job'[i].state \in InFlight => job[i].state \in InFlight
      BY <1>4, <2>1, HoldingMoves DEF Moves, Same
    <2> QED BY <1>0, <2>2, <2>3, NoneStranded
  <1> QED BY <1>1, <1>2, <1>3, <1>4 DEF WorkerStep

\* The other steps that keep the budget of faults.
LEMMA SurroundingStrandsNone ==
  ASSUME TypeOK, TableSound, QueueInv, StrandedOnlyByFault, faults' = faults,
         \/ SelectStuck \/ (\E j \in Jobs : RescueOne(j))
         \/ \E j \in Jobs : (\E d \in Delays : Submit(j, d)) \/ ReadToCancel(j) \/ CancelJob(j)
         \/ \E t \in JobTimeouts : Reload(t)
         \/ Crash \/ BeginShutdown \/ FinishShutdown \/ Restart
         \/ Tick
  PROVE  StrandedOnlyByFault'
  <1>1. CASE Crash \/ FinishShutdown
    BY <1>1 DEF Crash, FinishShutdown, Gone, StrandedOnlyByFault
  <1>2. CASE Restart
    <2> DEFINE interrupted == {i \in Jobs : job[i].state \in InFlight}
               waiting == {i \in Jobs : job[i].state = "awaiting_target"}
    <2>1. ~Fault
      BY DEF Fault, TypeOK
    <2>2. PICK r \in SUBSET interrupted, p \in SUBSET waiting,
               at \in [Jobs -> 0 .. Interval - 1] :
            /\ \/ r = interrupted /\ p = waiting /\ UNCHANGED faults
               \/ Fault /\ (r = interrupted \/ p = waiting)
            /\ job' = [i \in Jobs |-> Restarted(i, r, p, at)]
      BY <1>2, Zenon DEF Restart
    <2>3. ASSUME NEW i \in Jobs PROVE job'[i].state \notin InFlight
      <3>1. job'[i] = Restarted(i, interrupted, p, at)
        BY <2>1, <2>2
      <3>2. CASE i \in interrupted
        BY <3>1, <3>2 DEF Restarted, Requeue, Moved, MkRow
      <3>3. CASE i \notin interrupted
        BY <3>1, <3>3 DEF Restarted, Rescheduled, MkRow
      <3> QED BY <3>2, <3>3
    <2> QED BY <2>3 DEF StrandedOnlyByFault
  <1>3. CASE Tick
    <2>1. /\ \A i \in Jobs : job'[i] = Aged(job[i])
          /\ \A v \in Workers : worker'[v] = AgedWorker(worker[v])
          /\ process' = process
      BY <1>3 DEF Tick, control
    <2>2. ASSUME NEW v \in Workers
          PROVE  worker'[v].pc = worker[v].pc /\ worker'[v].job = worker[v].job
      <3>1. worker'[v] = AgedWorker(worker[v])
        BY <2>1
      <3> QED BY <3>1 DEF AgedWorker, At
    <2>3. ASSUME NEW i \in Jobs PROVE job'[i].state = job[i].state
      <3>1. job'[i] = Aged(job[i])
        BY <2>1
      <3> QED BY <3>1 DEF Aged, MkRow
    <2> QED BY <2>1, <2>2, <2>3, NoneStranded
  <1>4. CASE \/ SelectStuck \/ (\E j \in Jobs : RescueOne(j))
             \/ \E j \in Jobs : (\E d \in Delays : Submit(j, d)) \/ ReadToCancel(j) \/ CancelJob(j)
             \/ (\E t \in JobTimeouts : Reload(t)) \/ BeginShutdown
    <2>1. worker' = worker /\ (process' # "down" => process # "down")
      BY <1>4 DEF SelectStuck, RescueOne, Submit, ReadToCancel, CancelJob, Reload,
                  BeginShutdown, control
    <2>2. \A i \in Jobs : job'[i].state \in InFlight => job[i].state \in InFlight
      <3>1. CASE job' = job
        BY <3>1
      <3>2. ASSUME NEW j \in Jobs, NEW r, job' = [job EXCEPT ![j] = r], r.state \notin InFlight
            PROVE  \A i \in Jobs : job'[i].state \in InFlight => job[i].state \in InFlight
        BY <3>2 DEF TypeOK
      <3>3. ASSUME NEW j \in Jobs, NEW d
            PROVE  /\ Inserted(d).state = "received"
                   /\ Requeue(job[j], Null).state = "received"
                   /\ MarkCancelled(job[j]).state = "cancelled"
        BY DEF Inserted, Requeue, MarkCancelled, Moved, MkRow
      <3>4. CASE \E j \in Jobs : RescueOne(j)
        BY <3>1, <3>2, <3>3, <3>4 DEF RescueOne
      <3>5. CASE \E j \in Jobs : \E d \in Delays : Submit(j, d)
        BY <3>2, <3>3, <3>5 DEF Submit
      <3>6. CASE \E j \in Jobs : CancelJob(j)
        BY <3>1, <3>2, <3>3, <3>6 DEF CancelJob
      <3> QED BY <1>4, <3>1, <3>4, <3>5, <3>6 DEF SelectStuck, ReadToCancel, Reload, BeginShutdown
    <2> QED BY <2>1, <2>2, NoneStranded
  <1> QED BY <1>1, <1>2, <1>3, <1>4

\* What a step adds to the histories: a job cut off is being written down.
CutOffGrows ==
  /\ unsaid \subseteq unsaid'
  /\ \A j \in cutOff' \ cutOff : j \in NoRetryJobs /\ j \in BeingSaid'

LEMMA CutOffHistory ==
  ASSUME TypeOK, [Next]_vars
  PROVE  CutOffGrows
  <1>1. CASE cutOff' = cutOff /\ unsaid \subseteq unsaid'
    BY <1>1 DEF CutOffGrows
  <1>2. ASSUME NEW w \in Workers, CutOff(w) PROVE CutOffGrows
    <2>1. worker'[w].pc = "forwarding" /\ worker'[w].late /\ worker'[w].job = worker[w].job
      BY <1>2 DEF CutOff, At, TypeOK
    <2>2. worker[w].job \in BeingSaid'
      BY <2>1 DEF BeingSaid
    <2>3. unsaid' = unsaid /\ cutOff' = cutOff \cup ({worker[w].job} \cap NoRetryJobs)
      BY <1>2 DEF CutOff
    <2> QED BY <2>2, <2>3 DEF CutOffGrows
  <1>3. ASSUME NEW w \in Workers, WorkerStep(w), ~CutOff(w)
        PROVE  cutOff' = cutOff /\ unsaid' = unsaid
    BY <1>3 DEF WorkerStep, history,
           StartClaim, AbortClaim, FailExhausted, ClaimReceived, ClaimPollTick,
           Resolved, AttemptFails, AttemptRetries, ForwardTimesOut, Forwarded, ParkForPolling,
           PollAgain, PollFails, PollDone, FetchAgain, FetchFails, FetchCompletes,
           ReschedulePoll
  <1>4. CASE Crash
    BY <1>1, <1>4 DEF Crash
  <1>5. CASE \/ SelectStuck \/ (\E j \in Jobs : RescueOne(j))
             \/ \E j \in Jobs : (\E d \in Delays : Submit(j, d)) \/ ReadToCancel(j) \/ CancelJob(j)
             \/ (\E t \in JobTimeouts : Reload(t)) \/ BeginShutdown \/ FinishShutdown
             \/ Restart \/ Tick \/ UNCHANGED vars
    <2>1. cutOff' = cutOff /\ unsaid' = unsaid
      BY <1>5 DEF history, vars, SelectStuck, RescueOne, Submit, ReadToCancel, CancelJob,
                  Reload, BeginShutdown, FinishShutdown, Restart, Tick
    <2> QED BY <1>1, <2>1
  <1> QED BY <1>1, <1>2, <1>3, <1>4, <1>5 DEF Next

\* Without a fault, a cut-off about to be written is written, unless the
\* process dies.
LEMMA SayingEnds ==
  ASSUME TypeOK, QueueInv, [Next]_vars, faults' = faults,
         NEW j \in Jobs, j \in NoRetryJobs, j \in BeingSaid, j \notin unsaid'
  PROVE  job'[j].state \in Terminal \/ j \in BeingSaid'
  <1>1. PICK w \in Workers : worker[w].pc = "forwarding" /\ worker[w].late /\ worker[w].job = j
    BY DEF BeingSaid
  <1>2. CASE worker'[w].pc = "forwarding" /\ worker'[w].late /\ worker'[w].job = j
    BY <1>2 DEF BeingSaid
  <1>3. CASE worker' = worker
    BY <1>1, <1>2, <1>3
  <1>4. CASE Crash
    BY <1>4 DEF Crash
  <1>5. CASE FinishShutdown
    BY <1>1, <1>5 DEF FinishShutdown
  <1>6. CASE Tick
    <2>1. worker'[w] = AgedWorker(worker[w])
      BY <1>6 DEF Tick
    <2> QED BY <1>1, <1>2, <2>1 DEF AgedWorker, At
  <1>7. ASSUME NEW v \in Workers, WorkerStep(v), v # w
        PROVE  worker'[w] = worker[w]
    BY <1>7 DEF WorkerStep, StartClaim, AbortClaim, FailExhausted, ClaimReceived,
           ClaimPollTick, LeaveClaim, SkipCand, Resolved, AttemptFails, AttemptRetries,
           CutOff, ForwardTimesOut, Forwarded, ParkForPolling, PollAgain, PollFails,
           PollDone, FetchAgain, FetchFails, FetchCompletes, ReschedulePoll, RetryOrFail,
           Fail, Complete, Write, TypeOK
  <1>8. CASE WorkerStep(w)
    <2>1. ForwardTimesOut(w)
      BY <1>1, <1>8 DEF WorkerStep, StartClaim, AbortClaim, FailExhausted, ClaimReceived,
           ClaimPollTick, Resolved, AttemptFails, AttemptRetries, CutOff, Forwarded,
           ParkForPolling, PollAgain, PollFails, PollDone, FetchAgain, FetchFails,
           FetchCompletes, ReschedulePoll
    <2>2. job'[j].state = "failed"
      BY <1>1, <2>1, AttemptHandsOver
    <2> QED BY <2>2
  <1>9. \/ worker' = worker \/ Crash \/ FinishShutdown \/ Tick
        \/ \E v \in Workers : WorkerStep(v)
    BY DEF Next, vars, control, SelectStuck, RescueOne, Submit, ReadToCancel, CancelJob,
           Reload, BeginShutdown, Restart
  <1> QED BY <1>1, <1>2, <1>3, <1>4, <1>5, <1>6, <1>7, <1>8, <1>9

\* Everything that could harm a job needs a fault first.
LEMMA UnharmedStep ==
  ASSUME TypeOK, TableSound, QueueInv, Unharmed, [Next]_vars
  PROVE  Unharmed'
  <1>0. CutOffGrows
    BY CutOffHistory
  <1>0a. cutOff' \subseteq NoRetryJobs
    BY <1>0 DEF CutOffGrows, Unharmed
  <1>1. faults \in Nat /\ MaxFaults \in Nat /\ (faults' = faults \/ faults' = faults - 1)
    BY FaultsShrink, TypeAssumption DEF TypeOK
  <1>2. faults' <= MaxFaults /\ (faults' = MaxFaults => faults' = faults)
    BY <1>1 DEF Unharmed
  <1>3. CASE faults' # MaxFaults
    BY <1>0a, <1>2, <1>3 DEF Unharmed, StrandedOnlyByFault
  <1>4. CASE faults' = MaxFaults
    <2>0. faults' = faults /\ faults = MaxFaults /\ StrandedOnlyByFault
      BY <1>2, <1>4 DEF Unharmed
    <2>1. StrandedOnlyByFault'
      <3>1. CASE UNCHANGED vars
        BY <2>0, <3>1 DEF vars, StrandedOnlyByFault
      <3>2. CASE \E w \in Workers : WorkerStep(w)
        BY <2>0, <3>2, WorkerStrandsNone
      <3>3. CASE ~ UNCHANGED vars /\ ~ \E w \in Workers : WorkerStep(w)
        BY <2>0, <3>3, SurroundingStrandsNone DEF Next
      <3> QED BY <3>1, <3>2, <3>3
    <2>2. ASSUME NEW j \in Jobs, job[j].state \in Terminal PROVE job'[j].state \in Terminal
      <3>1. TableStep
        BY StepChangesTable
      <3>2. ASSUME NEW i \in Jobs, RowChange(i) PROVE i # j /\ Same(j)
        BY <2>2, <3>2 DEF RowChange, Moves, Begins
      <3>3. ASSUME NEW S \in SUBSET Jobs, Returns(S) PROVE Same(j)
        BY <2>2, <3>3 DEF Returns
      <3> QED BY <2>2, <3>1, <3>2, <3>3 DEF TableStep, Same
    <2>3. ASSUME NEW j \in cutOff' \ unsaid' PROVE Ending(j)'
      <3>1. CASE j \notin cutOff
        BY <1>0, <2>3, <3>1 DEF CutOffGrows, Ending
      <3>2. CASE j \in cutOff
        <4>1. j \in Jobs /\ j \notin unsaid /\ j \in NoRetryJobs /\ Ending(j)
          BY <1>0, <2>0, <2>3, <3>2 DEF CutOffGrows, Unharmed, TypeOK
        <4>2. CASE job[j].state \in Terminal
          BY <2>2, <4>1, <4>2 DEF Ending
        <4>3. CASE j \in BeingSaid
          BY <2>0, <2>3, <4>1, <4>3, SayingEnds DEF Ending
        <4> QED BY <4>1, <4>2, <4>3 DEF Ending
      <3> QED BY <3>1, <3>2
    <2>4. \A j \in cutOff' \ unsaid' : Ending(j)'
      BY <2>3
    <2> QED BY <1>0a, <1>2, <2>1, <2>4 DEF Unharmed
  <1> QED BY <1>3, <1>4

LEMMA UnharmedHolds == Timely /\ Spec => []Unharmed
  <1>1. Init => Unharmed
    BY TypeAssumption DEF Init, Unharmed, StrandedOnlyByFault, Absent, MkRow
  <1>2. TypeOK /\ TableSound /\ QueueInv /\ Unharmed /\ [Next]_vars => Unharmed'
    BY UnharmedStep
  <1> QED BY <1>1, <1>2, TableHolds, InvariantHolds, PTL DEF Spec

\* Only a failed write leaves a job in flight with nobody on it while the
\* process runs: claims, hand-overs, shutdowns and restarts strand none
\* (claimReceived, processNew, RecoverInFlight).
THEOREM FaultsAloneStrand == Timely /\ Spec => []StrandedOnlyByFault
  <1>1. Unharmed => StrandedOnlyByFault
    BY DEF Unharmed
  <1> QED BY <1>1, UnharmedHolds, PTL

\* While no write has failed, a forward cut off on a target with
\* retry_on_timeout: false is never submitted again, over any number of
\* rescues, shutdowns, restarts and late workers, unless the process died
\* between the deadline and the write of the failure (forward, failJob).
THEOREM CutOffStaysCutOff == Timely /\ Spec => CutOffNotResubmitted
  <1>1. ASSUME TypeOK, QueueInv, Unharmed, [Next]_vars,
               NEW j \in Jobs, faults = MaxFaults, j \in cutOff \ unsaid
        PROVE  submits'[j] = submits[j]
    <2>1. CASE submits' = submits
      BY <2>1
    <2>2. ASSUME NEW w \in Workers, Resolved(w) PROVE submits'[j] = submits[j]
      <3>1. worker[w].pc = "resolving" /\ job[worker[w].job].state = "resolving"
        BY <1>1, <2>2 DEF Resolved, QueueInv, HoldsAttempt
      <3>2. worker[w].job # j
        <4>1. CASE job[j].state \in Terminal
          BY <3>1, <4>1
        <4>2. CASE j \in BeingSaid
          <5>1. PICK v \in Workers : worker[v].pc = "forwarding" /\ worker[v].job = j
            BY <4>2 DEF BeingSaid
          <5>2. job[j].state = "forwarding"
            BY <1>1, <5>1 DEF QueueInv, HoldsAttempt
          <5> QED BY <3>1, <5>2
        <4> QED BY <1>1, <4>1, <4>2 DEF Unharmed, Ending
      <3> QED BY <1>1, <2>2, <3>2 DEF Resolved, TypeOK
    <2>3. ASSUME NEW w \in Workers, WorkerStep(w), ~Resolved(w) PROVE submits' = submits
      BY <2>3 DEF WorkerStep, history,
             StartClaim, AbortClaim, FailExhausted, ClaimReceived, ClaimPollTick,
             CutOff, ForwardTimesOut, AttemptFails, AttemptRetries, Forwarded, ParkForPolling,
             PollAgain, PollFails, PollDone, FetchAgain, FetchFails, FetchCompletes,
             ReschedulePoll
    <2>4. submits' = submits \/ \E w \in Workers : WorkerStep(w)
      BY <1>1 DEF Next, vars, history, SelectStuck, RescueOne, Submit, ReadToCancel, CancelJob,
             Reload, Crash, BeginShutdown, FinishShutdown, Restart, Tick
    <2> QED BY <2>1, <2>2, <2>3, <2>4
  <1>2. TypeOK /\ QueueInv /\ Unharmed /\ [Next]_vars =>
          [\A j \in Jobs : faults = MaxFaults /\ j \in cutOff \ unsaid =>
             submits'[j] = submits[j]]_vars
    BY <1>1
  <1> QED BY <1>2, TypeCorrect, InvariantHolds, UnharmedHolds, PTL DEF Spec, CutOffNotResubmitted
=============================================================================
