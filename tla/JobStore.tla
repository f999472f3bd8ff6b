------------------------------ MODULE JobStore ------------------------------
(***************************************************************************)
(* The rows of the jobs table and the guarded writes of                    *)
(* internal/store/jobs.go, as operators on one row.  Every write is one    *)
(* immediate SQLite transaction, so a module that uses these operators     *)
(* applies each of them in one step.                                       *)
(*                                                                         *)
(* Time.  A stored timestamp is kept relative to the present: next and     *)
(* deadline say how long until next_attempt_at and poll_deadline (negative *)
(* once past) and age how long since updated_at.  They move with the       *)
(* clock and stop at Horizon, which lies beyond every comparison made.     *)
(* updated_at is read for in-flight rows only (RescueStuck) and            *)
(* poll_deadline for waiting ones only, so both are kept at 0 elsewhere.   *)
(***************************************************************************)
EXTENDS Integers

CONSTANT Horizon    \* where relative times stop changing

InFlight == {"resolving", "forwarding"}
Waiting  == {"received", "awaiting_target"}
Terminal == {"completed", "failed", "cancelled"}
Live     == InFlight \cup Waiting
NoRow    == "none"   \* the job has not been submitted
States   == Live \cup Terminal \cup {NoRow}

\* next_attempt_at IS NULL: every query treats it as due on a received row,
\* and no waiting row ever holds it.
Null == -Horizon

Row == [state    : States,
        attempts : Nat,
        next     : Int,
        age      : Nat,
        deadline : Int]

MkRow(state, attempts, next, age, deadline) ==
  [state |-> state, attempts |-> attempts, next |-> next,
   age |-> age, deadline |-> deadline]

Absent == MkRow(NoRow, 0, Null, 0, 0)

\* The guard of transition: the row exists, is not terminal, and is in one of
\* the states the caller names (anyState names all of Live).
AcceptsTerminal(r, from) ==   \* mutant: anyState also overwrites an outcome
  IF from = Live THEN r.state # NoRow ELSE r.state \in from
Accepts(r, from) == r.state \in Live \cap from

\* buildUpdate: the new state, a fresh updated_at, and next_attempt_at.
Moved(r, to, next) == MkRow(to, r.attempts, next, 0, 0)

\* createJob: a new request, due at once or at not_before.
Inserted(delay) == MkRow("received", 0, IF delay = 0 THEN Null ELSE delay, 0, 0)

\* claimReceived: updated_at is the claim's own "now", taken since ago.
ClaimedRow(r, since) == MkRow("resolving", r.attempts + 1, Null, since, 0)

SetResolvedMisnamed(r) == Moved(r, "forwarded", r.next)  \* mutant: unknown state

SetResolved(r)   == Moved(r, "forwarding", r.next)
MarkCompleted(r) == Moved(r, "completed", Null)
MarkFailed(r)    == Moved(r, "failed", Null)
MarkCancelled(r) == Moved(r, "cancelled", Null)

MarkAwaitingTarget(r, first, limit) ==
  MkRow("awaiting_target", r.attempts, first, 0, limit)

\* Requeue (with a backoff) and requeueAll (with none).
RequeueForgetful(r, delay) == MkRow("received", 0, delay, 0, 0)  \* mutant: attempts reset
Requeue(r, delay) == Moved(r, "received", delay)

\* ReschedulePoll and claimPollTick write next_attempt_at of a waiting row.
Rescheduled(r, at) == MkRow(r.state, r.attempts, at, r.age, r.deadline)

\* One unit of time passes.
Sooner(t) == IF t > -Horizon THEN t - 1 ELSE t
Older(t)  == IF t < Horizon THEN t + 1 ELSE t
Aged(r) ==
  MkRow(r.state, r.attempts, Sooner(r.next),
        IF r.state \in InFlight THEN Older(r.age) ELSE r.age,
        IF r.state = "awaiting_target" THEN Sooner(r.deadline) ELSE r.deadline)
=============================================================================
