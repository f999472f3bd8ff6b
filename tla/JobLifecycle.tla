---------------------------- MODULE JobLifecycle ----------------------------
(***************************************************************************)
(* What the queue promises about a request, with no workers, clocks,       *)
(* leases or failures in sight: the lifecycle of docs/architecture.md as   *)
(* the code implements it.  JobQueue is shown to implement it.             *)
(***************************************************************************)
EXTENDS Integers, FiniteSets

CONSTANTS Jobs, Clients, ClientOf, PollJobs, MaxAttempts, MaxConcurrent

VARIABLES state, attempts
vars == <<state, attempts>>

Running(c) ==
  {j \in Jobs : ClientOf[j] = c /\ state[j] \in {"resolving", "forwarding"}}

Move(j, from, to) ==
  /\ state[j] \in from
  /\ state' = [state EXCEPT ![j] = to]
  /\ UNCHANGED attempts

Accept(j) == Move(j, {"none"}, "received")

\* One more attempt, within the job's budget and the client's ceiling.
Begin(j) ==
  /\ state[j] = "received"
  /\ attempts[j] < MaxAttempts
  /\ MaxConcurrent > 0 => Cardinality(Running(ClientOf[j])) < MaxConcurrent
  /\ state' = [state EXCEPT ![j] = "resolving"]
  /\ attempts' = [attempts EXCEPT ![j] = @ + 1]

Forward(j) == Move(j, {"resolving"}, "forwarding")
Park(j)    == j \in PollJobs /\ Move(j, {"forwarding"}, "awaiting_target")

\* A target that answers directly completes the job from forwarding, one
\* that is polled only after it was parked.
Complete(j) ==
  Move(j, {IF j \in PollJobs THEN "awaiting_target" ELSE "forwarding"}, "completed")

Fail(j) ==
  Move(j, {"received", "resolving", "forwarding", "awaiting_target"}, "failed")

\* Only a job no worker is processing can be cancelled.
Cancel(j) == Move(j, {"received", "awaiting_target"}, "cancelled")

\* Attempts that did not end the job; a restart returns several at once.
Return(S) ==
  /\ \A j \in S : state[j] \in {"resolving", "forwarding"}
  /\ state' = [j \in Jobs |-> IF j \in S THEN "received" ELSE state[j]]
  /\ UNCHANGED attempts

Init == state = [j \in Jobs |-> "none"] /\ attempts = [j \in Jobs |-> 0]

Next ==
  \/ \E j \in Jobs : \/ Accept(j) \/ Begin(j) \/ Forward(j) \/ Park(j)
                     \/ Complete(j) \/ Fail(j) \/ Cancel(j)
  \/ \E S \in SUBSET Jobs : Return(S)

Spec == Init /\ [][Next]_vars
=============================================================================
