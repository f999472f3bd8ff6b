----------------------------- MODULE Submission -----------------------------
(***************************************************************************)
(* Accepting requests of one client: the checks and answers of POST        *)
(* /v1/requests and its batch form (internal/api/handlers.go) around       *)
(* CreateJob of internal/store/jobs.go, which the scheduler calls too.     *)
(* Calls run concurrently, the items of a batch one after the other; the   *)
(* insert is one transaction, the replay of an idempotency key a read      *)
(* after it, and jobs end and are pruned between.  A call's new job id is  *)
(* the call itself.                                                        *)
(***************************************************************************)
EXTENDS Integers, FiniteSets

CONSTANTS
  Calls,       \* CreateJob calls
  KeyOf,       \* the idempotency key of each call
  NoKey,
  NoJob,
  BodyOf,      \* target and payload of each call
  Previous,    \* the item before each in its batch
  NoCall,      \* a first item, or a request of its own
  Refused,     \* calls whose fields or target the checks refuse
  Scheduled,   \* calls of the scheduler, which pass no cap
  Cap,         \* the client's max_queued, 0 for none
  Tries,       \* attempts CreateJob makes before it gives up
  MaxFaults    \* bound: failing database calls

ASSUME SubmissionAssumption ==
  /\ IsFiniteSet(Calls) /\ Scheduled \subseteq Calls /\ Refused \subseteq Calls \ Scheduled
  /\ Previous \in [Calls -> Calls \cup {NoCall}] /\ NoCall \notin Calls
  /\ Cap \in Nat /\ Tries \in Nat \ {0} /\ MaxFaults \in Nat

VARIABLES
  row,     \* the job each call stored, if any: "none", "live", "ended", "gone"
  call,    \* each call: where it is, its attempt, its answer
  faults

vars == <<row, call, faults>>
-----------------------------------------------------------------------------
MkCall(pc, try, id) == [pc |-> pc, try |-> try, id |-> id]
Answered == {"accepted", "refused", "queue_full", "conflict", "error", "unsettled"}

Stored == {c \in Calls : row[c] \in {"live", "ended"}}
Queued == {c \in Calls : row[c] = "live"}

\* The rows under c's idempotency key, by the partial unique index.
SameKeyLive(c) ==     \* mutant: only jobs that have not ended hold their key
  {d \in Queued : KeyOf[c] # NoKey /\ KeyOf[d] = KeyOf[c]}
SameKey(c) == {d \in Stored : KeyOf[c] # NoKey /\ KeyOf[d] = KeyOf[c]}

CapOf(c) == IF c \in Scheduled THEN 0 ELSE Cap

To(c, pc, id) == call' = [call EXCEPT ![c] = MkCall(pc, call[c].try, id)]
Fault == faults > 0 /\ faults' = faults - 1
-----------------------------------------------------------------------------
\* acceptedCreate and submitBatchItem: the checks, then CreateJob.  An item
\* follows the answer to the one before it, whatever that was; a batch whose
\* client has gone stores nothing more.
MayStart(c) == Previous[c] # NoCall => call[Previous[c]].pc \in Answered

Submit(c) ==
  /\ call[c].pc = "new"
  /\ MayStart(c)
  /\ To(c, IF c \in Refused THEN "refused" ELSE "creating", NoJob)
  /\ UNCHANGED <<row, faults>>

\* The cap is counted in the insert's transaction, after the key lookup.
OverCapLoose(c) ==    \* mutant: off by one
  SameKey(c) = {} /\ CapOf(c) > 0 /\ Cardinality(Queued) > CapOf(c)
OverCap(c) ==
  /\ SameKey(c) = {}
  /\ CapOf(c) > 0
  /\ Cardinality(Queued) >= CapOf(c)

\* createJobOnce: its transaction.
CreateJobOnce(c) ==
  /\ call[c].pc = "creating"
  /\ \/ /\ OverCap(c)
        /\ To(c, "queue_full", NoJob)
        /\ UNCHANGED <<row, faults>>
     \/ /\ ~OverCap(c) /\ SameKey(c) # {}
        /\ To(c, "replaying", NoJob)
        /\ UNCHANGED <<row, faults>>
     \/ /\ ~OverCap(c) /\ SameKey(c) = {}
        /\ row' = [row EXCEPT ![c] = "live"]
        /\ To(c, "accepted", c)
        /\ UNCHANGED faults
     \/ /\ Fault
        /\ To(c, "error", NoJob)
        /\ UNCHANGED row

\* replayIdempotent: the same request gets the stored job.
ReplaysAny(c, d) == TRUE     \* mutant: the bodies are not compared
Replays(c, d) == BodyOf[d] = BodyOf[c]

\* A stored job that vanished meanwhile sends CreateJob round again.
Vanished(c) ==
  call' = [call EXCEPT ![c] =
    IF call[c].try < Tries THEN MkCall("creating", call[c].try + 1, NoJob)
    ELSE MkCall("unsettled", call[c].try, NoJob)]

ReplayIdempotent(c) ==
  /\ call[c].pc = "replaying"
  /\ \/ /\ \E d \in SameKey(c) :
             IF Replays(c, d) THEN To(c, "accepted", d) ELSE To(c, "conflict", NoJob)
        /\ UNCHANGED faults
     \/ SameKey(c) = {} /\ Vanished(c) /\ UNCHANGED faults
     \/ Fault /\ To(c, "error", NoJob)
  /\ UNCHANGED row

\* The client's connection or the process goes away; the row stays.
Lost(c) ==
  /\ call[c].pc \in {"creating", "replaying"}
  /\ To(c, "lost", NoJob)
  /\ UNCHANGED <<row, faults>>

JobEnds(c) ==
  /\ row[c] = "live"
  /\ row' = [row EXCEPT ![c] = "ended"]
  /\ UNCHANGED <<call, faults>>

Prune(c) ==
  /\ row[c] = "ended"
  /\ row' = [row EXCEPT ![c] = "gone"]
  /\ UNCHANGED <<call, faults>>
-----------------------------------------------------------------------------
Init ==
  /\ row = [c \in Calls |-> "none"]
  /\ call = [c \in Calls |-> MkCall("new", 1, NoJob)]
  /\ faults = MaxFaults

Next == \E c \in Calls : \/ Submit(c) \/ CreateJobOnce(c) \/ ReplayIdempotent(c)
                         \/ Lost(c) \/ JobEnds(c) \/ Prune(c)

Spec == Init /\ [][Next]_vars
-----------------------------------------------------------------------------
\* Calls make at most Tries attempts, and only an accepted one names a job,
\* one that was really stored (CreateJob).
TypeOK ==
  /\ row \in [Calls -> {"none", "live", "ended", "gone"}]
  /\ call \in [Calls -> [pc : Answered \cup {"new", "creating", "replaying", "lost"},
                         try : 1 .. Tries, id : Calls \cup {NoJob}]]
  /\ \A c \in Calls : IF call[c].pc = "accepted" THEN row[call[c].id] # "none"
                      ELSE call[c].id = NoJob
  /\ faults \in Nat

\* max_queued: concurrent submissions never overshoot the cap together
\* (createJobOnce counts in the insert's transaction).
CapHolds == Cap > 0 => Cardinality(Queued \ Scheduled) <= Cap

\* An accepted call names a job with its own target and payload, even when
\* another request raced it to the key; and calls under one idempotency key
\* were told the same job, over lost answers, retries, replays and failing
\* writes, unless retention removed one of the two (unique index,
\* replayIdempotent).
AcceptedRightJob ==
  /\ \A c \in Calls : call[c].pc = "accepted" => BodyOf[call[c].id] = BodyOf[c]
  /\ \A c, d \in Calls :
       /\ call[c].pc = "accepted" /\ call[d].pc = "accepted"
       /\ KeyOf[c] = KeyOf[d] /\ KeyOf[c] # NoKey
       => \/ call[c].id = call[d].id
          \/ "gone" \in {row[call[c].id], row[call[d].id]}

=============================================================================
