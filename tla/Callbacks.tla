----------------------------- MODULE Callbacks ------------------------------
(***************************************************************************)
(* Completion callbacks: the delivery loop of internal/callback/           *)
(* deliverer.go over the callback_deliveries table (internal/store/        *)
(* deliveries.go).  A deliverer works through a list of due deliveries it  *)
(* read once, with the allow-list it read once; a POST lasts while others  *)
(* work, reload, prune or stop; the outcome is a compare-and-set on the    *)
(* attempt count.  Two deliverers are an old process and its successor.    *)
(***************************************************************************)
EXTENDS Integers, FiniteSets, FiniteSetsExt

CONSTANTS
  Requests,      \* requests that named a callback_url
  Deliverers,
  NoRequest,
  Budgets,       \* the values of callbacks.max_attempts a (re)load may install
  DueBatch,      \* dueBatch: deliveries one tick works through
  MaxReloads,    \* bound: reloads
  MaxStops,      \* bound: crashes and shutdowns
  MaxFaults      \* bound: failing database calls

ASSUME CallbacksAssumption ==
  /\ NoRequest \notin Requests
  /\ IsFiniteSet(Requests) /\ IsFiniteSet(Deliverers)
  /\ Budgets \subseteq Nat \ {0} /\ Budgets # {} /\ IsFiniteSet(Budgets)
  /\ DueBatch \in Nat \ {0}
  /\ MaxReloads \in Nat /\ MaxStops \in Nat /\ MaxFaults \in Nat

VARIABLES
  delivery,   \* the callback_deliveries table
  deliverer,  \* each delivery loop: its list, its item, its outcome
  allowed,    \* requests whose host the current allow-list covers
  budget,     \* callbacks.max_attempts of the current configuration
  reloads, stops, faults,  \* budgets left
  acked,      \* history: whether each request's document was answered 2xx
  posts,      \* history: POSTs each deliverer began for each request
  lost        \* history: those whose record a stop or a failing write prevented

vars == <<delivery, deliverer, allowed, budget, reloads, stops, faults,
          acked, posts, lost>>
config  == <<allowed, budget, reloads>>
history == <<acked, posts, lost>>
-----------------------------------------------------------------------------
Outcomes == {"delivered", "failed", "pending"}

\* state is State() of a stored row; "none" has none yet, "gone" is pruned.
\* due says whether next_attempt_at has come.
MkDelivery(state, attempts, due) == [state |-> state, attempts |-> attempts, due |-> due]
NoDelivery == MkDelivery("none", 0, FALSE)
Pruned     == MkDelivery("gone", 0, FALSE)

\* list holds the attempt count each listed delivery was read with, -1 when
\* it is not listed (any more); cover is the allow-list of the tick.
NotListed == -1
NoList    == [r \in Requests |-> NotListed]
MkDeliverer(pc, list, cover, cur, outcome) ==
  [pc |-> pc, list |-> list, cover |-> cover, cur |-> cur, outcome |-> outcome]
Idle    == MkDeliverer("idle", NoList, {}, NoRequest, "pending")
Stopped == MkDeliverer("stopped", NoList, {}, NoRequest, "pending")

Due == {r \in Requests : delivery[r].state = "pending" /\ delivery[r].due}
Fault == faults > 0 /\ faults' = faults - 1

Listed(d) == {r \in Requests : deliverer[d].list[r] # NotListed}

\* Deliverer d with item r, at pc with an outcome.
Handling(d, pc, r, outcome) ==
  MkDeliverer(pc, deliverer[d].list, deliverer[d].cover, r, outcome)

\* On to the list's next item; after the last one the tick is over.
ItemDone(d, r) ==
  deliverer' = [deliverer EXCEPT ![d] =
    IF Listed(d) = {r} THEN Idle
    ELSE MkDeliverer("working", [deliverer[d].list EXCEPT ![r] = NotListed],
                     deliverer[d].cover, NoRequest, "pending")]

\* The outcome of the POST in hand, if there is one, will not be recorded.
Unrecorded(d) ==
  IF deliverer[d].pc \in {"posting", "recording"}
  THEN [lost EXCEPT ![<<d, deliverer[d].cur>>] = @ + 1]
  ELSE lost
-----------------------------------------------------------------------------
\* enqueueCallbackTx: with the terminal transition, due at once.
Enqueue(r) ==
  /\ delivery[r].state = "none"
  /\ delivery' = [delivery EXCEPT ![r] = MkDelivery("pending", 0, TRUE)]
  /\ UNCHANGED <<deliverer, config, stops, faults, history>>

\* deliverDue: the due deliveries, then the configuration.
ListDue(d) ==
  /\ deliverer[d].pc = "idle"
  /\ Due # {}
  /\ \E L \in SUBSET Due :
       /\ Cardinality(L) = Min({DueBatch, Cardinality(Due)})
       /\ deliverer' = [deliverer EXCEPT ![d] =
            MkDeliverer("working",
                        [r \in Requests |-> IF r \in L THEN delivery[r].attempts ELSE NotListed],
                        allowed, NoRequest, "pending")]
  /\ UNCHANGED <<delivery, config, stops, faults, history>>

\* classify: what the attempt leads to, by the budget current now.
ClassifyLate(d, r, answer) ==   \* mutant: counts the attempts before this one
  CASE answer = "ok" -> "delivered"
    [] answer = "permanent" -> "failed"
    [] OTHER -> IF deliverer[d].list[r] >= budget THEN "failed" ELSE "pending"
Classify(d, r, answer) ==
  CASE answer = "ok" -> "delivered"
    [] answer = "permanent" -> "failed"
    [] OTHER -> IF deliverer[d].list[r] + 1 >= budget THEN "failed" ELSE "pending"

\* refuse: a host the tick's allow-list does not cover costs an attempt.
Refuse(d, r) ==
  /\ deliverer[d].pc = "working"
  /\ r \in Listed(d)
  /\ r \notin deliverer[d].cover
  /\ deliverer' = [deliverer EXCEPT ![d] =
       Handling(d, "refusing", r, Classify(d, r, "transient"))]
  /\ UNCHANGED <<delivery, config, stops, faults, history>>

\* attempt: read the job, then send; a job that cannot be read is skipped.
Post(d, r) ==
  /\ deliverer[d].pc = "working"
  /\ r \in Listed(d)
  /\ r \in deliverer[d].cover
  /\ \/ /\ delivery[r].state # "gone"
        /\ deliverer' = [deliverer EXCEPT ![d] = Handling(d, "posting", r, "pending")]
        /\ posts' = [posts EXCEPT ![<<d, r>>] = @ + 1]
        /\ UNCHANGED faults
     \/ /\ Fault \/ (delivery[r].state = "gone" /\ UNCHANGED faults)
        /\ ItemDone(d, r)
        /\ UNCHANGED posts
  /\ UNCHANGED <<delivery, config, stops, acked, lost>>

\* The receiver's answer, a timeout or a transport error.  A transient one
\* may hide that the receiver took the document.
Answered(d, answer) ==
  LET r == deliverer[d].cur IN
  /\ deliverer[d].pc = "posting"
  /\ deliverer' = [deliverer EXCEPT ![d] =
       Handling(d, "recording", r, Classify(d, r, answer))]
  /\ acked' = IF answer = "ok" THEN [acked EXCEPT ![r] = TRUE] ELSE acked
  /\ UNCHANGED <<delivery, config, stops, faults, posts, lost>>

\* RecordAttempt: a compare-and-set on the attempt count.
MayAlwaysRecord(d, r) == delivery[r].state \in Outcomes    \* mutant: no compare
MayRecord(d, r) ==
  /\ delivery[r].state \in Outcomes
  /\ delivery[r].attempts = deliverer[d].list[r]

RecordedForgetful(d, r) ==   \* mutant: the attempt is not counted
  MkDelivery(deliverer[d].outcome, delivery[r].attempts, FALSE)
RecordedDelivered(d, r) ==   \* mutant: any end of the attempts reads as delivered
  MkDelivery(IF deliverer[d].outcome = "failed" THEN "delivered" ELSE deliverer[d].outcome,
             delivery[r].attempts + 1, FALSE)
Recorded(d, r) == MkDelivery(deliverer[d].outcome, delivery[r].attempts + 1, FALSE)

Record(d) ==
  LET r == deliverer[d].cur IN
  /\ deliverer[d].pc \in {"recording", "refusing"}
  /\ ItemDone(d, r)
  /\ \/ /\ MayRecord(d, r)
        /\ delivery' = [delivery EXCEPT ![r] = Recorded(d, r)]
        /\ UNCHANGED <<faults, lost>>
     \/ ~MayRecord(d, r) /\ UNCHANGED <<delivery, faults, lost>>
     \/ Fault /\ lost' = Unrecorded(d) /\ UNCHANGED delivery
  /\ UNCHANGED <<config, stops, posts, acked>>

\* The backoff of a pending delivery is over.
BackoffOver(r) ==
  /\ delivery[r].state = "pending" /\ ~delivery[r].due
  /\ delivery' = [delivery EXCEPT ![r] = MkDelivery("pending", delivery[r].attempts, TRUE)]
  /\ UNCHANGED <<deliverer, config, stops, faults, history>>

\* Retention deletes the request and its delivery, whatever its state.
Prune(r) ==
  /\ delivery[r].state \in Outcomes
  /\ delivery' = [delivery EXCEPT ![r] = Pruned]
  /\ UNCHANGED <<deliverer, config, stops, faults, history>>

Reload(S, b) ==
  /\ reloads > 0 /\ <<S, b>> # <<allowed, budget>>
  /\ reloads' = reloads - 1
  /\ allowed' = S /\ budget' = b
  /\ UNCHANGED <<delivery, deliverer, stops, faults, history>>

\* The process dies or is shut down; a shutdown cancels the POST in progress,
\* and the outcome cannot be recorded under the cancelled context.
Halt(d) ==
  /\ deliverer[d].pc # "stopped" /\ stops > 0
  /\ stops' = stops - 1
  /\ deliverer' = [deliverer EXCEPT ![d] = Stopped]
  /\ lost' = Unrecorded(d)
  /\ UNCHANGED <<delivery, config, faults, posts, acked>>

Start(d) ==
  /\ deliverer[d].pc = "stopped"
  /\ deliverer' = [deliverer EXCEPT ![d] = Idle]
  /\ UNCHANGED <<delivery, config, stops, faults, history>>
-----------------------------------------------------------------------------
Init ==
  /\ delivery = [r \in Requests |-> NoDelivery]
  /\ deliverer \in [Deliverers -> {Idle, Stopped}]
  /\ allowed = Requests
  /\ budget \in Budgets
  /\ reloads = MaxReloads /\ stops = MaxStops /\ faults = MaxFaults
  /\ acked = [r \in Requests |-> FALSE]
  /\ posts = [x \in Deliverers \X Requests |-> 0]
  /\ lost  = [x \in Deliverers \X Requests |-> 0]

DelivererStep(d) ==
  \/ ListDue(d)
  \/ \E r \in Requests : Refuse(d, r) \/ Post(d, r)
  \/ \E answer \in {"ok", "permanent", "transient"} : Answered(d, answer)
  \/ Record(d)

Next ==
  \/ \E d \in Deliverers : DelivererStep(d) \/ Halt(d) \/ Start(d)
  \/ \E r \in Requests : Enqueue(r) \/ BackoffOver(r) \/ Prune(r)
  \/ \E S \in SUBSET Requests, b \in Budgets : Reload(S, b)

Spec == Init /\ [][Next]_vars

\* The loop keeps running, every POST ends (callbacks.timeout), backoffs
\* pass, and a stopped process is started again.
Fairness ==
  /\ \A d \in Deliverers : WF_vars(DelivererStep(d)) /\ WF_vars(Start(d))
  /\ \A r \in Requests : WF_vars(BackoffOver(r))

FairSpec == Spec /\ Fairness
-----------------------------------------------------------------------------
\* Rows, lists and configurations have their types (store.Delivery), and
\* only a pending row carries a next_attempt_at.
TypeOK ==
  /\ delivery \in [Requests -> [state : Outcomes \cup {"none", "gone"},
                                attempts : Nat, due : BOOLEAN]]
  /\ \A r \in Requests : delivery[r].due => delivery[r].state = "pending"
  /\ deliverer \in [Deliverers ->
       [pc : {"idle", "working", "refusing", "posting", "recording", "stopped"},
        list : [Requests -> Nat \cup {NotListed}], cover : SUBSET Requests,
        cur : Requests \cup {NoRequest}, outcome : Outcomes]]
  /\ \A d \in Deliverers :
       deliverer[d].pc \in {"refusing", "posting", "recording"}
         => deliverer[d].cur \in Listed(d)
  /\ allowed \subseteq Requests /\ budget \in Budgets
  /\ reloads \in Nat /\ stops \in Nat /\ faults \in Nat
  /\ acked \in [Requests -> BOOLEAN]
  /\ posts \in [Deliverers \X Requests -> Nat] /\ lost \in [Deliverers \X Requests -> Nat]

Promise == INSTANCE Outbox WITH
  MaxTries <- Max(Budgets),
  status   <- [r \in Requests |-> delivery[r].state],
  tries    <- [r \in Requests |-> delivery[r].attempts],
  taken    <- acked

\* Deliverers with stale lists, reloads of the budget and the allow-list, lost
\* outcomes and stops implement the promise: a recorded end is never
\* overwritten, "delivered" is told only after a 2xx answer, and a pending
\* delivery has attempts left (deliverDue, classify, RecordAttempt).
ImplementsOutbox == Promise!Spec

\* One process sends a callback at most callbacks.max_attempts times (the
\* largest the configuration ever had), and once more for each POST whose
\* record a stop or a failing write prevented: a deliverer that loses the
\* compare-and-set to another one, works from a stale list, is refused or sees
\* the budget reloaded sends nothing beyond it, and neither does one whose
\* request retention deletes (attempt, classify, RecordAttempt).
PostsBounded ==
  \A d \in Deliverers, r \in Requests :
    posts[<<d, r>>] <= Max(Budgets) + lost[<<d, r>>]

\* Every delivery ends: delivered, given up or pruned with its request, in
\* spite of refusals, reloads, restarts and failed writes (deliverDue: "never
\* left pending forever").
EveryCallbackEnds ==
  \A r \in Requests : delivery[r].state = "pending" ~> delivery[r].state # "pending"
=============================================================================
