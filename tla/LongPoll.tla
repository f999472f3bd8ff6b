------------------------------ MODULE LongPoll ------------------------------
(***************************************************************************)
(* Waiting for a job to end: the notifier of internal/notify/hub.go, the   *)
(* long-polling GET of internal/api/handlers.go that parks on it and the   *)
(* callback deliverer that is woken through its shared flag.               *)
(*                                                                         *)
(* A Wait makes a new channel every time and a request uses one at a time, *)
(* so the hub's lists hold requests; closing a channel its request has     *)
(* given up changes nothing and is left out.  Timers may fire at any time  *)
(* and nothing relies on their firing.                                     *)
(***************************************************************************)
EXTENDS Integers, FiniteSets

CONSTANTS
  Jobs,
  Polls,       \* GET requests with ?wait=
  JobOf,       \* the job each of them asks for
  Enders,      \* goroutines that end jobs: workers and cancel handlers
  NoJob,
  ClaimsFail,  \* whether a claim may fail a job out of attempts (claimOne)
  DueBatch,    \* dueBatch: deliveries one tick works through
  MaxTimers,   \* bound: timers, disconnects and failing reads
  MaxTicks     \* bound: the deliverer's own ticks

ASSUME LongPollAssumption ==
  /\ NoJob \notin Jobs
  /\ JobOf \in [Polls -> Jobs]
  /\ ClaimsFail \in BOOLEAN
  /\ DueBatch \in Nat \ {0}
  /\ MaxTimers \in Nat /\ MaxTicks \in Nat

VARIABLES
  ended,      \* jobs whose terminal state is committed
  waiters,    \* Hub.waiters: polls whose current channel is registered
  woken,      \* polls whose current channel is closed
  poll,       \* each poll: where it is and whether the job it read had ended
  ender,      \* each ender: its job and, inside Notify, the waiters it took
  flag,       \* Hub.terminals holds its one value
  deliverer,  \* the delivery loop: its list, and whether that was all there was
  untold,     \* ended jobs whose callback was not attempted yet
  draining,   \* BeginDrain has closed s.draining
  timers, ticks,
  silent      \* history: jobs that ended without a Notify

vars == <<ended, waiters, woken, poll, ender, flag, deliverer, untold, draining,
          timers, ticks, silent>>
hub == <<waiters, woken>>
-----------------------------------------------------------------------------
MkPoll(pc, sawEnd) == [pc |-> pc, sawEnd |-> sawEnd]
MkEnder(pc, j, took) == [pc |-> pc, job |-> j, took |-> took]
MkDeliverer(pc, list, all) == [pc |-> pc, list |-> list, all |-> all]
Free == MkEnder("free", NoJob, {})

To(q, pc) == poll' = [poll EXCEPT ![q] = MkPoll(pc, poll[q].sawEnd)]
Timer == timers > 0 /\ timers' = timers - 1
-----------------------------------------------------------------------------
(* The poll: handleGet and the loop of awaitTerminal.                      *)

\* handleGet's own read: an ended job is answered at once.
Arrive(q) ==
  /\ poll[q].pc = "new"
  /\ poll' = [poll EXCEPT ![q] =
       IF JobOf[q] \in ended THEN MkPoll("answered", TRUE) ELSE MkPoll("looping", FALSE)]
  /\ UNCHANGED <<ended, hub, ender, flag, deliverer, untold, draining, timers, ticks, silent>>

\* Hub.Wait, before the read.
Register(q) ==
  /\ poll[q].pc = "looping"
  /\ To(q, "reading")
  /\ waiters' = waiters \cup {q}
  /\ woken' = woken \ {q}
  /\ ender' = [e \in Enders |-> MkEnder(ender[e].pc, ender[e].job, ender[e].took \ {q})]
  /\ UNCHANGED <<ended, flag, deliverer, untold, draining, timers, ticks, silent>>

SeesNothing(q) == FALSE    \* mutant: the state is not re-read after registering
SeesEnd(q) == JobOf[q] \in ended

\* GetJob: an ended job, or a read that fails, ends the loop.
Read(q) ==
  /\ poll[q].pc = "reading"
  /\ \/ /\ poll' = [poll EXCEPT ![q] =
             IF SeesEnd(q) THEN MkPoll("leaving", TRUE) ELSE MkPoll("parked", FALSE)]
        /\ UNCHANGED timers
     \/ Timer /\ To(q, "leaving")
  /\ UNCHANGED <<ended, hub, ender, flag, deliverer, untold, draining, ticks, silent>>

\* The select: the channel was closed ...
Wake(q) ==
  /\ poll[q].pc = "parked"
  /\ q \in woken
  /\ To(q, "forgetting")
  /\ UNCHANGED <<ended, hub, ender, flag, deliverer, untold, draining, timers, ticks, silent>>

\* ... or the fallback ticker fires ...
Fallback(q) ==
  /\ poll[q].pc = "parked"
  /\ Timer
  /\ To(q, "forgetting")
  /\ UNCHANGED <<ended, hub, ender, flag, deliverer, untold, draining, ticks, silent>>

\* ... or the wait elapses, the client leaves, or the server drains.
GiveUp(q) ==
  /\ poll[q].pc = "parked"
  /\ Timer \/ (draining /\ UNCHANGED timers)
  /\ To(q, "leaving")
  /\ UNCHANGED <<ended, hub, ender, flag, deliverer, untold, draining, ticks, silent>>

\* Hub.Forget.
ForgetAll(q) == waiters' = {v \in waiters : JobOf[v] # JobOf[q]}  \* mutant: drops the job's list
ForgetNone(q) == waiters' = waiters       \* mutant: the waiter stays registered
Forget(q) == waiters' = waiters \ {q}

Again(q) ==
  /\ poll[q].pc = "forgetting"
  /\ Forget(q)
  /\ To(q, "looping")
  /\ UNCHANGED <<ended, woken, ender, flag, deliverer, untold, draining, timers, ticks, silent>>

\* The answer is the job as last read.
Answer(q) ==
  /\ poll[q].pc = "leaving"
  /\ Forget(q)
  /\ To(q, "answered")
  /\ UNCHANGED <<ended, woken, ender, flag, deliverer, untold, draining, timers, ticks, silent>>
-----------------------------------------------------------------------------
(* Ending a job and telling the hub.                                       *)

\* The terminal transition, with the delivery row in its transaction.
End(e, j) ==
  /\ ender[e].pc = "free"
  /\ j \notin ended
  /\ ended' = ended \cup {j}
  /\ untold' = untold \cup {j}
  /\ ender' = [ender EXCEPT ![e] = MkEnder("ended", j, {})]
  /\ UNCHANGED <<hub, poll, flag, deliverer, draining, timers, ticks, silent>>

\* claimOne fails a job out of attempts inside the store: no Notify.
FailAtClaim(j) ==
  /\ ClaimsFail
  /\ j \notin ended
  /\ ended' = ended \cup {j}
  /\ untold' = untold \cup {j}
  /\ silent' = silent \cup {j}
  /\ UNCHANGED <<hub, poll, ender, flag, deliverer, draining, timers, ticks>>

Mine(e) == {q \in waiters : JobOf[q] = ender[e].job}

\* Hub.Notify: take the list under the lock,
Take(e) ==
  /\ ender[e].pc = "ended"
  /\ waiters' = waiters \ Mine(e)
  /\ ender' = [ender EXCEPT ![e] = MkEnder("took", ender[e].job, Mine(e))]
  /\ UNCHANGED <<ended, woken, poll, flag, deliverer, untold, draining, timers, ticks, silent>>

\* close the channels,
Close(e) ==
  /\ ender[e].pc = "took"
  /\ woken' = woken \cup ender[e].took
  /\ ender' = [ender EXCEPT ![e] = MkEnder("closed", ender[e].job, {})]
  /\ UNCHANGED <<ended, waiters, poll, flag, deliverer, untold, draining, timers, ticks, silent>>

\* then raise the flag; it may be up already.
RaiseIfParked(e) == flag' = (flag \/ deliverer.pc = "parked")   \* mutant: unbuffered flag
Raised(e) == flag' = TRUE

Raise(e) ==
  /\ ender[e].pc = "closed"
  /\ Raised(e)
  /\ ender' = [ender EXCEPT ![e] = Free]
  /\ UNCHANGED <<ended, hub, poll, deliverer, untold, draining, timers, ticks, silent>>
-----------------------------------------------------------------------------
(* The deliverer's loop: Run.                                              *)

DelivererWakes ==
  /\ deliverer.pc = "parked"
  /\ \/ flag /\ flag' = FALSE /\ UNCHANGED ticks
     \/ ticks > 0 /\ ticks' = ticks - 1 /\ UNCHANGED flag
  /\ deliverer' = MkDeliverer("listing", {}, FALSE)
  /\ UNCHANGED <<ended, hub, poll, ender, untold, draining, timers, silent>>

\* DueDeliveries: one batch of the callbacks to send for the first time and of
\* those due again.  A list that fails ends the tick.
DelivererLists ==
  /\ deliverer.pc = "listing"
  /\ \/ /\ \E L \in SUBSET ended :
             /\ Cardinality(L) = DueBatch \/ (Cardinality(L) < DueBatch /\ untold \subseteq L)
             /\ deliverer' = MkDeliverer("delivering", L, Cardinality(L) < DueBatch)
        /\ UNCHANGED timers
     \/ Timer /\ deliverer' = MkDeliverer("parked", {}, FALSE)
  /\ UNCHANGED <<ended, hub, poll, ender, flag, untold, draining, ticks, silent>>

\* Every listed callback was attempted, but for one whose job cannot be read.
\* There is no second batch: the loop goes back to its select.
DelivererParks ==
  /\ deliverer.pc = "delivering"
  /\ \/ /\ untold' = untold \ deliverer.list
        /\ deliverer' = MkDeliverer("parked", {}, deliverer.all)
        /\ UNCHANGED timers
     \/ \E j \in deliverer.list :
          /\ Timer
          /\ untold' = untold \ (deliverer.list \ {j})
          /\ deliverer' = MkDeliverer("parked", {}, FALSE)
  /\ UNCHANGED <<ended, hub, poll, ender, flag, draining, ticks, silent>>

BeginDrain ==
  /\ ~draining
  /\ draining' = TRUE
  /\ UNCHANGED <<ended, hub, poll, ender, flag, deliverer, untold, timers, ticks, silent>>
-----------------------------------------------------------------------------
Init ==
  /\ ended = {} /\ waiters = {} /\ woken = {}
  /\ poll = [q \in Polls |-> MkPoll("new", FALSE)]
  /\ ender = [e \in Enders |-> Free]
  /\ flag = FALSE
  /\ deliverer = MkDeliverer("listing", {}, FALSE)
  /\ untold = {} /\ draining = FALSE
  /\ timers = MaxTimers /\ ticks = MaxTicks
  /\ silent = {}

PollStep(q) == Register(q) \/ Read(q) \/ Wake(q) \/ Again(q) \/ Answer(q)
EnderStep(e) == Take(e) \/ Close(e) \/ Raise(e)
DelivererStep == DelivererWakes \/ DelivererLists \/ DelivererParks

Next ==
  \/ \E q \in Polls : Arrive(q) \/ PollStep(q) \/ Fallback(q) \/ GiveUp(q)
  \/ \E e \in Enders : EnderStep(e) \/ \E j \in Jobs : End(e, j)
  \/ \E j \in Jobs : FailAtClaim(j)
  \/ DelivererStep
  \/ BeginDrain

Spec == Init /\ [][Next]_vars

\* Goroutines keep running once they can; no timer has to fire.
Fairness ==
  /\ \A q \in Polls : WF_vars(PollStep(q))
  /\ \A e \in Enders : WF_vars(EnderStep(e))
  /\ WF_vars(DelivererStep)

FairSpec == Spec /\ Fairness
-----------------------------------------------------------------------------
Inside == {"reading", "parked", "forgetting", "leaving"}

\* Where everyone can be; a Notify only takes waiters of its own job (Hub).
TypeOK ==
  /\ ended \subseteq Jobs /\ untold \subseteq ended
  /\ silent \subseteq ended
  /\ waiters \subseteq Polls /\ woken \subseteq Polls
  /\ poll \in [Polls -> [pc : {"new", "looping", "answered"} \cup Inside, sawEnd : BOOLEAN]]
  /\ ender \in [Enders -> [pc : {"free", "ended", "took", "closed"},
                           job : Jobs \cup {NoJob}, took : SUBSET Polls]]
  /\ \A e \in Enders : \A q \in ender[e].took : JobOf[q] = ender[e].job
  /\ flag \in BOOLEAN /\ draining \in BOOLEAN
  /\ deliverer \in [pc : {"parked", "listing", "delivering"}, list : SUBSET Jobs,
                   all : BOOLEAN]
  /\ timers \in Nat /\ ticks \in Nat

\* q's channel is closed, or the goroutine that ended its job will close it.
WakeupDue(q) ==
  \/ q \in woken
  \/ \E e \in Enders : /\ ender[e].job = JobOf[q]
                       /\ \/ ender[e].pc = "ended" /\ q \in waiters
                          \/ q \in ender[e].took

\* No lost wake-up: a poll parked on a job that a worker or a cancellation
\* ended has its wake-up due (Wait registers before the read, Notify takes
\* after the commit).
WakeupComing ==
  \A q \in Polls :
    poll[q].pc = "parked" /\ JobOf[q] \in ended \ silent => WakeupDue(q)

\* Abandoned channels do not accumulate: the hub holds only polls that are
\* inside the loop (Forget on every way out of awaitTerminal).
NoWaiterLeak == \A q \in waiters : poll[q].pc \in Inside

\* No callback is forgotten by the shared flag: while the deliverer is parked
\* with the flag down after a tick that listed all there was and could read
\* every job, each callback still to send belongs to a job whose Notify is
\* still running.  Only a full batch or a failing read leaves callbacks to the
\* ticker (Notify's send with default, deliverDue, Run's select).
CallbackWillBeSeen ==
  deliverer.pc = "parked" /\ deliverer.all /\ ~flag =>
    \A j \in untold \ silent : \E e \in Enders : ender[e].job = j

\* A poll parked when a worker or a cancellation ends its job answers
\* without any timer's help (Notify, awaitTerminal).
EndedPollAnswers ==
  \A q \in Polls :
    poll[q].pc = "parked" /\ JobOf[q] \in ended \ silent ~> poll[q].pc = "answered"
=============================================================================
