--------------------------- MODULE LongPollProofs ---------------------------
(***************************************************************************)
(* Proofs about the notifier and the long poll, for every set of requests, *)
(* jobs and goroutines that end jobs, and every budget of timers.          *)
(***************************************************************************)
EXTENDS LongPoll, TLAPS
-----------------------------------------------------------------------------
(* The inductive invariant.                                                *)

\* A request between Wait and Forget is in the hub's list until somebody has
\* ended its job: only Notify takes a request out for it.
Registered ==
  \A q \in Polls : poll[q].pc \in Inside /\ JobOf[q] \notin ended => q \in waiters

\* A goroutine inside Notify holds a job that it has ended, and holds
\* channels only between taking and closing them.
EndersHold ==
  \A e \in Enders : /\ ender[e].pc = "free" => ender[e].job = NoJob
                    /\ ender[e].pc # "free" => ender[e].job \in ended
                    /\ ender[e].took # {} => ender[e].pc = "took"

\* A callback that is still to send has somebody on the way to it: the flag,
\* a Notify that will raise it, or the deliverer, which will list it or has
\* listed it, unless its list was not all there was.
CallbackOnItsWay ==
  \A j \in untold \ silent :
    \/ flag
    \/ \E e \in Enders : ender[e].job = j
    \/ deliverer.pc = "listing"
    \/ deliverer.pc = "delivering" /\ j \in deliverer.list
    \/ ~deliverer.all

HubInv == /\ TypeOK /\ Registered /\ EndersHold
          /\ WakeupComing /\ NoWaiterLeak /\ CallbackOnItsWay

PollStates == [pc : {"new", "looping", "answered"} \cup Inside, sawEnd : BOOLEAN]
-----------------------------------------------------------------------------
USE DEF MkPoll, MkEnder, MkDeliverer, Free, Inside, hub

LEMMA InitInv == Init => HubInv
  <1> SUFFICES ASSUME Init PROVE HubInv
    OBVIOUS
  <1>1. TypeOK
    BY LongPollAssumption DEF Init, TypeOK
  <1>2. Registered /\ EndersHold /\ NoWaiterLeak
    BY DEF Init, Registered, EndersHold, NoWaiterLeak
  <1>3. WakeupComing /\ CallbackOnItsWay
    BY DEF Init, WakeupComing, CallbackOnItsWay
  <1> QED BY <1>1, <1>2, <1>3 DEF HubInv

\* The steps of a request.
LEMMA PollType ==
  ASSUME HubInv, NEW q \in Polls,
         \/ Arrive(q) \/ Register(q) \/ Read(q) \/ Wake(q) \/ Fallback(q)
         \/ GiveUp(q) \/ Again(q) \/ Answer(q)
  PROVE  TypeOK'
  <1> USE DEF HubInv, TypeOK, To, Timer, Forget, SeesEnd
  <1>1. CASE Arrive(q)
    BY <1>1 DEF Arrive
  <1>2. CASE Register(q)
    <2>1. \A e \in Enders : ender'[e] = MkEnder(ender[e].pc, ender[e].job, ender[e].took \ {q})
      BY <1>2 DEF Register
    <2>2. ender' \in [Enders -> [pc : {"free", "ended", "took", "closed"},
                               job : Jobs \cup {NoJob}, took : SUBSET Polls]]
      BY <1>2 DEF Register
    <2> QED BY <1>2, <2>1, <2>2 DEF Register
  <1>3. CASE Read(q)
    <2>1. MkPoll("leaving", TRUE) \in PollStates /\ MkPoll("parked", FALSE) \in PollStates
      BY DEF PollStates
    <2>2. MkPoll("leaving", poll[q].sawEnd) \in PollStates
      BY DEF PollStates
    <2>3. CASE poll' = [poll EXCEPT ![q] =
                          IF SeesEnd(q) THEN MkPoll("leaving", TRUE) ELSE MkPoll("parked", FALSE)]
      <3>1. poll' \in [Polls -> PollStates]
        BY <2>1, <2>3 DEF PollStates
      <3>2. timers' \in Nat
        BY <1>3 DEF Read
      <3> QED BY <1>3, <3>1, <3>2 DEF Read, PollStates
    <2>4. CASE Timer /\ To(q, "leaving")
      BY <1>3, <2>2, <2>4 DEF Read, PollStates
    <2> QED BY <1>3, <2>3, <2>4 DEF Read
  <1>4. CASE Wake(q)
    BY <1>4 DEF Wake
  <1>5. CASE Fallback(q)
    BY <1>5 DEF Fallback
  <1>6. CASE GiveUp(q)
    BY <1>6 DEF GiveUp
  <1>7. CASE Again(q)
    BY <1>7 DEF Again
  <1>8. CASE Answer(q)
    BY <1>8 DEF Answer
  <1> QED BY <1>1, <1>2, <1>3, <1>4, <1>5, <1>6, <1>7, <1>8

LEMMA PollInv ==
  ASSUME HubInv, NEW q \in Polls,
         \/ Arrive(q) \/ Register(q) \/ Read(q) \/ Wake(q) \/ Fallback(q)
         \/ GiveUp(q) \/ Again(q) \/ Answer(q)
  PROVE  HubInv'
  <1>0. TypeOK'
    BY PollType
  <1>1. CASE Arrive(q) \/ Read(q) \/ Wake(q) \/ Fallback(q) \/ GiveUp(q)
    <2>1. /\ ended' = ended /\ waiters' = waiters /\ woken' = woken /\ ender' = ender
          /\ flag' = flag /\ deliverer' = deliverer /\ untold' = untold /\ silent' = silent
          /\ \A p \in Polls \ {q} : poll'[p] = poll[p]
          /\ poll[q].pc \in Inside <=> poll'[q].pc \in Inside
          /\ poll'[q].pc = "parked" => JobOf[q] \notin ended
      <3> USE DEF HubInv, TypeOK, To, SeesEnd
      <3>1. CASE Arrive(q)
        BY <3>1 DEF Arrive
      <3>2. CASE Read(q)
        BY <3>2 DEF Read
      <3>3. CASE Wake(q)
        BY <3>3 DEF Wake
      <3>4. CASE Fallback(q)
        BY <3>4 DEF Fallback
      <3>5. CASE GiveUp(q)
        BY <3>5 DEF GiveUp
      <3> QED BY <1>1, <3>1, <3>2, <3>3, <3>4, <3>5
    <2>2. Registered' /\ EndersHold' /\ NoWaiterLeak' /\ CallbackOnItsWay'
      BY <2>1 DEF HubInv, TypeOK, Registered, EndersHold, NoWaiterLeak, CallbackOnItsWay
    <2>3. WakeupComing'
      BY <2>1 DEF HubInv, WakeupComing, WakeupDue
    <2> QED BY <1>0, <2>2, <2>3 DEF HubInv
  <1>2. CASE Register(q)
    <2>1. /\ ended' = ended /\ waiters' = waiters \cup {q} /\ woken' = woken \ {q}
          /\ flag' = flag /\ deliverer' = deliverer /\ untold' = untold /\ silent' = silent
          /\ \A p \in Polls \ {q} : poll'[p] = poll[p]
          /\ poll'[q].pc = "reading"
          /\ \A e \in Enders : /\ ender'[e].pc = ender[e].pc /\ ender'[e].job = ender[e].job
                              /\ ender'[e].took = ender[e].took \ {q}
      BY <1>2 DEF Register, To, HubInv, TypeOK
    <2>2. Registered' /\ EndersHold' /\ NoWaiterLeak' /\ CallbackOnItsWay'
      BY <2>1 DEF HubInv, TypeOK, Registered, EndersHold, NoWaiterLeak, CallbackOnItsWay
    <2>3. WakeupComing'
      BY <2>1 DEF HubInv, WakeupComing, WakeupDue
    <2> QED BY <1>0, <2>2, <2>3 DEF HubInv
  <1>3. CASE Again(q) \/ Answer(q)
    <2>1. /\ ended' = ended /\ waiters' = waiters \ {q} /\ woken' = woken /\ ender' = ender
          /\ flag' = flag /\ deliverer' = deliverer /\ untold' = untold /\ silent' = silent
          /\ \A p \in Polls \ {q} : poll'[p] = poll[p]
          /\ poll'[q].pc \in {"looping", "answered"}
      BY <1>3 DEF Again, Answer, Forget, To, HubInv, TypeOK
    <2>2. Registered' /\ EndersHold' /\ NoWaiterLeak' /\ CallbackOnItsWay'
      BY <2>1 DEF HubInv, TypeOK, Registered, EndersHold, NoWaiterLeak, CallbackOnItsWay
    <2>3. WakeupComing'
      BY <2>1 DEF HubInv, WakeupComing, WakeupDue
    <2> QED BY <1>0, <2>2, <2>3 DEF HubInv
  <1> QED BY <1>1, <1>2, <1>3

\* The steps of a goroutine that ends a job.
LEMMA EnderInv ==
  ASSUME HubInv, NEW e \in Enders,
         Take(e) \/ Close(e) \/ Raise(e) \/ \E j \in Jobs : End(e, j)
  PROVE  HubInv'
  <1> USE LongPollAssumption
  <1>1. ASSUME NEW j \in Jobs, End(e, j)
        PROVE  HubInv'
    <2>1. /\ ended' = ended \cup {j} /\ untold' = untold \cup {j} /\ j \notin ended
          /\ waiters' = waiters /\ woken' = woken /\ poll' = poll /\ flag' = flag
          /\ deliverer' = deliverer /\ silent' = silent
          /\ \A f \in Enders \ {e} : ender'[f] = ender[f]
          /\ ender'[e].pc = "ended" /\ ender'[e].job = j /\ ender'[e].took = {}
          /\ ender[e].pc = "free"
      BY <1>1 DEF End, HubInv, TypeOK
    <2>2. TypeOK'
      BY <1>1 DEF End, HubInv, TypeOK
    <2>3. ender[e].job = NoJob /\ ender[e].took = {}
      BY <2>1 DEF HubInv, EndersHold
    <2>4. Registered' /\ EndersHold' /\ NoWaiterLeak'
      BY <2>1 DEF HubInv, Registered, EndersHold, NoWaiterLeak
    <2>5. CallbackOnItsWay'
      BY <2>1, <2>3 DEF HubInv, TypeOK, CallbackOnItsWay
    <2>6. WakeupComing'
      <3> SUFFICES ASSUME NEW q \in Polls, poll[q].pc = "parked",
                          JobOf[q] \in ended' \ silent'
                   PROVE  WakeupDue(q)'
        BY <2>1 DEF WakeupComing
      <3>1. CASE JobOf[q] = j
        <4>1. q \in waiters
          BY <2>1, <3>1 DEF HubInv, Registered
        <4> QED BY <2>1, <3>1, <4>1 DEF WakeupDue
      <3>2. CASE JobOf[q] # j
        <4>1. WakeupDue(q)
          BY <2>1, <3>2 DEF HubInv, WakeupComing
        <4> QED BY <2>1, <2>3, <4>1 DEF WakeupDue
      <3> QED BY <3>1, <3>2
    <2> QED BY <2>2, <2>4, <2>5, <2>6 DEF HubInv
  <1>2. CASE Take(e)
    <2>1. /\ ended' = ended /\ untold' = untold /\ woken' = woken /\ poll' = poll
          /\ flag' = flag /\ deliverer' = deliverer /\ silent' = silent
          /\ waiters' = waiters \ Mine(e)
          /\ \A f \in Enders \ {e} : ender'[f] = ender[f]
          /\ ender[e].pc = "ended" /\ ender'[e].pc = "took"
          /\ ender'[e].job = ender[e].job /\ ender'[e].took = Mine(e)
      BY <1>2 DEF Take, HubInv, TypeOK
    <2>2. TypeOK'
      <3>1. Mine(e) \subseteq Polls /\ \A q \in Mine(e) : JobOf[q] = ender[e].job
        BY DEF Mine, HubInv, TypeOK
      <3>2. MkEnder("took", ender[e].job, Mine(e)) \in
              [pc : {"free", "ended", "took", "closed"}, job : Jobs \cup {NoJob}, took : SUBSET Polls]
        BY <3>1 DEF HubInv, TypeOK
      <3>3. ender' \in [Enders -> [pc : {"free", "ended", "took", "closed"},
                                   job : Jobs \cup {NoJob}, took : SUBSET Polls]]
        BY <1>2, <3>2 DEF Take, HubInv, TypeOK
      <3> QED BY <1>2, <2>1, <3>1, <3>3 DEF Take, HubInv, TypeOK
    <2>3. ender[e].job \in ended
      BY <2>1 DEF HubInv, EndersHold
    <2>4. Registered' /\ EndersHold' /\ NoWaiterLeak' /\ CallbackOnItsWay'
      BY <2>1, <2>3 DEF HubInv, Registered, EndersHold, NoWaiterLeak, CallbackOnItsWay, Mine
    <2>5. \A q \in Polls : WakeupDue(q) => WakeupDue(q)'
      <3>1. ender[e].took = {}
        BY <2>1 DEF HubInv, EndersHold
      <3> QED BY <2>1, <3>1 DEF WakeupDue, Mine
    <2>6. WakeupComing'
      BY <2>1, <2>5 DEF HubInv, WakeupComing
    <2> QED BY <2>2, <2>4, <2>6 DEF HubInv
  <1>3. CASE Close(e)
    <2>1. /\ ended' = ended /\ untold' = untold /\ waiters' = waiters /\ poll' = poll
          /\ flag' = flag /\ deliverer' = deliverer /\ silent' = silent
          /\ woken' = woken \cup ender[e].took
          /\ \A f \in Enders \ {e} : ender'[f] = ender[f]
          /\ ender[e].pc = "took" /\ ender'[e].pc = "closed"
          /\ ender'[e].job = ender[e].job /\ ender'[e].took = {}
      BY <1>3 DEF Close, HubInv, TypeOK
    <2>2. TypeOK'
      BY <1>3 DEF Close, HubInv, TypeOK
    <2>3. Registered' /\ EndersHold' /\ NoWaiterLeak' /\ CallbackOnItsWay'
      BY <2>1 DEF HubInv, Registered, EndersHold, NoWaiterLeak, CallbackOnItsWay
    <2>4. \A q \in Polls : WakeupDue(q) => WakeupDue(q)'
      BY <2>1 DEF WakeupDue
    <2>5. WakeupComing'
      BY <2>1, <2>4 DEF HubInv, WakeupComing
    <2> QED BY <2>2, <2>3, <2>5 DEF HubInv
  <1>4. CASE Raise(e)
    <2>1. /\ ended' = ended /\ untold' = untold /\ waiters' = waiters /\ poll' = poll
          /\ woken' = woken /\ flag' = TRUE /\ deliverer' = deliverer /\ silent' = silent
          /\ \A f \in Enders \ {e} : ender'[f] = ender[f]
          /\ ender[e].pc = "closed" /\ ender'[e].pc = "free"
          /\ ender'[e].job = NoJob /\ ender'[e].took = {}
      BY <1>4 DEF Raise, Raised, HubInv, TypeOK
    <2>2. TypeOK'
      BY <1>4 DEF Raise, Raised, HubInv, TypeOK
    <2>3. Registered' /\ EndersHold' /\ NoWaiterLeak' /\ CallbackOnItsWay'
      BY <2>1 DEF HubInv, Registered, EndersHold, NoWaiterLeak, CallbackOnItsWay
    <2>4. ender[e].took = {}
      BY <2>1 DEF HubInv, EndersHold
    <2>5. \A q \in Polls : WakeupDue(q) => WakeupDue(q)'
      BY <2>1, <2>4 DEF WakeupDue
    <2>6. WakeupComing'
      BY <2>1, <2>5 DEF HubInv, WakeupComing
    <2> QED BY <2>2, <2>3, <2>6 DEF HubInv
  <1> QED BY <1>1, <1>2, <1>3, <1>4

\* The deliverer's steps, a job that fails inside a claim, and BeginDrain.
LEMMA OtherInv ==
  ASSUME HubInv, DelivererStep \/ BeginDrain \/ \E j \in Jobs : FailAtClaim(j)
  PROVE  HubInv'
  <1>1. CASE DelivererStep \/ BeginDrain
    <2>1. /\ ended' = ended /\ waiters' = waiters /\ poll' = poll /\ woken' = woken
          /\ ender' = ender /\ silent' = silent
      BY <1>1 DEF DelivererStep, DelivererWakes, DelivererLists, DelivererParks, BeginDrain
    <2>2. Registered' /\ EndersHold' /\ NoWaiterLeak' /\ WakeupComing'
      BY <2>1 DEF HubInv, Registered, EndersHold, NoWaiterLeak, WakeupComing, WakeupDue
    <2>3. TypeOK' /\ CallbackOnItsWay'
      <3> USE DEF HubInv, TypeOK, CallbackOnItsWay
      <3>1. CASE DelivererWakes
        <4>1. flag' \in BOOLEAN /\ ticks' \in Nat
          <5>1. CASE flag /\ flag' = FALSE /\ UNCHANGED ticks
            BY <5>1
          <5>2. CASE ticks > 0 /\ ticks' = ticks - 1 /\ UNCHANGED flag
            BY <5>2
          <5> QED BY <3>1, <5>1, <5>2 DEF DelivererWakes
        <4>2. deliverer'.pc = "listing"
          BY <3>1 DEF DelivererWakes
        <4>3. TypeOK'
          BY <3>1, <4>1 DEF DelivererWakes
        <4> QED BY <4>2, <4>3
      <3>2. CASE DelivererLists
        <4>1. /\ untold' = untold /\ flag' = flag /\ ticks' = ticks /\ draining' = draining
              /\ timers' \in Nat
          BY <3>2 DEF DelivererLists, Timer
        <4>2. ASSUME NEW L \in SUBSET ended,
                     Cardinality(L) = DueBatch \/ (Cardinality(L) < DueBatch /\ untold \subseteq L),
                     deliverer' = MkDeliverer("delivering", L, Cardinality(L) < DueBatch)
              PROVE  TypeOK' /\ CallbackOnItsWay'
          <5>1. /\ deliverer'.pc = "delivering" /\ deliverer'.list = L
                /\ deliverer'.all = (Cardinality(L) < DueBatch)
            BY <4>2
          <5>2. (Cardinality(L) < DueBatch) => untold \subseteq L
            BY <4>2, LongPollAssumption
          <5>3. CallbackOnItsWay'
            BY <2>1, <4>1, <5>1, <5>2, Zenon
          <5>4. deliverer' \in [pc : {"parked", "listing", "delivering"}, list : SUBSET Jobs,
                                all : BOOLEAN]
            BY <4>2
          <5> QED BY <2>1, <4>1, <5>3, <5>4
        <4>3. CASE deliverer' = MkDeliverer("parked", {}, FALSE)
          BY <2>1, <4>1, <4>3
        <4> QED BY <3>2, <4>2, <4>3 DEF DelivererLists
      <3>3. CASE DelivererParks
        <4>1. /\ untold' \subseteq untold /\ flag' = flag /\ ticks' = ticks /\ draining' = draining
              /\ timers' \in Nat
          BY <3>3 DEF DelivererParks, Timer
        <4>2. CASE /\ untold' = untold \ deliverer.list
                   /\ deliverer' = MkDeliverer("parked", {}, deliverer.all)
          BY <2>1, <3>3, <4>1, <4>2 DEF DelivererParks
        <4>3. CASE deliverer' = MkDeliverer("parked", {}, FALSE)
          BY <2>1, <4>1, <4>3
        <4> QED BY <3>3, <4>2, <4>3 DEF DelivererParks
      <3>4. CASE BeginDrain
        BY <2>1, <3>4 DEF BeginDrain
      <3> QED BY <1>1, <3>1, <3>2, <3>3, <3>4 DEF DelivererStep
    <2> QED BY <2>2, <2>3 DEF HubInv
  <1>2. ASSUME NEW j \in Jobs, FailAtClaim(j)
        PROVE  HubInv'
    <2>1. /\ ended' = ended \cup {j} /\ untold' = untold \cup {j} /\ silent' = silent \cup {j}
          /\ waiters' = waiters /\ poll' = poll /\ woken' = woken /\ ender' = ender
          /\ flag' = flag /\ deliverer' = deliverer
      BY <1>2 DEF FailAtClaim
    <2>2. TypeOK'
      BY <1>2 DEF FailAtClaim, HubInv, TypeOK
    <2>3. Registered' /\ EndersHold' /\ NoWaiterLeak' /\ CallbackOnItsWay'
      BY <2>1 DEF HubInv, Registered, EndersHold, NoWaiterLeak, CallbackOnItsWay
    <2>4. WakeupComing'
      BY <2>1 DEF HubInv, WakeupComing, WakeupDue
    <2> QED BY <2>2, <2>3, <2>4 DEF HubInv
  <1> QED BY <1>1, <1>2

LEMMA HubInductive == HubInv /\ [Next]_vars => HubInv'
  <1> SUFFICES ASSUME HubInv, [Next]_vars PROVE HubInv'
    OBVIOUS
  <1>1. CASE UNCHANGED vars
    BY <1>1 DEF vars, HubInv, TypeOK, Registered, EndersHold, NoWaiterLeak,
                CallbackOnItsWay, WakeupComing, WakeupDue
  <1>2. CASE \E q \in Polls : Arrive(q) \/ PollStep(q) \/ Fallback(q) \/ GiveUp(q)
    BY <1>2, PollInv DEF PollStep
  <1>3. CASE \E e \in Enders : EnderStep(e) \/ \E j \in Jobs : End(e, j)
    BY <1>3, EnderInv DEF EnderStep
  <1>4. CASE DelivererStep \/ BeginDrain \/ \E j \in Jobs : FailAtClaim(j)
    BY <1>4, OtherInv
  <1> QED BY <1>1, <1>2, <1>3, <1>4 DEF Next

\* What every step of the hub, its waiters and the deliverer maintains.
THEOREM HubInvariant == Spec => []HubInv
  BY InitInv, HubInductive, PTL DEF Spec

\* No wake-up is lost, whatever the order of Wait, the read, the commit of a
\* terminal state and Notify's two halves (awaitTerminal, Hub.Notify).
THEOREM NoLostWakeup == Spec => []WakeupComing
  <1>1. HubInv => WakeupComing
    BY DEF HubInv
  <1> QED BY <1>1, HubInvariant, PTL

\* The hub never holds the channel of a request that has left the loop
\* (Hub.Forget on every way out of awaitTerminal).
THEOREM WaitersBounded == Spec => []NoWaiterLeak
  <1>1. HubInv => NoWaiterLeak
    BY DEF HubInv
  <1> QED BY <1>1, HubInvariant, PTL

\* The one shared flag is enough for any number of jobs that end: a deliverer
\* parked with the flag down after a list shorter than a batch, and no failing
\* read, has missed no callback whose Notify is over (Hub.Notify, deliverDue).
THEOREM FlagIsEnough == Spec => []CallbackWillBeSeen
  <1>1. HubInv => CallbackWillBeSeen
    BY DEF HubInv, CallbackOnItsWay, CallbackWillBeSeen
  <1> QED BY <1>1, HubInvariant, PTL
=============================================================================
