-------------------------- MODULE CallbacksProofs ---------------------------
(***************************************************************************)
(* Proofs about completion callbacks, for every set of requests and of     *)
(* deliverers, every set of budgets a reload may install and every number  *)
(* of reloads, stops and failing database calls.                           *)
(***************************************************************************)
EXTENDS Callbacks, FiniteSetTheorems, WellFoundedInduction, TLAPS
-----------------------------------------------------------------------------
(* The inductive invariant.                                                *)

DeliveryStates == [state : Outcomes \cup {"none", "gone"}, attempts : Nat, due : BOOLEAN]
DelivererStates ==
  [pc : {"idle", "working", "refusing", "posting", "recording", "stopped"},
   list : [Requests -> Nat \cup {NotListed}], cover : SUBSET Requests,
   cur : Requests \cup {NoRequest}, outcome : Outcomes]

\* No attempt is counted before the delivery is enqueued.
Fresh == \A r \in Requests : delivery[r].state = "none" => delivery[r].attempts = 0

\* A deliverer's outcome is what its attempt justifies: "delivered" after a
\* 2xx answer, another try only within the largest budget.
OutcomeSound(d) ==
  /\ deliverer[d].pc \in {"idle", "working", "stopped"} => deliverer[d].cur = NoRequest
  /\ deliverer[d].pc = "posting" => deliverer[d].outcome = "pending"
  /\ deliverer[d].pc = "refusing" => deliverer[d].outcome # "delivered"
  /\ deliverer[d].pc = "recording" /\ deliverer[d].outcome = "delivered"
       => acked[deliverer[d].cur]
  /\ deliverer[d].pc \in {"recording", "refusing"} /\ deliverer[d].outcome = "pending"
       => deliverer[d].list[deliverer[d].cur] + 1 < Max(Budgets)

\* A list may be stale, but only backwards: a listed delivery that still has
\* the attempt count it was read with is still pending.
ListSound(d) ==
  \A r \in Requests : deliverer[d].list[r] # NotListed =>
    /\ deliverer[d].list[r] < Max(Budgets)
    /\ delivery[r].state # "none"
    /\ delivery[r].state \in Outcomes =>
         /\ deliverer[d].list[r] <= delivery[r].attempts
         /\ deliverer[d].list[r] = delivery[r].attempts => delivery[r].state = "pending"

\* No row counts more attempts than the largest budget, and a pending one
\* has one left.
WithinBudget ==
  \A r \in Requests :
    /\ delivery[r].attempts <= Max(Budgets)
    /\ delivery[r].state = "pending" => delivery[r].attempts < Max(Budgets)

\* A deliverer that has sent r's document and holds its outcome.
Sending(k, r) == k.cur = r /\ k.pc \in {"posting", "recording"}
Unit(b) == IF b THEN 1 ELSE 0

\* The attempts a row shows, or could have shown before it was deleted.
Cap(r) == IF delivery[r].state = "gone" THEN Max(Budgets) ELSE delivery[r].attempts

\* The POSTs of r that a deliverer k accounts for: those before its list was
\* read, and the one in hand.
Among(k, r, cap) == IF k.list[r] = NotListed THEN cap ELSE k.list[r] + Unit(Sending(k, r))
Ceil(k, r) == Among(k, r, Cap(r))
Counted(d, r) == posts[<<d, r>>] <= Ceil(deliverer[d], r) + lost[<<d, r>>]

CallbacksInv ==
  /\ TypeOK /\ Fresh /\ WithinBudget
  /\ \A d \in Deliverers : OutcomeSound(d) /\ ListSound(d)
  /\ \A d \in Deliverers, r \in Requests : Counted(d, r)
-----------------------------------------------------------------------------
(* Facts about the operators.                                              *)

USE DEF MkDelivery, MkDeliverer, NotListed

\* A finite set of numbers that is not empty has a largest member: a smallest
\* subset without one could not be.
LEMMA LargestMember ==
  ASSUME NEW S, S \subseteq Nat, IsFiniteSet(S), S # {}
  PROVE  Max(S) \in S /\ \A y \in S : y <= Max(S)
  <1> DEFINE Bad == {U \in FiniteSubsetsOf(S) :
                       U # {} /\ ~(\E x \in U : \A y \in U : y <= x)}
  <1>1. SUFFICES ASSUME Bad # {} PROVE FALSE
    <2>1. SUFFICES ASSUME Bad = {} PROVE \E x \in S : \A y \in S : x >= y
      BY DEF Max
    <2>2. PICK x \in S : \A y \in S : y <= x
      BY <2>1 DEF FiniteSubsetsOf
    <2> QED BY <2>2
  <1>2. PICK U \in Bad : \A V \in Bad : <<V, U>> \notin StrictSubsetOrdering(S)
    <2>1. IsWellFoundedOn(StrictSubsetOrdering(S), FiniteSubsetsOf(S))
      BY FS_StrictSubsetOrderingWellFounded
    <2>2. Bad \subseteq FiniteSubsetsOf(S)
      OBVIOUS
    <2> HIDE DEF Bad
    <2> QED BY <1>1, <2>1, <2>2, WFMin
  <1>3. PICK x \in U : TRUE
    OBVIOUS
  <1>4. IsFiniteSet(U \ {x}) /\ U \subseteq Nat
    BY FS_RemoveElement DEF FiniteSubsetsOf
  <1>5. U \ {x} \notin Bad
    BY <1>2 DEF StrictSubsetOrdering, FiniteSubsetsOf
  <1>6. CASE U \ {x} = {}
    <2>1. U = {x} /\ x \in Nat
      BY <1>4, <1>6
    <2> QED BY <2>1
  <1>7. CASE U \ {x} # {}
    <2>1. PICK m \in U \ {x} : \A y \in U \ {x} : y <= m
      BY <1>4, <1>5, <1>7 DEF FiniteSubsetsOf
    <2>2. \A y \in U : y <= (IF m <= x THEN x ELSE m)
      BY <1>4, <2>1
    <2> QED BY <2>1, <2>2
  <1> QED BY <1>6, <1>7

LEMMA BudgetMax == Max(Budgets) \in Nat /\ 0 < Max(Budgets) /\ \A b \in Budgets : b <= Max(Budgets)
  <1>1. Budgets \subseteq Nat /\ IsFiniteSet(Budgets) /\ Budgets # {}
    BY CallbacksAssumption
  <1>2. Max(Budgets) \in Budgets /\ \A b \in Budgets : b <= Max(Budgets)
    BY <1>1, LargestMember
  <1>3. Max(Budgets) \in Nat \ {0}
    BY <1>2, CallbacksAssumption
  <1> QED BY <1>2, <1>3

\* The same types, written with names.
LEMMA Types ==
  ASSUME TypeOK
  PROVE  /\ delivery \in [Requests -> DeliveryStates]
         /\ deliverer \in [Deliverers -> DelivererStates]
  BY DEF TypeOK, DeliveryStates, DelivererStates

\* What a deliverer's record holds.
LEMMA DelivererFields ==
  ASSUME TypeOK, NEW d \in Deliverers
  PROVE  /\ deliverer[d].list \in [Requests -> Nat \cup {NotListed}]
         /\ deliverer[d].cover \in SUBSET Requests
         /\ deliverer[d].cur \in Requests \cup {NoRequest}
         /\ deliverer[d].outcome \in Outcomes
         /\ deliverer[d] = MkDeliverer(deliverer[d].pc, deliverer[d].list, deliverer[d].cover,
                                       deliverer[d].cur, deliverer[d].outcome)
  BY Types DEF DelivererStates

LEMMA IdleTypes ==
  /\ Idle \in DelivererStates /\ Stopped \in DelivererStates
  /\ Idle.cur = NoRequest /\ Stopped.cur = NoRequest
  /\ Idle.pc = "idle" /\ Stopped.pc = "stopped"
  /\ Idle.list = NoList /\ Stopped.list = NoList
  BY DEF Idle, Stopped, NoList, DelivererStates, Outcomes
-----------------------------------------------------------------------------
(* How rows and lists change.                                              *)

\* A row is enqueued, waits, counts one more attempt while it is pending, or
\* is pruned; nothing else happens to it.
Evolves(r) ==
  \/ delivery'[r] = delivery[r]
  \/ delivery[r].state = "none"
  \/ delivery[r].state # "none" /\ delivery'[r].state = "gone"
  \/ /\ delivery[r].state = "pending" /\ delivery'[r].state = "pending"
     /\ delivery'[r].attempts = delivery[r].attempts
  \/ /\ delivery[r].state = "pending" /\ delivery'[r].state \in Outcomes
     /\ delivery'[r].attempts = delivery[r].attempts + 1

\* The table after a step is one the code can write.
SoundTable ==
  /\ delivery \in [Requests -> DeliveryStates]
  /\ \A r \in Requests : delivery[r].due => delivery[r].state = "pending"
  /\ Fresh /\ WithinBudget

LEMMA DeliveryFields ==
  ASSUME TypeOK, NEW r \in Requests
  PROVE  /\ delivery[r].state \in Outcomes \cup {"none", "gone"}
         /\ delivery[r].attempts \in Nat /\ delivery[r].due \in BOOLEAN
  BY DEF TypeOK

LEMMA InvTable == ASSUME CallbacksInv PROVE SoundTable
  BY Types DEF CallbacksInv, TypeOK, SoundTable

\* The history has its types.
LEMMA Counters ==
  ASSUME TypeOK
  PROVE  /\ acked \in [Requests -> BOOLEAN]
         /\ posts \in [Deliverers \X Requests -> Nat]
         /\ lost \in [Deliverers \X Requests -> Nat] /\ stops \in Nat /\ faults \in Nat
         /\ (faults' = faults \/ Fault) => faults' \in Nat
  BY DEF TypeOK, Fault

LEMMA CounterUp ==
  ASSUME NEW D, NEW f \in [D -> Nat], NEW x \in D
  PROVE  /\ [f EXCEPT ![x] = @ + 1] \in [D -> Nat]
         /\ [f EXCEPT ![x] = @ + 1][x] = f[x] + 1
         /\ \A y \in D \ {x} : [f EXCEPT ![x] = @ + 1][y] = f[y]
  OBVIOUS

\* What a list knows of a row is never more than the row's own count, and
\* always below the budget.
LEMMA CeilFacts ==
  ASSUME CallbacksInv, NEW d \in Deliverers, NEW r \in Requests
  PROVE  /\ Cap(r) \in Nat /\ Cap(r) <= Max(Budgets) /\ Max(Budgets) \in Nat
         /\ posts[<<d, r>>] \in Nat /\ lost[<<d, r>>] \in Nat
         /\ deliverer[d].list[r] # NotListed =>
              /\ deliverer[d].list[r] \in Nat /\ deliverer[d].list[r] <= Cap(r)
              /\ deliverer[d].list[r] < Max(Budgets)
  <1>1. /\ delivery[r].attempts \in Nat /\ Max(Budgets) \in Nat
        /\ delivery[r].attempts <= Max(Budgets)
        /\ delivery[r].state \in Outcomes \cup {"none", "gone"}
    BY DeliveryFields, BudgetMax DEF CallbacksInv, WithinBudget
  <1>2. Cap(r) \in Nat /\ Cap(r) <= Max(Budgets)
    BY <1>1 DEF Cap
  <1>3. posts[<<d, r>>] \in Nat /\ lost[<<d, r>>] \in Nat
    BY Counters DEF CallbacksInv
  <1>4. ASSUME deliverer[d].list[r] # NotListed
        PROVE  /\ deliverer[d].list[r] \in Nat /\ deliverer[d].list[r] <= Cap(r)
               /\ deliverer[d].list[r] < Max(Budgets)
    <2>1. deliverer[d].list[r] \in Nat
      BY <1>4, DelivererFields DEF CallbacksInv
    <2>2. /\ deliverer[d].list[r] < Max(Budgets) /\ delivery[r].state # "none"
          /\ delivery[r].state \in Outcomes => deliverer[d].list[r] <= delivery[r].attempts
      BY <1>4 DEF CallbacksInv, ListSound
    <2> QED BY <1>1, <2>1, <2>2 DEF Cap
  <1> QED BY <1>1, <1>2, <1>3, <1>4

LEMMA ListsStaySound ==
  ASSUME CallbacksInv, NEW d \in Deliverers, \A r \in Requests : Evolves(r),
         \A r \in Requests : deliverer'[d].list[r] # NotListed =>
           \/ deliverer'[d].list[r] = deliverer[d].list[r]
           \/ /\ delivery' = delivery /\ delivery[r].state = "pending"
              /\ deliverer'[d].list[r] = delivery[r].attempts
  PROVE  ListSound(d)'
  <1> SUFFICES ASSUME NEW r \in Requests, deliverer'[d].list[r] # NotListed
               PROVE  /\ deliverer'[d].list[r] < Max(Budgets)
                      /\ delivery'[r].state # "none"
                      /\ delivery'[r].state \in Outcomes =>
                           /\ deliverer'[d].list[r] <= delivery'[r].attempts
                           /\ deliverer'[d].list[r] = delivery'[r].attempts
                                => delivery'[r].state = "pending"
    BY DEF ListSound
  <1>1. delivery[r].attempts \in Nat /\ deliverer[d].list[r] \in Nat \cup {NotListed}
    BY DeliveryFields, DelivererFields DEF CallbacksInv
  <1>2. CASE deliverer'[d].list[r] = deliverer[d].list[r]
    <2>1. /\ delivery[r].state # "none" /\ deliverer[d].list[r] < Max(Budgets)
          /\ delivery[r].state \in Outcomes =>
               /\ deliverer[d].list[r] <= delivery[r].attempts
               /\ deliverer[d].list[r] = delivery[r].attempts => delivery[r].state = "pending"
      BY <1>2 DEF CallbacksInv, ListSound
    <2>2. Evolves(r)
      OBVIOUS
    <2> QED BY <1>1, <1>2, <2>1, <2>2 DEF Evolves, Outcomes
  <1>3. CASE /\ delivery' = delivery /\ delivery[r].state = "pending"
             /\ deliverer'[d].list[r] = delivery[r].attempts
    <2>1. delivery[r].attempts < Max(Budgets)
      BY <1>3 DEF CallbacksInv, WithinBudget
    <2> QED BY <1>1, <1>3, <2>1
  <1> QED BY <1>2, <1>3

\* A row's count never falls, and a deleted row counts as the whole budget.
LEMMA CapGrows ==
  ASSUME CallbacksInv, SoundTable', NEW r \in Requests, Evolves(r)
  PROVE  Cap(r)' \in Nat /\ Cap(r) <= Cap(r)'
  <1>1. /\ delivery[r].attempts \in Nat /\ delivery'[r].attempts \in Nat
        /\ Max(Budgets) \in Nat /\ delivery[r].attempts <= Max(Budgets)
        /\ delivery[r].state = "none" => delivery[r].attempts = 0
    <2>1. delivery'[r] \in DeliveryStates
      BY DEF SoundTable
    <2> QED BY <2>1, DeliveryFields, BudgetMax
            DEF CallbacksInv, WithinBudget, Fresh, DeliveryStates
  <1>2. /\ Cap(r) = IF delivery[r].state = "gone" THEN Max(Budgets) ELSE delivery[r].attempts
        /\ Cap(r)' = IF delivery'[r].state = "gone" THEN Max(Budgets) ELSE delivery'[r].attempts
    BY DEF Cap
  <1> QED BY <1>1, <1>2 DEF Evolves

\* A deliverer that does not move stays sound.
LEMMA OthersStaySound ==
  ASSUME CallbacksInv, NEW d \in Deliverers, deliverer'[d] = deliverer[d],
         SoundTable', \A r \in Requests : Evolves(r), \A r \in Requests : acked[r] => acked'[r],
         \A r \in Requests : posts'[<<d, r>>] = posts[<<d, r>>] /\ lost'[<<d, r>>] = lost[<<d, r>>]
  PROVE  /\ OutcomeSound(d)' /\ ListSound(d)'
         /\ \A r \in Requests : Counted(d, r)'
  <1>1. ListSound(d)'
    BY ListsStaySound
  <1>2. OutcomeSound(d)'
    <2>1. OutcomeSound(d)
      BY DEF CallbacksInv
    <2>2. deliverer[d].pc = "recording" => deliverer[d].cur \in Requests
      BY DEF CallbacksInv, TypeOK, Listed
    <2> QED BY <2>1, <2>2 DEF OutcomeSound
  <1>3. ASSUME NEW r \in Requests PROVE Counted(d, r)'
    <2>1. /\ Cap(r) \in Nat /\ Cap(r)' \in Nat /\ Cap(r) <= Cap(r)'
          /\ posts[<<d, r>>] \in Nat /\ lost[<<d, r>>] \in Nat
      BY CapGrows, CeilFacts
    <2>2. posts[<<d, r>>] <= Ceil(deliverer[d], r) + lost[<<d, r>>]
      BY DEF CallbacksInv, Counted
    <2>3. CASE deliverer[d].list[r] = NotListed
      <3>1. Ceil(deliverer[d], r) = Cap(r) /\ Ceil(deliverer[d], r)' = Cap(r)'
        BY <2>3 DEF Ceil, Among
      <3> QED BY <2>1, <2>2, <3>1 DEF Counted
    <2>4. CASE deliverer[d].list[r] # NotListed
      <3>1. Ceil(deliverer[d], r)' = Ceil(deliverer[d], r)
        BY <2>4 DEF Ceil, Among, Sending
      <3> QED BY <2>2, <3>1 DEF Counted
    <2> QED BY <2>3, <2>4
  <1> QED BY <1>1, <1>2, <1>3

\* The steps that change rows only: deliverers and counts stay.
LEMMA RowMoves ==
  ASSUME CallbacksInv, NEW r \in Requests, NEW v \in DeliveryStates,
         delivery' = [delivery EXCEPT ![r] = v],
         v.due => v.state = "pending", v.state # "none",
         \/ v.state = "gone" /\ delivery[r].state # "none" /\ v.attempts = 0
         \/ delivery[r].state \in {"none", "pending"} /\ v.state = "pending"
              /\ v.attempts = delivery[r].attempts,
         UNCHANGED <<deliverer, config, stops, faults, history>>
  PROVE  CallbacksInv'
  <1>1. /\ delivery'[r] = v /\ \A q \in Requests \ {r} : delivery'[q] = delivery[q]
        /\ delivery' \in [Requests -> DeliveryStates]
    BY Types DEF CallbacksInv
  <1>2. /\ deliverer' = deliverer /\ allowed' = allowed /\ budget' = budget
        /\ reloads' = reloads /\ stops' = stops /\ faults' = faults
        /\ posts' = posts /\ acked' = acked /\ lost' = lost
    BY DEF config, history
  <1>3. TypeOK'
    <2>1. \A q \in Requests : delivery'[q].due => delivery'[q].state = "pending"
      BY <1>1 DEF CallbacksInv, TypeOK
    <2>2. \A d \in Deliverers : Listed(d)' = Listed(d)
      BY <1>2 DEF Listed
    <2> QED BY <1>1, <1>2, <2>1, <2>2 DEF CallbacksInv, TypeOK, DeliveryStates
  <1>4. Fresh'
    BY <1>1 DEF CallbacksInv, Fresh
  <1>5. \A q \in Requests : Evolves(q)
    BY <1>1 DEF Evolves
  <1>6. WithinBudget'
    <2> SUFFICES ASSUME NEW q \in Requests
                 PROVE  /\ delivery'[q].attempts <= Max(Budgets)
                        /\ delivery'[q].state = "pending" => delivery'[q].attempts < Max(Budgets)
      BY DEF WithinBudget
    <2>1. /\ delivery[q].attempts <= Max(Budgets)
          /\ delivery[q].state = "pending" => delivery[q].attempts < Max(Budgets)
          /\ delivery[q].state = "none" => delivery[q].attempts = 0
          /\ Max(Budgets) \in Nat /\ 0 < Max(Budgets)
      BY BudgetMax DEF CallbacksInv, WithinBudget, Fresh
    <2>2. CASE q # r
      BY <1>1, <2>1, <2>2
    <2>3. CASE q = r
      BY <1>1, <2>1, <2>3
    <2> QED BY <2>2, <2>3
  <1>7. SoundTable'
    BY <1>1, <1>3, <1>4, <1>6 DEF SoundTable, TypeOK
  <1>8. \A d \in Deliverers : /\ OutcomeSound(d)' /\ ListSound(d)'
                              /\ \A q \in Requests : Counted(d, q)'
    BY <1>2, <1>5, <1>7, OthersStaySound
  <1> QED BY <1>3, <1>4, <1>6, <1>8 DEF CallbacksInv

\* The steps of one deliverer.
LEMMA DelivererMoves ==
  ASSUME CallbacksInv, NEW d \in Deliverers, NEW k \in DelivererStates,
         deliverer' = [deliverer EXCEPT ![d] = k],
         SoundTable', UNCHANGED config, stops' \in Nat, faults' \in Nat,
         \A r \in Requests : acked[r] => acked'[r], acked' \in [Requests -> BOOLEAN],
         posts' \in [Deliverers \X Requests -> Nat], lost' \in [Deliverers \X Requests -> Nat],
         \A e \in Deliverers \ {d}, r \in Requests :
           posts'[<<e, r>>] = posts[<<e, r>>] /\ lost'[<<e, r>>] = lost[<<e, r>>],
         \A r \in Requests : Evolves(r),
         k.pc \in {"refusing", "posting", "recording"}
           => k.cur \in Requests /\ k.list[k.cur] # NotListed,
         OutcomeSound(d)',
         \A r \in Requests : k.list[r] # NotListed =>
           \/ k.list[r] = deliverer[d].list[r]
           \/ /\ delivery' = delivery /\ delivery[r].state = "pending"
              /\ k.list[r] = delivery[r].attempts,
         \A r \in Requests : posts'[<<d, r>>] <= Among(k, r, Cap(r)') + lost'[<<d, r>>]
  PROVE  CallbacksInv'
  <1>1. /\ deliverer'[d] = k /\ \A e \in Deliverers \ {d} : deliverer'[e] = deliverer[e]
        /\ deliverer' \in [Deliverers -> DelivererStates]
    BY Types DEF CallbacksInv
  <1>2. TypeOK'
    <2>1. ASSUME NEW e \in Deliverers, deliverer'[e].pc \in {"refusing", "posting", "recording"}
          PROVE  deliverer'[e].cur \in Listed(e)'
      <3>1. CASE e = d
        BY <1>1, <2>1, <3>1 DEF Listed
      <3>2. CASE e # d
        BY <1>1, <2>1, <3>2 DEF CallbacksInv, TypeOK, Listed
      <3> QED BY <3>1, <3>2
    <2>2. allowed' \subseteq Requests /\ budget' \in Budgets /\ reloads' \in Nat
      BY DEF CallbacksInv, TypeOK, config
    <2> QED BY <1>1, <2>1, <2>2 DEF TypeOK, SoundTable, DeliveryStates, DelivererStates
  <1>3. ASSUME NEW e \in Deliverers
        PROVE  OutcomeSound(e)' /\ ListSound(e)' /\ \A r \in Requests : Counted(e, r)'
    <2>1. CASE e = d
      <3>1. ListSound(d)'
        BY <1>1, ListsStaySound
      <3>2. ASSUME NEW r \in Requests PROVE Counted(d, r)'
        <4>1. Ceil(deliverer[d], r)' = Among(k, r, Cap(r)')
          BY <1>1 DEF Ceil, Among, Sending
        <4>2. posts'[<<d, r>>] <= Among(k, r, Cap(r)') + lost'[<<d, r>>]
          OBVIOUS
        <4> QED BY <4>1, <4>2 DEF Counted
      <3> QED BY <2>1, <3>1, <3>2
    <2>2. CASE e # d
      BY <1>1, <2>2, OthersStaySound
    <2> QED BY <2>1, <2>2
  <1> QED BY <1>2, <1>3 DEF CallbacksInv, SoundTable
-----------------------------------------------------------------------------
(* The actions.                                                            *)

LEMMA InitInv == Init => CallbacksInv
  <1> SUFFICES ASSUME Init PROVE CallbacksInv
    OBVIOUS
  <1> USE CallbacksAssumption
  <1>1. /\ delivery \in [Requests -> DeliveryStates]
        /\ \A r \in Requests : delivery[r] = NoDelivery /\ NoDelivery.due = FALSE
    BY DEF Init, NoDelivery, DeliveryStates, Outcomes
  <1>2. /\ deliverer \in [Deliverers -> DelivererStates]
        /\ \A d \in Deliverers : /\ deliverer[d].cur = NoRequest /\ deliverer[d].list = NoList
                                 /\ deliverer[d].pc \in {"idle", "stopped"}
    BY IdleTypes DEF Init
  <1>3. TypeOK
    BY <1>1, <1>2 DEF Init, TypeOK, DeliveryStates, DelivererStates, Outcomes
  <1>4. Fresh
    BY <1>1 DEF Fresh, NoDelivery
  <1>5. WithinBudget
    BY <1>1, BudgetMax DEF WithinBudget, NoDelivery
  <1>6. \A d \in Deliverers : OutcomeSound(d) /\ ListSound(d)
    BY <1>2 DEF OutcomeSound, ListSound, NoList
  <1>7. ASSUME NEW d \in Deliverers, NEW r \in Requests PROVE Counted(d, r)
    <2>1. posts[<<d, r>>] = 0 /\ lost[<<d, r>>] = 0
      BY DEF Init
    <2>2. Ceil(deliverer[d], r) = 0
      BY <1>1, <1>2 DEF Ceil, Among, Cap, NoList, NoDelivery
    <2> QED BY <2>1, <2>2 DEF Counted
  <1> QED BY <1>3, <1>4, <1>5, <1>6, <1>7 DEF CallbacksInv

LEMMA RowSteps ==
  ASSUME CallbacksInv, NEW r \in Requests, Enqueue(r) \/ BackoffOver(r) \/ Prune(r)
  PROVE  CallbacksInv'
  <1>1. delivery[r].attempts \in Nat
    BY DeliveryFields DEF CallbacksInv
  <1>2. CASE Enqueue(r)
    <2> DEFINE v == MkDelivery("pending", 0, TRUE)
    <2>1. v \in DeliveryStates /\ v.state = "pending" /\ v.attempts = 0
      BY DEF DeliveryStates, Outcomes
    <2>2. /\ delivery[r].state = "none" /\ delivery[r].attempts = 0
          /\ delivery' = [delivery EXCEPT ![r] = v]
          /\ UNCHANGED <<deliverer, config, stops, faults, history>>
      BY <1>2 DEF Enqueue, CallbacksInv, Fresh
    <2> HIDE DEF v
    <2> QED BY <2>1, <2>2, RowMoves
  <1>3. CASE BackoffOver(r)
    <2> DEFINE v == MkDelivery("pending", delivery[r].attempts, TRUE)
    <2>1. v \in DeliveryStates /\ v.state = "pending" /\ v.attempts = delivery[r].attempts
      BY <1>1 DEF DeliveryStates, Outcomes
    <2>2. /\ delivery[r].state = "pending" /\ delivery' = [delivery EXCEPT ![r] = v]
          /\ UNCHANGED <<deliverer, config, stops, faults, history>>
      BY <1>3 DEF BackoffOver
    <2> HIDE DEF v
    <2> QED BY <2>1, <2>2, RowMoves
  <1>4. CASE Prune(r)
    <2>1. /\ Pruned \in DeliveryStates /\ Pruned.state = "gone" /\ Pruned.due = FALSE
          /\ Pruned.attempts = 0
      BY DEF Pruned, DeliveryStates
    <2>2. /\ delivery[r].state # "none" /\ delivery' = [delivery EXCEPT ![r] = Pruned]
          /\ UNCHANGED <<deliverer, config, stops, faults, history>>
      BY <1>4 DEF Prune, Outcomes
    <2> QED BY <2>1, <2>2, RowMoves
  <1> QED BY <1>2, <1>3, <1>4

LEMMA ReloadInv ==
  ASSUME CallbacksInv, NEW S \in SUBSET Requests, NEW b \in Budgets, Reload(S, b)
  PROVE  CallbacksInv'
  <1>1. /\ delivery' = delivery /\ deliverer' = deliverer /\ stops' = stops /\ faults' = faults
        /\ posts' = posts /\ acked' = acked /\ lost' = lost
        /\ allowed' = S /\ budget' = b /\ reloads > 0 /\ reloads' = reloads - 1
    BY DEF Reload, history
  <1>2. TypeOK'
    BY <1>1 DEF CallbacksInv, TypeOK, Listed
  <1>3. Fresh' /\ WithinBudget' /\ SoundTable'
    BY <1>1, InvTable DEF CallbacksInv, Fresh, WithinBudget, SoundTable
  <1>4. \A d \in Deliverers : /\ OutcomeSound(d)' /\ ListSound(d)'
                              /\ \A q \in Requests : Counted(d, q)'
    <2>1. \A r \in Requests : Evolves(r)
      BY <1>1 DEF Evolves
    <2> QED BY <1>1, <1>3, <2>1, OthersStaySound
  <1> QED BY <1>2, <1>3, <1>4 DEF CallbacksInv

\* What the history of d's requests may become when nobody else acts.
OwnHistory(d) ==
  /\ \A r \in Requests : acked[r] => acked'[r]
  /\ acked' \in [Requests -> BOOLEAN]
  /\ posts' \in [Deliverers \X Requests -> Nat] /\ lost' \in [Deliverers \X Requests -> Nat]
  /\ \A e \in Deliverers \ {d}, r \in Requests :
       posts'[<<e, r>>] = posts[<<e, r>>] /\ lost'[<<e, r>>] = lost[<<e, r>>]

\* A deliverer that moves without touching a row.
LEMMA QuietMoves ==
  ASSUME CallbacksInv, NEW d \in Deliverers, NEW k \in DelivererStates,
         deliverer' = [deliverer EXCEPT ![d] = k],
         UNCHANGED <<delivery, config>>, stops' \in Nat, faults' \in Nat, OwnHistory(d),
         k.pc \in {"refusing", "posting", "recording"}
           => k.cur \in Requests /\ k.list[k.cur] # NotListed,
         OutcomeSound(d)',
         \A r \in Requests : k.list[r] # NotListed =>
           \/ k.list[r] = deliverer[d].list[r]
           \/ delivery[r].state = "pending" /\ k.list[r] = delivery[r].attempts,
         \A r \in Requests : posts'[<<d, r>>] <= Ceil(k, r) + lost'[<<d, r>>]
  PROVE  CallbacksInv'
  <1>1. SoundTable'
    <2>1. SoundTable
      BY InvTable
    <2> QED BY <2>1 DEF SoundTable, Fresh, WithinBudget
  <1>2. \A r \in Requests : Evolves(r)
    BY DEF Evolves
  <1>3. \A r \in Requests : Among(k, r, Cap(r)') = Ceil(k, r)
    BY DEF Ceil, Among, Cap
  <1>4. \A r \in Requests : posts'[<<d, r>>] <= Among(k, r, Cap(r)') + lost'[<<d, r>>]
    BY <1>3
  <1> QED BY <1>1, <1>2, <1>4, DelivererMoves DEF OwnHistory

\* A deliverer that sends nothing now and keeps, drops or reads afresh what
\* it lists: what it sent is in the rows, or counted as not recorded.
LEMMA Settles ==
  ASSUME CallbacksInv, NEW d \in Deliverers, NEW k, NEW r \in Requests,
         k.pc \notin {"posting", "recording"},
         k.list[r] # NotListed =>
           \/ k.list[r] = deliverer[d].list[r]
           \/ delivery[r].state = "pending" /\ k.list[r] = delivery[r].attempts,
         posts'[<<d, r>>] = posts[<<d, r>>], lost'[<<d, r>>] \in Nat,
         lost'[<<d, r>>] >= lost[<<d, r>>] + Unit(Sending(deliverer[d], r))
  PROVE  posts'[<<d, r>>] <= Ceil(k, r) + lost'[<<d, r>>]
  <1> DEFINE l == deliverer[d].list[r]
             a == Unit(Sending(deliverer[d], r))
  <1>1. posts[<<d, r>>] <= Ceil(deliverer[d], r) + lost[<<d, r>>]
    BY DEF CallbacksInv, Counted
  <1>2. /\ Cap(r) \in Nat /\ posts[<<d, r>>] \in Nat /\ lost[<<d, r>>] \in Nat
        /\ l # NotListed => l \in Nat /\ l <= Cap(r)
    BY CeilFacts
  <1>3. a = 0 \/ a = 1
    BY DEF Unit
  <1>4. /\ l = NotListed => Ceil(deliverer[d], r) = Cap(r)
        /\ l # NotListed => Ceil(deliverer[d], r) = l + a
    BY DEF Ceil, Among
  <1>5. /\ k.list[r] = NotListed => Ceil(k, r) = Cap(r)
        /\ k.list[r] # NotListed => Ceil(k, r) = k.list[r] + 0
    BY DEF Ceil, Among, Unit, Sending
  <1>6. k.list[r] # NotListed /\ k.list[r] # l => k.list[r] = Cap(r)
    BY DEF Cap
  <1> HIDE DEF l, a
  <1>7. lost'[<<d, r>>] >= lost[<<d, r>>] + a
    BY DEF a
  <1>8. CASE k.list[r] = NotListed
    BY <1>1, <1>2, <1>3, <1>4, <1>5, <1>7, <1>8
  <1>9. CASE k.list[r] # NotListed /\ k.list[r] = l
    BY <1>1, <1>2, <1>3, <1>4, <1>5, <1>7, <1>9
  <1>10. CASE k.list[r] # NotListed /\ k.list[r] # l
    BY <1>1, <1>2, <1>3, <1>4, <1>5, <1>6, <1>7, <1>10
  <1> QED BY <1>8, <1>9, <1>10

\* Such a step, when it changes no history.
LEMMA SilentMoves ==
  ASSUME CallbacksInv, NEW d \in Deliverers, NEW k \in DelivererStates,
         deliverer' = [deliverer EXCEPT ![d] = k],
         UNCHANGED <<delivery, config>>, stops' \in Nat, faults' \in Nat, UNCHANGED history,
         deliverer[d].pc \notin {"posting", "recording"}, k.pc \notin {"posting", "recording"},
         k.pc = "refusing" => k.cur \in Requests /\ k.list[k.cur] # NotListed,
         OutcomeSound(d)',
         \A r \in Requests : k.list[r] # NotListed =>
           \/ k.list[r] = deliverer[d].list[r]
           \/ delivery[r].state = "pending" /\ k.list[r] = delivery[r].attempts
  PROVE  CallbacksInv'
  <1>1. posts' = posts /\ lost' = lost /\ acked' = acked
    BY DEF history
  <1>2. OwnHistory(d)
    BY <1>1, Counters DEF OwnHistory, CallbacksInv
  <1>3. ASSUME NEW r \in Requests PROVE posts'[<<d, r>>] <= Ceil(k, r) + lost'[<<d, r>>]
    <2>1. Unit(Sending(deliverer[d], r)) = 0 /\ lost[<<d, r>>] \in Nat
      BY CeilFacts DEF Unit, Sending
    <2> QED BY <1>1, <2>1, Settles
  <1> QED BY <1>2, <1>3, QuietMoves

\* The record a deliverer has after an item.
After(d, r) == IF Listed(d) = {r} THEN Idle
               ELSE MkDeliverer("working", [deliverer[d].list EXCEPT ![r] = NotListed],
                                deliverer[d].cover, NoRequest, "pending")

LEMMA AfterItem ==
  ASSUME TypeOK, NEW d \in Deliverers, NEW r \in Requests
  PROVE  /\ After(d, r) \in DelivererStates
         /\ After(d, r).pc \in {"idle", "working"} /\ After(d, r).cur = NoRequest
         /\ After(d, r).list[r] = NotListed
         /\ \A q \in Requests : After(d, r).list[q] # NotListed =>
              After(d, r).list[q] = deliverer[d].list[q]
  <1>1. /\ deliverer[d].list \in [Requests -> Nat \cup {NotListed}]
        /\ deliverer[d].cover \in SUBSET Requests
    BY DelivererFields
  <1>2. CASE Listed(d) = {r}
    BY <1>2, IdleTypes DEF After, NoList
  <1>3. CASE Listed(d) # {r}
    <2> DEFINE l == [deliverer[d].list EXCEPT ![r] = NotListed]
    <2>1. /\ l \in [Requests -> Nat \cup {NotListed}] /\ l[r] = NotListed
          /\ \A q \in Requests : l[q] # NotListed => l[q] = deliverer[d].list[q]
      BY <1>1
    <2>2. After(d, r) = MkDeliverer("working", l, deliverer[d].cover, NoRequest, "pending")
      BY <1>3 DEF After
    <2> HIDE DEF l
    <2> QED BY <1>1, <2>1, <2>2 DEF DelivererStates, Outcomes
  <1> QED BY <1>2, <1>3

LEMMA StartInv ==
  ASSUME CallbacksInv, NEW d \in Deliverers, Start(d)
  PROVE  CallbacksInv'
  <1>1. /\ deliverer[d].pc = "stopped" /\ deliverer' = [deliverer EXCEPT ![d] = Idle]
        /\ UNCHANGED <<delivery, config>> /\ stops' = stops /\ faults' = faults
        /\ UNCHANGED history
    BY DEF Start
  <1>2. deliverer'[d] = Idle
    BY <1>1, Types DEF CallbacksInv
  <1>3. OutcomeSound(d)'
    BY <1>2, IdleTypes DEF OutcomeSound
  <1>4. stops \in Nat /\ faults \in Nat
    BY Counters DEF CallbacksInv
  <1>5. \A r \in Requests : Idle.list[r] = NotListed
    BY IdleTypes DEF NoList
  <1> QED BY <1>1, <1>3, <1>4, <1>5, IdleTypes, SilentMoves

\* An outcome that is not recorded is counted, if there was a POST.
LEMMA UnrecordedCounts ==
  ASSUME CallbacksInv, NEW d \in Deliverers, lost' = Unrecorded(d)
  PROVE  /\ lost' \in [Deliverers \X Requests -> Nat]
         /\ \A r \in Requests :
              lost'[<<d, r>>] >= lost[<<d, r>>] + Unit(Sending(deliverer[d], r))
         /\ \A e \in Deliverers \ {d}, r \in Requests : lost'[<<e, r>>] = lost[<<e, r>>]
  <1>0. lost \in [Deliverers \X Requests -> Nat]
    BY Counters DEF CallbacksInv
  <1>1. CASE deliverer[d].pc \notin {"posting", "recording"}
    <2>1. lost' = lost /\ \A r \in Requests : Unit(Sending(deliverer[d], r)) = 0
      BY <1>1 DEF Unrecorded, Unit, Sending
    <2> QED BY <1>0, <2>1
  <1>2. CASE deliverer[d].pc \in {"posting", "recording"}
    <2> DEFINE c == deliverer[d].cur
    <2>1. lost' = [lost EXCEPT ![<<d, c>>] = @ + 1] /\ c \in Requests
      BY <1>2 DEF Unrecorded, CallbacksInv, TypeOK, Listed
    <2>2. \A r \in Requests : Unit(Sending(deliverer[d], r)) = IF r = c THEN 1 ELSE 0
      BY <1>2 DEF Unit, Sending
    <2> HIDE DEF c
    <2>3. /\ lost' \in [Deliverers \X Requests -> Nat]
          /\ lost'[<<d, c>>] = lost[<<d, c>>] + 1
          /\ \A y \in (Deliverers \X Requests) \ {<<d, c>>} : lost'[y] = lost[y]
      BY <1>0, <2>1, CounterUp
    <2>4. \A r \in Requests :
            lost'[<<d, r>>] = IF r = c THEN lost[<<d, r>>] + 1 ELSE lost[<<d, r>>]
      BY <2>1, <2>3
    <2>5. \A e \in Deliverers \ {d}, r \in Requests : lost'[<<e, r>>] = lost[<<e, r>>]
      BY <2>1, <2>3
    <2>6. \A r \in Requests : lost[<<d, r>>] \in Nat
      BY <1>0
    <2> QED BY <2>2, <2>3, <2>4, <2>5, <2>6
  <1> QED BY <1>1, <1>2

LEMMA HaltInv ==
  ASSUME CallbacksInv, NEW d \in Deliverers, Halt(d)
  PROVE  CallbacksInv'
  <1>1. /\ deliverer' = [deliverer EXCEPT ![d] = Stopped]
        /\ UNCHANGED <<delivery, config>> /\ stops > 0 /\ stops' = stops - 1 /\ faults' = faults
        /\ posts' = posts /\ acked' = acked /\ lost' = Unrecorded(d)
    BY DEF Halt
  <1>2. deliverer'[d] = Stopped
    BY <1>1, Types DEF CallbacksInv
  <1>3. OutcomeSound(d)'
    BY <1>2, IdleTypes DEF OutcomeSound
  <1>4. stops' \in Nat /\ faults' \in Nat
    BY <1>1, Counters DEF CallbacksInv
  <1>5. \A r \in Requests : Stopped.list[r] = NotListed
    BY IdleTypes DEF NoList
  <1>6. /\ lost' \in [Deliverers \X Requests -> Nat]
        /\ \A r \in Requests :
             lost'[<<d, r>>] >= lost[<<d, r>>] + Unit(Sending(deliverer[d], r))
        /\ \A e \in Deliverers \ {d}, r \in Requests : lost'[<<e, r>>] = lost[<<e, r>>]
    BY <1>1, UnrecordedCounts
  <1>7. OwnHistory(d)
    BY <1>1, <1>6, Counters DEF OwnHistory, CallbacksInv
  <1>8. ASSUME NEW r \in Requests PROVE posts'[<<d, r>>] <= Ceil(Stopped, r) + lost'[<<d, r>>]
    <2>1. lost'[<<d, r>>] \in Nat /\ posts'[<<d, r>>] = posts[<<d, r>>]
      BY <1>1, <1>6
    <2> QED BY <1>5, <1>6, <2>1, IdleTypes, Settles
  <1> QED BY <1>1, <1>3, <1>4, <1>5, <1>7, <1>8, IdleTypes, QuietMoves

LEMMA ListDueInv ==
  ASSUME CallbacksInv, NEW d \in Deliverers, ListDue(d)
  PROVE  CallbacksInv'
  <1>1. PICK L \in SUBSET Due : deliverer' = [deliverer EXCEPT ![d] =
            MkDeliverer("working",
                        [r \in Requests |-> IF r \in L THEN delivery[r].attempts ELSE NotListed],
                        allowed, NoRequest, "pending")]
    BY DEF ListDue
  <1> DEFINE l == [r \in Requests |-> IF r \in L THEN delivery[r].attempts ELSE NotListed]
             k == MkDeliverer("working", l, allowed, NoRequest, "pending")
  <1>2. /\ deliverer[d].pc = "idle" /\ deliverer' = [deliverer EXCEPT ![d] = k]
        /\ UNCHANGED <<delivery, config>> /\ stops' = stops /\ faults' = faults
        /\ UNCHANGED history
    BY <1>1 DEF ListDue
  <1>3. /\ l \in [Requests -> Nat \cup {NotListed}]
        /\ \A r \in Requests : l[r] # NotListed =>
             delivery[r].state = "pending" /\ l[r] = delivery[r].attempts
    BY DeliveryFields DEF Due, CallbacksInv
  <1> HIDE DEF l
  <1>4. /\ k \in DelivererStates /\ k.pc = "working" /\ k.cur = NoRequest /\ k.list = l
    BY <1>3 DEF DelivererStates, Outcomes, CallbacksInv, TypeOK
  <1> HIDE DEF k
  <1>5. deliverer'[d] = k
    BY <1>2, Types DEF CallbacksInv
  <1>6. OutcomeSound(d)'
    BY <1>4, <1>5 DEF OutcomeSound
  <1>7. stops \in Nat /\ faults \in Nat
    BY Counters DEF CallbacksInv
  <1> QED BY <1>2, <1>3, <1>4, <1>6, <1>7, SilentMoves

\* What classify makes of an answer: only a 2xx reads as delivered, and
\* another try stays within the largest budget.
LEMMA ClassifySound ==
  ASSUME CallbacksInv, NEW d \in Deliverers, NEW r \in Requests,
         deliverer[d].list[r] # NotListed,
         NEW answer \in {"ok", "permanent", "transient"}
  PROVE  /\ Classify(d, r, answer) \in Outcomes
         /\ Classify(d, r, answer) = "delivered" <=> answer = "ok"
         /\ Classify(d, r, answer) = "pending" => deliverer[d].list[r] + 1 < Max(Budgets)
  <1>1. deliverer[d].list[r] \in Nat
    BY DelivererFields DEF CallbacksInv
  <1>2. budget \in Nat /\ Max(Budgets) \in Nat /\ budget <= Max(Budgets)
    BY BudgetMax, CallbacksAssumption DEF CallbacksInv, TypeOK
  <1> QED BY <1>1, <1>2 DEF Classify, Outcomes

\* The record of a deliverer with an item in hand.
LEMMA HandlingType ==
  ASSUME TypeOK, NEW d \in Deliverers, NEW r \in Requests, NEW o \in Outcomes,
         NEW pc \in {"refusing", "posting", "recording"}
  PROVE  /\ Handling(d, pc, r, o) \in DelivererStates
         /\ Handling(d, pc, r, o).pc = pc /\ Handling(d, pc, r, o).cur = r
         /\ Handling(d, pc, r, o).outcome = o
         /\ Handling(d, pc, r, o).list = deliverer[d].list
  <1>1. /\ deliverer[d].list \in [Requests -> Nat \cup {NotListed}]
        /\ deliverer[d].cover \in SUBSET Requests
    BY DelivererFields
  <1> QED BY <1>1 DEF Handling, DelivererStates

LEMMA RefuseInv ==
  ASSUME CallbacksInv, NEW d \in Deliverers, NEW r \in Requests, Refuse(d, r)
  PROVE  CallbacksInv'
  <1> DEFINE o == Classify(d, r, "transient")
             k == Handling(d, "refusing", r, o)
  <1>1. /\ deliverer[d].pc = "working" /\ deliverer[d].list[r] # NotListed
        /\ deliverer' = [deliverer EXCEPT ![d] = k]
        /\ UNCHANGED <<delivery, config>> /\ stops' = stops /\ faults' = faults
        /\ UNCHANGED history
    BY DEF Refuse, Listed
  <1>2. /\ o \in Outcomes /\ o # "delivered"
        /\ o = "pending" => deliverer[d].list[r] + 1 < Max(Budgets)
    BY <1>1, ClassifySound
  <1> HIDE DEF o
  <1>3. /\ k \in DelivererStates /\ k.pc = "refusing" /\ k.cur = r /\ k.outcome = o
        /\ k.list = deliverer[d].list
    BY <1>2, HandlingType DEF CallbacksInv
  <1> HIDE DEF k
  <1>4. deliverer'[d] = k
    BY <1>1, Types DEF CallbacksInv
  <1>5. OutcomeSound(d)'
    BY <1>2, <1>3, <1>4 DEF OutcomeSound
  <1>6. stops \in Nat /\ faults \in Nat
    BY Counters DEF CallbacksInv
  <1> QED BY <1>1, <1>3, <1>5, <1>6, SilentMoves

LEMMA PostInv ==
  ASSUME CallbacksInv, NEW d \in Deliverers, NEW r \in Requests, Post(d, r)
  PROVE  CallbacksInv'
  <1>1. /\ deliverer[d].pc = "working" /\ deliverer[d].list[r] # NotListed
        /\ UNCHANGED <<delivery, config>> /\ stops' = stops
        /\ acked' = acked /\ lost' = lost
    BY DEF Post, Listed
  <1>2. /\ posts \in [Deliverers \X Requests -> Nat] /\ acked \in [Requests -> BOOLEAN]
        /\ lost \in [Deliverers \X Requests -> Nat] /\ stops \in Nat /\ faults \in Nat
    BY Counters DEF CallbacksInv
  \* The POST is sent.
  <1>3. CASE /\ deliverer' = [deliverer EXCEPT ![d] = Handling(d, "posting", r, "pending")]
             /\ posts' = [posts EXCEPT ![<<d, r>>] = @ + 1] /\ UNCHANGED faults
    <2> DEFINE k == Handling(d, "posting", r, "pending")
    <2>1. /\ k \in DelivererStates /\ k.pc = "posting" /\ k.cur = r /\ k.outcome = "pending"
          /\ k.list = deliverer[d].list
      BY HandlingType DEF CallbacksInv, Outcomes
    <2>2. deliverer' = [deliverer EXCEPT ![d] = k]
      BY <1>3
    <2> HIDE DEF k
    <2>3. deliverer'[d] = k
      BY <2>2, Types DEF CallbacksInv
    <2>4. OutcomeSound(d)'
      BY <2>1, <2>3 DEF OutcomeSound
    <2>5. /\ posts' \in [Deliverers \X Requests -> Nat] /\ posts'[<<d, r>>] = posts[<<d, r>>] + 1
          /\ \A y \in (Deliverers \X Requests) \ {<<d, r>>} : posts'[y] = posts[y]
      BY <1>2, <1>3, CounterUp
    <2>6. OwnHistory(d)
      <3>1. \A e \in Deliverers \ {d}, q \in Requests : posts'[<<e, q>>] = posts[<<e, q>>]
        BY <2>5
      <3> QED BY <1>1, <1>2, <2>5, <3>1 DEF OwnHistory
    <2>7. ASSUME NEW q \in Requests PROVE posts'[<<d, q>>] <= Ceil(k, q) + lost'[<<d, q>>]
      <3>1. /\ posts[<<d, q>>] <= Ceil(deliverer[d], q) + lost[<<d, q>>]
            /\ posts[<<d, q>>] \in Nat /\ lost[<<d, q>>] \in Nat
            /\ deliverer[d].list[q] # NotListed => deliverer[d].list[q] \in Nat
        BY CeilFacts DEF CallbacksInv, Counted
      <3>2. CASE q = r
        <4>1. /\ Ceil(deliverer[d], q) = deliverer[d].list[r] + 0
              /\ Ceil(k, q) = deliverer[d].list[r] + 1
          BY <1>1, <2>1, <3>2 DEF Ceil, Among, Unit, Sending
        <4> QED BY <1>1, <2>5, <3>1, <3>2, <4>1
      <3>3. CASE q # r
        <4>1. Ceil(k, q) = Ceil(deliverer[d], q)
          BY <1>1, <2>1, <3>3 DEF Ceil, Among, Unit, Sending
        <4>2. posts'[<<d, q>>] = posts[<<d, q>>]
          BY <2>5, <3>3
        <4> QED BY <1>1, <3>1, <4>1, <4>2
      <3> QED BY <3>2, <3>3
    <2> QED BY <1>1, <1>2, <1>3, <2>1, <2>2, <2>4, <2>6, <2>7, QuietMoves
  \* The job cannot be read: the item is skipped.
  <1>4. CASE ItemDone(d, r) /\ posts' = posts /\ (Fault \/ faults' = faults)
    <2> DEFINE k == After(d, r)
    <2>1. /\ k \in DelivererStates /\ k.pc \in {"idle", "working"} /\ k.cur = NoRequest
          /\ \A q \in Requests : k.list[q] # NotListed => k.list[q] = deliverer[d].list[q]
      BY AfterItem DEF CallbacksInv
    <2>2. deliverer' = [deliverer EXCEPT ![d] = k]
      BY <1>4 DEF ItemDone, After
    <2> HIDE DEF k
    <2>3. deliverer'[d] = k
      BY <2>2, Types DEF CallbacksInv
    <2>4. OutcomeSound(d)'
      BY <2>1, <2>3 DEF OutcomeSound
    <2>5. faults' \in Nat /\ UNCHANGED history
      BY <1>1, <1>4, Counters DEF CallbacksInv, history
    <2> QED BY <1>1, <1>2, <2>1, <2>2, <2>4, <2>5, SilentMoves
  <1> QED BY <1>3, <1>4 DEF Post

LEMMA AnsweredInv ==
  ASSUME CallbacksInv, NEW d \in Deliverers,
         NEW answer \in {"ok", "permanent", "transient"}, Answered(d, answer)
  PROVE  CallbacksInv'
  <1> DEFINE r == deliverer[d].cur
             o == Classify(d, r, answer)
             k == Handling(d, "recording", r, o)
  <1>1. /\ deliverer[d].pc = "posting" /\ deliverer' = [deliverer EXCEPT ![d] = k]
        /\ UNCHANGED <<delivery, config>> /\ stops' = stops /\ faults' = faults
        /\ posts' = posts /\ lost' = lost
        /\ acked' = IF answer = "ok" THEN [acked EXCEPT ![r] = TRUE] ELSE acked
    BY DEF Answered
  <1>2. r \in Requests /\ deliverer[d].list[r] # NotListed
    BY <1>1 DEF CallbacksInv, TypeOK, Listed
  <1>3. /\ o \in Outcomes /\ (o = "delivered" <=> answer = "ok")
        /\ o = "pending" => deliverer[d].list[r] + 1 < Max(Budgets)
    BY <1>2, ClassifySound
  <1> HIDE DEF o
  <1>4. /\ k \in DelivererStates /\ k.pc = "recording" /\ k.cur = r /\ k.outcome = o
        /\ k.list = deliverer[d].list
    BY <1>2, <1>3, HandlingType DEF CallbacksInv
  <1> HIDE DEF k
  <1>5. deliverer'[d] = k
    BY <1>1, Types DEF CallbacksInv
  <1>6. stops \in Nat /\ faults \in Nat
    BY Counters DEF CallbacksInv
  <1>7. OwnHistory(d)
    BY <1>1, <1>2, Counters DEF OwnHistory, CallbacksInv
  <1>8. OutcomeSound(d)'
    <2>1. o = "delivered" => acked'[r]
      BY <1>1, <1>2, <1>3, Counters DEF CallbacksInv
    <2> QED BY <1>3, <1>4, <1>5, <2>1 DEF OutcomeSound
  <1>9. ASSUME NEW q \in Requests PROVE posts'[<<d, q>>] <= Ceil(k, q) + lost'[<<d, q>>]
    <2>1. Ceil(k, q) = Ceil(deliverer[d], q)
      BY <1>1, <1>4 DEF Ceil, Among, Unit, Sending
    <2> QED BY <1>1, <2>1 DEF CallbacksInv, Counted
  <1> QED BY <1>1, <1>2, <1>4, <1>6, <1>7, <1>8, <1>9, QuietMoves

LEMMA RecordInv ==
  ASSUME CallbacksInv, NEW d \in Deliverers, Record(d)
  PROVE  CallbacksInv'
  <1> DEFINE r == deliverer[d].cur
             k == After(d, r)
             l == deliverer[d].list[r]
  <1>1. /\ deliverer[d].pc \in {"recording", "refusing"}
        /\ deliverer' = [deliverer EXCEPT ![d] = k] /\ UNCHANGED config
        /\ stops' = stops /\ posts' = posts /\ acked' = acked
    BY DEF Record, ItemDone, After
  <1>2. r \in Requests /\ l # NotListed
    BY <1>1 DEF CallbacksInv, TypeOK, Listed
  <1>3. /\ k \in DelivererStates /\ k.pc \in {"idle", "working"} /\ k.cur = NoRequest
        /\ k.list[r] = NotListed
        /\ \A q \in Requests : k.list[q] # NotListed => k.list[q] = deliverer[d].list[q]
    BY <1>2, AfterItem DEF CallbacksInv
  <1> HIDE DEF k
  <1>4. deliverer'[d] = k
    BY <1>1, Types DEF CallbacksInv
  <1>5. OutcomeSound(d)'
    BY <1>3, <1>4 DEF OutcomeSound
  <1>6. /\ posts \in [Deliverers \X Requests -> Nat] /\ acked \in [Requests -> BOOLEAN]
        /\ lost \in [Deliverers \X Requests -> Nat] /\ stops \in Nat /\ faults \in Nat
    BY Counters DEF CallbacksInv
  \* What was sent of r is l attempts and the one in hand; of another
  \* request, what the row or the list says.
  <1>7. /\ posts[<<d, r>>] <= l + 1 + lost[<<d, r>>] /\ l \in Nat /\ l < Max(Budgets)
        /\ posts[<<d, r>>] \in Nat /\ lost[<<d, r>>] \in Nat /\ Max(Budgets) \in Nat
    <2>1. /\ posts[<<d, r>>] <= Ceil(deliverer[d], r) + lost[<<d, r>>]
          /\ posts[<<d, r>>] \in Nat /\ lost[<<d, r>>] \in Nat /\ Max(Budgets) \in Nat
          /\ l \in Nat /\ l < Max(Budgets)
      BY <1>2, CeilFacts DEF CallbacksInv, Counted
    <2>2. Ceil(deliverer[d], r) = l + Unit(Sending(deliverer[d], r))
      BY <1>2 DEF Ceil, Among
    <2>3. Unit(Sending(deliverer[d], r)) = 0 \/ Unit(Sending(deliverer[d], r)) = 1
      BY DEF Unit
    <2> HIDE DEF l, r
    <2> QED BY <2>1, <2>2, <2>3
  <1>8. ASSUME NEW q \in Requests, q # r
        PROVE  posts[<<d, q>>] <= Ceil(k, q) + lost[<<d, q>>]
    <2>1. posts[<<d, q>>] <= Ceil(deliverer[d], q) + lost[<<d, q>>]
      BY DEF CallbacksInv, Counted
    <2>2. Unit(Sending(deliverer[d], q)) = 0 /\ Unit(Sending(k, q)) = 0
      BY <1>3, <1>8 DEF Unit, Sending
    <2>3. /\ Cap(q) \in Nat /\ posts[<<d, q>>] \in Nat /\ lost[<<d, q>>] \in Nat
          /\ deliverer[d].list[q] # NotListed =>
               deliverer[d].list[q] \in Nat /\ deliverer[d].list[q] <= Cap(q)
      BY CeilFacts
    <2>4. k.list[q] # NotListed => k.list[q] = deliverer[d].list[q]
      BY <1>3
    <2> QED BY <2>1, <2>2, <2>3, <2>4 DEF Ceil, Among
  <1>9. CASE /\ MayRecord(d, r) /\ delivery' = [delivery EXCEPT ![r] = Recorded(d, r)]
             /\ UNCHANGED <<faults, lost>>
    <2> DEFINE o == deliverer[d].outcome
               v == Recorded(d, r)
    <2>1. /\ delivery[r].state = "pending" /\ delivery[r].attempts = l
      BY <1>2, <1>9 DEF MayRecord, CallbacksInv, ListSound
    <2>2. /\ o \in Outcomes /\ (o = "pending" => l + 1 < Max(Budgets))
      BY <1>1, DelivererFields DEF CallbacksInv, OutcomeSound
    <2>3. /\ v \in DeliveryStates /\ v.state = o /\ v.attempts = l + 1
          /\ v.due = FALSE
      BY <1>7, <2>1, <2>2 DEF Recorded, DeliveryStates
    <2>4. delivery' = [delivery EXCEPT ![r] = v] /\ faults' = faults /\ lost' = lost
      BY <1>9
    <2> HIDE DEF v
    <2>5. /\ delivery' \in [Requests -> DeliveryStates] /\ delivery'[r] = v
          /\ \A q \in Requests \ {r} : delivery'[q] = delivery[q]
      BY <1>2, <2>3, <2>4, Types DEF CallbacksInv
    <2>6. \A q \in Requests : delivery'[q].due => delivery'[q].state = "pending"
      BY <2>3, <2>5 DEF CallbacksInv, TypeOK
    <2>7. Fresh'
      BY <2>2, <2>3, <2>5 DEF CallbacksInv, Fresh, Outcomes
    <2>8. \A q \in Requests : Evolves(q)
      BY <2>1, <2>2, <2>3, <2>5 DEF Evolves
    <2>9. WithinBudget'
      <3>1. /\ v.attempts <= Max(Budgets)
            /\ v.state = "pending" => v.attempts < Max(Budgets)
        BY <1>7, <2>2, <2>3
      <3> QED BY <2>5, <3>1 DEF CallbacksInv, WithinBudget
    <2>10. SoundTable'
      BY <2>5, <2>6, <2>7, <2>9 DEF SoundTable
    <2>11. ASSUME NEW q \in Requests PROVE posts'[<<d, q>>] <= Among(k, q, Cap(q)') + lost'[<<d, q>>]
      <3>1. CASE q # r
        <4>1. Among(k, q, Cap(q)') = Ceil(k, q)
          BY <2>5, <3>1 DEF Ceil, Among, Cap
        <4> QED BY <1>1, <1>8, <2>4, <3>1, <4>1
      <3>2. CASE q = r
        <4>1. Among(k, q, Cap(q)') = l + 1
          BY <1>3, <2>2, <2>3, <2>5, <3>2 DEF Among, Cap, Outcomes
        <4> QED BY <1>1, <1>7, <2>4, <3>2, <4>1
      <3> QED BY <3>1, <3>2
    <2>12. /\ k.pc \notin {"refusing", "posting", "recording"}
           /\ \A q \in Requests : k.list[q] # NotListed => k.list[q] = deliverer[d].list[q]
           /\ stops' \in Nat /\ faults' \in Nat /\ acked' = acked
           /\ posts' = posts /\ lost' = lost
      BY <1>1, <1>3, <1>6, <2>4
    <2> HIDE DEF r, l
    <2> QED BY <1>1, <1>3, <1>5, <1>6, <2>8, <2>10, <2>11, <2>12, DelivererMoves
  \* Another deliverer was first: the row counts more, or is gone.
  <1>10. CASE ~MayRecord(d, r) /\ UNCHANGED <<delivery, faults, lost>>
    <2>1. Cap(r) \in Nat /\ l + 1 <= Cap(r)
      <3>1. /\ delivery[r].attempts \in Nat /\ delivery[r].state \in Outcomes \cup {"none", "gone"}
            /\ delivery[r].state # "none"
            /\ delivery[r].state \in Outcomes => l <= delivery[r].attempts
        BY <1>2, DeliveryFields DEF CallbacksInv, ListSound
      <3>2. delivery[r].state \in Outcomes => delivery[r].attempts # l
        BY <1>10 DEF MayRecord
      <3> QED BY <1>7, <3>1, <3>2 DEF Cap
    <2>2. ASSUME NEW q \in Requests PROVE posts'[<<d, q>>] <= Ceil(k, q) + lost'[<<d, q>>]
      <3>1. CASE q # r
        BY <1>1, <1>8, <1>10, <3>1
      <3>2. CASE q = r
        <4>1. Ceil(k, r) = Cap(r)
          BY <1>3 DEF Ceil, Among
        <4> QED BY <1>1, <1>7, <1>10, <2>1, <3>2, <4>1
      <3> QED BY <3>1, <3>2
    <2>3. OwnHistory(d) /\ stops' \in Nat /\ faults' \in Nat
      BY <1>1, <1>6, <1>10 DEF OwnHistory
    <2> HIDE DEF r, l
    <2> QED BY <1>1, <1>3, <1>5, <1>10, <2>2, <2>3, QuietMoves
  <1>11. CASE Fault /\ lost' = Unrecorded(d) /\ UNCHANGED delivery
    <2>1. /\ lost' \in [Deliverers \X Requests -> Nat]
          /\ \A q \in Requests :
               lost'[<<d, q>>] >= lost[<<d, q>>] + Unit(Sending(deliverer[d], q))
          /\ \A e \in Deliverers \ {d}, q \in Requests : lost'[<<e, q>>] = lost[<<e, q>>]
      BY <1>11, UnrecordedCounts
    <2>2. OwnHistory(d)
      BY <1>1, <1>6, <2>1 DEF OwnHistory
    <2>3. ASSUME NEW q \in Requests PROVE posts'[<<d, q>>] <= Ceil(k, q) + lost'[<<d, q>>]
      <3>1. lost'[<<d, q>>] \in Nat /\ posts'[<<d, q>>] = posts[<<d, q>>]
        BY <1>1, <2>1
      <3>2. k.pc \notin {"posting", "recording"}
        BY <1>3
      <3> QED BY <1>3, <2>1, <3>1, <3>2, Settles
    <2>4. faults' \in Nat /\ stops' \in Nat
      BY <1>1, <1>6, <1>11, Counters DEF CallbacksInv
    <2> HIDE DEF r, l
    <2> QED BY <1>1, <1>3, <1>5, <1>11, <2>2, <2>3, <2>4, QuietMoves
  <1> QED BY <1>9, <1>10, <1>11 DEF Record

LEMMA CallbacksStep == CallbacksInv /\ [Next]_vars => CallbacksInv'
  <1> SUFFICES ASSUME CallbacksInv, [Next]_vars PROVE CallbacksInv'
    OBVIOUS
  <1>1. ASSUME NEW d \in Deliverers, DelivererStep(d) PROVE CallbacksInv'
    BY <1>1, ListDueInv, RefuseInv, PostInv, AnsweredInv, RecordInv DEF DelivererStep
  <1>2. CASE UNCHANGED vars
    <2>1. TypeOK' /\ Fresh' /\ WithinBudget'
      BY <1>2 DEF vars, CallbacksInv, TypeOK, Listed, Fresh, WithinBudget
    <2>2. \A d \in Deliverers : OutcomeSound(d)' /\ ListSound(d)'
      BY <1>2 DEF vars, CallbacksInv, OutcomeSound, ListSound
    <2>3. \A d \in Deliverers, r \in Requests : Counted(d, r)'
      BY <1>2 DEF vars, CallbacksInv, Counted, Ceil, Cap, Sending
    <2> QED BY <2>1, <2>2, <2>3 DEF CallbacksInv
  <1> QED BY <1>1, <1>2, HaltInv, StartInv, RowSteps, ReloadInv DEF Next
-----------------------------------------------------------------------------
(* The theorems.                                                           *)

\* The inductive invariant holds: typing, stale lists that are stale only
\* backwards, outcomes justified by their attempt, rows within the budget, and
\* POSTs that a row's count or the deliverer's list accounts for.
THEOREM CallbacksInvariant == Spec => []CallbacksInv
  BY InitInv, CallbacksStep, PTL DEF Spec

\* One process sends a callback at most callbacks.max_attempts times, and once
\* more for each POST whose record a stop or a failing write prevented, with
\* any number of other deliverers, reloads and prunes.
THEOREM PostsStayBounded == Spec => []PostsBounded
  <1>1. CallbacksInv => PostsBounded
    <2> SUFFICES ASSUME CallbacksInv, NEW d \in Deliverers, NEW r \in Requests
                 PROVE  posts[<<d, r>>] <= Max(Budgets) + lost[<<d, r>>]
      BY DEF PostsBounded
    <2>1. posts[<<d, r>>] <= Ceil(deliverer[d], r) + lost[<<d, r>>]
      BY DEF CallbacksInv, Counted
    <2>2. /\ Cap(r) \in Nat /\ Cap(r) <= Max(Budgets) /\ Max(Budgets) \in Nat
          /\ posts[<<d, r>>] \in Nat /\ lost[<<d, r>>] \in Nat
          /\ deliverer[d].list[r] # NotListed =>
               deliverer[d].list[r] \in Nat /\ deliverer[d].list[r] < Max(Budgets)
      BY CeilFacts
    <2>3. Ceil(deliverer[d], r) \in Nat /\ Ceil(deliverer[d], r) <= Max(Budgets)
      BY <2>2 DEF Ceil, Among, Unit
    <2> QED BY <2>1, <2>2, <2>3
  <1> QED BY <1>1, CallbacksInvariant, PTL
-----------------------------------------------------------------------------
(* The refinement: what a client reads of its callback follows Outbox.     *)

Status == [r \in Requests |-> delivery[r].state]
Tries  == [r \in Requests |-> delivery[r].attempts]
Taken  == acked

\* One row changes: so do its status and its count, and nothing else.
LEMMA MappedRow ==
  ASSUME TypeOK, NEW r \in Requests, NEW v \in DeliveryStates,
         delivery' = [delivery EXCEPT ![r] = v]
  PROVE  /\ Status' = [Status EXCEPT ![r] = v.state]
         /\ Tries' = [Tries EXCEPT ![r] = v.attempts]
  <1>1. /\ delivery'[r] = v /\ \A q \in Requests \ {r} : delivery'[q] = delivery[q]
    BY Types
  <1>2. /\ \A q \in Requests : delivery'[q].state = IF q = r THEN v.state ELSE delivery[q].state
        /\ \A q \in Requests :
             delivery'[q].attempts = IF q = r THEN v.attempts ELSE delivery[q].attempts
    BY <1>1
  <1>3. Status' = [Status EXCEPT ![r] = v.state]
    BY <1>2, Zenon DEF Status
  <1>4. Tries' = [Tries EXCEPT ![r] = v.attempts]
    BY <1>2, Zenon DEF Tries
  <1> QED BY <1>3, <1>4

LEMMA MappedInit == Init => Promise!Init
  <1> SUFFICES ASSUME Init PROVE Promise!Init
    OBVIOUS
  <1>1. \A r \in Requests : delivery[r].state = "none" /\ delivery[r].attempts = 0
    BY DEF Init, NoDelivery
  <1>2. acked = [r \in Requests |-> FALSE]
    BY DEF Init
  <1> QED BY <1>1, <1>2, Zenon DEF Promise!Init

\* The steps of the promise, in terms of the mapped state.
LEMMA MappedSteps ==
  ASSUME NEW r \in Requests,
         \/ /\ Status[r] = "none" /\ Status' = [Status EXCEPT ![r] = "pending"]
            /\ Tries' = Tries /\ Taken' = Taken
         \/ /\ Status[r] # "none" /\ Taken' = [Taken EXCEPT ![r] = TRUE]
            /\ Status' = Status /\ Tries' = Tries
         \/ /\ Status[r] \in Outcomes /\ Status' = [Status EXCEPT ![r] = "gone"]
            /\ Tries' = [Tries EXCEPT ![r] = 0] /\ Taken' = Taken
  PROVE  Promise!Next
  <1>1. CASE /\ Status[r] = "none" /\ Status' = [Status EXCEPT ![r] = "pending"]
             /\ Tries' = Tries /\ Taken' = Taken
    <2>1. Promise!Owe(r)
      BY <1>1 DEF Promise!Owe, Status, Tries, Taken
    <2> QED BY <2>1 DEF Promise!Next
  <1>2. CASE /\ Status[r] # "none" /\ Taken' = [Taken EXCEPT ![r] = TRUE]
             /\ Status' = Status /\ Tries' = Tries
    <2>1. Promise!Take(r)
      BY <1>2 DEF Promise!Take, Status, Tries, Taken
    <2> QED BY <2>1 DEF Promise!Next
  <1>3. CASE /\ Status[r] \in Outcomes /\ Status' = [Status EXCEPT ![r] = "gone"]
             /\ Tries' = [Tries EXCEPT ![r] = 0] /\ Taken' = Taken
    <2>1. Promise!Forget(r)
      BY <1>3 DEF Promise!Forget, Status, Tries, Taken, Outcomes
    <2> QED BY <2>1 DEF Promise!Next
  <1> QED BY <1>1, <1>2, <1>3

LEMMA MappedAttempt ==
  ASSUME NEW r \in Requests, NEW o \in Outcomes, Status[r] = "pending",
         Status' = [Status EXCEPT ![r] = o], Tries' = [Tries EXCEPT ![r] = Tries[r] + 1],
         Taken' = Taken,
         o = "delivered" => Taken[r],
         o = "pending" => Tries[r] + 1 < Max(Budgets)
  PROVE  Promise!Next
  <1>1. Promise!Attempt(r, o)
    BY DEF Promise!Attempt, Status, Tries, Taken
  <1>2. o = "delivered" => Promise!Deliver(r)
    BY <1>1 DEF Promise!Deliver, Taken
  <1>3. o = "failed" => Promise!GiveUp(r)
    BY <1>1 DEF Promise!GiveUp
  <1>4. o = "pending" => Promise!Retry(r)
    BY <1>1 DEF Promise!Retry, Tries
  <1> QED BY <1>2, <1>3, <1>4 DEF Promise!Next, Outcomes

LEMMA MappedStep ==
  ASSUME CallbacksInv, [Next]_vars
  PROVE  [Promise!Next]_(Promise!vars)
  <1> DEFINE Same == Status' = Status /\ Tries' = Tries /\ Taken' = Taken
  <1>1. Same => UNCHANGED Promise!vars
    BY DEF Promise!vars, Status, Tries, Taken
  <1>2. delivery' = delivery => Status' = Status /\ Tries' = Tries
    BY DEF Status, Tries
  <1>3. acked' = acked => Taken' = Taken
    BY DEF Taken
  <1>4. ASSUME NEW r \in Requests, Enqueue(r) PROVE Promise!Next
    <2> DEFINE v == MkDelivery("pending", 0, TRUE)
    <2>1. /\ delivery[r].state = "none" /\ delivery[r].attempts = 0 /\ acked' = acked
          /\ delivery' = [delivery EXCEPT ![r] = v]
      BY <1>4 DEF Enqueue, history, CallbacksInv, Fresh
    <2>2. v \in DeliveryStates /\ v.state = "pending" /\ v.attempts = 0
      BY DEF DeliveryStates, Outcomes
    <2> HIDE DEF v
    <2>3. /\ Status' = [Status EXCEPT ![r] = "pending"] /\ Tries' = [Tries EXCEPT ![r] = 0]
      BY <2>1, <2>2, MappedRow DEF CallbacksInv
    <2>4. Status[r] = "none" /\ Tries' = Tries
      BY <2>1, <2>3 DEF Status, Tries
    <2> QED BY <1>3, <2>1, <2>3, <2>4, MappedSteps
  <1>5. ASSUME NEW r \in Requests, BackoffOver(r) PROVE Same
    <2> DEFINE v == MkDelivery("pending", delivery[r].attempts, TRUE)
    <2>1. /\ delivery[r].state = "pending" /\ acked' = acked
          /\ delivery' = [delivery EXCEPT ![r] = v]
      BY <1>5 DEF BackoffOver, history
    <2>2. v \in DeliveryStates /\ v.state = "pending" /\ v.attempts = delivery[r].attempts
      BY DeliveryFields DEF CallbacksInv, DeliveryStates, Outcomes
    <2> HIDE DEF v
    <2>3. /\ Status' = [Status EXCEPT ![r] = v.state]
          /\ Tries' = [Tries EXCEPT ![r] = v.attempts]
      BY <2>1, <2>2, MappedRow DEF CallbacksInv
    <2>4. Status' = Status /\ Tries' = Tries
      BY <2>1, <2>2, <2>3 DEF Status, Tries
    <2> QED BY <1>3, <2>1, <2>4
  <1>6. ASSUME NEW r \in Requests, Prune(r) PROVE Promise!Next
    <2>1. /\ delivery[r].state \in Outcomes /\ acked' = acked
          /\ delivery' = [delivery EXCEPT ![r] = Pruned]
      BY <1>6 DEF Prune, history
    <2>2. Pruned \in DeliveryStates /\ Pruned.state = "gone" /\ Pruned.attempts = 0
      BY DEF Pruned, DeliveryStates
    <2>3. /\ Status' = [Status EXCEPT ![r] = "gone"] /\ Tries' = [Tries EXCEPT ![r] = 0]
      BY <2>1, <2>2, MappedRow DEF CallbacksInv
    <2>4. Status[r] \in Outcomes
      BY <2>1 DEF Status
    <2> QED BY <1>3, <2>1, <2>3, <2>4, MappedSteps
  <1>7. ASSUME NEW d \in Deliverers, NEW answer \in {"ok", "permanent", "transient"},
               Answered(d, answer)
        PROVE  Promise!Next \/ Same
    <2> DEFINE r == deliverer[d].cur
    <2>1. /\ deliverer[d].pc = "posting" /\ delivery' = delivery
          /\ acked' = IF answer = "ok" THEN [acked EXCEPT ![r] = TRUE] ELSE acked
      BY <1>7 DEF Answered
    <2>2. r \in Requests /\ delivery[r].state # "none"
      BY <2>1 DEF CallbacksInv, TypeOK, Listed, ListSound
    <2>3. CASE answer = "ok"
      <3>4. Taken' = [Taken EXCEPT ![r] = TRUE]
        BY <2>1, <2>3 DEF Taken
      <3>5. Status[r] # "none"
        BY <2>2 DEF Status
      <3> QED BY <1>2, <2>1, <2>2, <3>4, <3>5, MappedSteps
    <2>4. CASE answer # "ok"
      BY <1>2, <1>3, <2>1, <2>4
    <2> QED BY <2>3, <2>4
  <1>8. ASSUME NEW d \in Deliverers, Record(d) PROVE Promise!Next \/ Same
    <2> DEFINE r == deliverer[d].cur
               o == deliverer[d].outcome
    <2>1. deliverer[d].pc \in {"recording", "refusing"} /\ acked' = acked
      BY <1>8 DEF Record
    <2>2. r \in Requests /\ deliverer[d].list[r] # NotListed
      BY <2>1 DEF CallbacksInv, TypeOK, Listed
    <2>3. CASE MayRecord(d, r) /\ delivery' = [delivery EXCEPT ![r] = Recorded(d, r)]
      <3>1. /\ delivery[r].state = "pending" /\ delivery[r].attempts \in Nat
            /\ delivery[r].attempts = deliverer[d].list[r]
        BY <2>2, <2>3, DeliveryFields DEF MayRecord, CallbacksInv, ListSound
      <3>2. /\ o \in Outcomes
            /\ o = "delivered" => acked[r]
            /\ o = "pending" => deliverer[d].list[r] + 1 < Max(Budgets)
        BY <2>1, DelivererFields DEF CallbacksInv, OutcomeSound
      <3>3. /\ Recorded(d, r) \in DeliveryStates /\ Recorded(d, r).state = o
            /\ Recorded(d, r).attempts = delivery[r].attempts + 1
        BY <3>1, <3>2 DEF Recorded, DeliveryStates
      <3>4. /\ Status' = [Status EXCEPT ![r] = o]
            /\ Tries' = [Tries EXCEPT ![r] = delivery[r].attempts + 1]
        <4>1. TypeOK /\ delivery' = [delivery EXCEPT ![r] = Recorded(d, r)]
          BY <2>3 DEF CallbacksInv
        <4> HIDE DEF r, o
        <4> QED BY <2>2, <3>3, <4>1, MappedRow
      <3>5. Status[r] = "pending" /\ Tries[r] = delivery[r].attempts
        BY <2>2, <3>1 DEF Status, Tries
      <3>6. o = "delivered" => Taken[r]
        BY <2>2, <3>2, Zenon DEF Taken
      <3> HIDE DEF r, o
      <3> QED BY <1>3, <2>1, <2>2, <3>1, <3>2, <3>4, <3>5, <3>6, MappedAttempt
    <2>4. CASE UNCHANGED delivery
      BY <1>2, <1>3, <2>1, <2>4
    <2> QED BY <1>8, <2>3, <2>4 DEF Record
  <1>9. ASSUME NEW d \in Deliverers, NEW r \in Requests,
               ListDue(d) \/ Refuse(d, r) \/ Post(d, r) \/ Halt(d) \/ Start(d)
        PROVE  Same
    BY <1>2, <1>3, <1>9 DEF ListDue, Refuse, Post, Halt, Start, history
  <1>10. ASSUME NEW d \in Deliverers, ListDue(d) \/ Halt(d) \/ Start(d) PROVE Same
    BY <1>2, <1>3, <1>10 DEF ListDue, Halt, Start, history
  <1>11. ASSUME NEW S \in SUBSET Requests, NEW b \in Budgets, Reload(S, b) PROVE Same
    BY <1>2, <1>3, <1>11 DEF Reload, history
  <1>12. ASSUME UNCHANGED vars PROVE Same
    <2>1. delivery' = delivery /\ acked' = acked
      BY <1>12 DEF vars
    <2> QED BY <1>2, <1>3, <2>1
  <1> HIDE DEF Same
  <1>13. Promise!Next \/ Same
    <2>1. ASSUME NEW d \in Deliverers, DelivererStep(d) PROVE Promise!Next \/ Same
      BY <1>7, <1>8, <1>9, <1>10, <2>1 DEF DelivererStep
    <2> QED BY <1>4, <1>5, <1>6, <1>10, <1>11, <1>12, <2>1 DEF Next
  <1> QED BY <1>1, <1>13

\* Deliverers with stale lists, reloads, lost outcomes and stops implement
\* the promise of Outbox: a recorded end is never overwritten, "delivered" is
\* told only after a 2xx answer, and a pending delivery has attempts left.
THEOREM CallbacksImplementOutbox == Spec => ImplementsOutbox
  <1>1. Init => Promise!Init
    BY MappedInit
  <1>2. CallbacksInv /\ [Next]_vars => [Promise!Next]_(Promise!vars)
    BY MappedStep
  <1> QED BY <1>1, <1>2, CallbacksInvariant, PTL DEF Spec, ImplementsOutbox, Promise!Spec
=============================================================================
