----------------------------- MODULE Timetable ------------------------------
(***************************************************************************)
(* What schedules promise, without scheduler loops, lists, faults or       *)
(* stops.  A run is not made early, and not again while it is kept; the    *)
(* next due time moves on only after the one it leaves has been run.  Of a *)
(* steady schedule also: only named instants are run, none that the        *)
(* schedule has not come to, and the due time moves only forward and never *)
(* past one that is still ahead.  Scheduler implements this.               *)
(***************************************************************************)
EXTENDS Integers

CONSTANTS
  Schedules,
  Times,
  Named,             \* the instants each schedule's expression names
  Steady,            \* the schedules that always have a next instant
  FirstAfter(_, _)   \* the first due time of a schedule after an instant

VARIABLES
  time,
  active,       \* whether a schedule exists
  next,         \* its next due time
  ran,          \* how often each of its due times was run
  kept          \* the runs that retention has not removed

vars == <<time, active, next, ran, kept>>

Init ==
  /\ time \in Times
  /\ active = [s \in Schedules |-> FALSE]
  /\ next = [s \in Schedules |-> 0]
  /\ ran = [r \in Schedules \X Times |-> 0]
  /\ kept = {}

Enter(s) ==
  /\ ~active[s] /\ next[s] = 0
  /\ active' = [active EXCEPT ![s] = TRUE]
  /\ next' = [next EXCEPT ![s] = FirstAfter(s, time)]
  /\ UNCHANGED <<time, ran, kept>>

Remove(s) ==
  /\ active[s]
  /\ active' = [active EXCEPT ![s] = FALSE]
  /\ UNCHANGED <<time, next, ran, kept>>

\* A run already under way may come after its schedule has moved on or gone.
Run(s, t) ==
  /\ 0 < t /\ t <= time
  /\ s \in Steady => t \in Named[s] /\ t <= next[s]
  /\ <<s, t>> \notin kept
  /\ kept' = kept \cup {<<s, t>>}
  /\ ran' = [ran EXCEPT ![<<s, t>>] = @ + 1]
  /\ UNCHANGED <<time, active, next>>

MoveOn(s, t) ==
  /\ active[s]
  /\ ran[<<s, next[s]>>] > 0
  /\ s \in Steady => next[s] < t /\ t <= FirstAfter(s, time)
  /\ next' = [next EXCEPT ![s] = t]
  /\ UNCHANGED <<time, active, ran, kept>>

Forget(r) ==
  /\ kept' = kept \ {r}
  /\ UNCHANGED <<time, active, next, ran>>

Tick ==
  /\ time' = time + 1
  /\ UNCHANGED <<active, next, ran, kept>>

Next ==
  \/ \E s \in Schedules : Enter(s) \/ Remove(s) \/ \E t \in Times : Run(s, t) \/ MoveOn(s, t)
  \/ \E r \in kept : Forget(r)
  \/ Tick

Spec == Init /\ [][Next]_vars
=============================================================================
