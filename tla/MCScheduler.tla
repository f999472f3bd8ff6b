---------------------------- MODULE MCScheduler -----------------------------
(***************************************************************************)
(* Instances of the scheduler for TLC: s1 always has a next instant, and   *)
(* two that a late tick collapses; s2 names none, as "0 0 30 2 *" does,    *)
(* and is due at the zero time from the start.                             *)
(***************************************************************************)
EXTENDS Scheduler, TLC

CONSTANTS s1, s2, old, new

MCCronTimes == (s1 :> {4, 5, 7}) @@ (s2 :> {})
=============================================================================
