----------------------------- MODULE MCJobQueue -----------------------------
(***************************************************************************)
(* Instances of the job queue for TLC.                                     *)
(***************************************************************************)
EXTENDS JobQueueProperties, TLC

CONSTANTS d1, p1, w1, w2, alice

OneClient(c) == [j \in Jobs |-> c]
MCClientOf == OneClient(alice)

\* Workers are interchangeable; jobs differ in their targets.
WorkerSymmetry == Permutations(Workers)
=============================================================================
