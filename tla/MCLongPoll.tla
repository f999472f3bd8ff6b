----------------------------- MODULE MCLongPoll -----------------------------
(***************************************************************************)
(* Instances of the long poll for TLC: two polls of one of two jobs.       *)
(***************************************************************************)
EXTENDS LongPoll

CONSTANTS j1, j2, q1, q2, e1, e2

MCJobOf == [q \in Polls |-> j1]
=============================================================================
