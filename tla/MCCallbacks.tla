---------------------------- MODULE MCCallbacks -----------------------------
(***************************************************************************)
(* Instances of the callback deliverer for TLC.                            *)
(***************************************************************************)
EXTENDS Callbacks

CONSTANTS r1, r2, old, new
=============================================================================
