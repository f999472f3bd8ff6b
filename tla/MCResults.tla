----------------------------- MODULE MCResults ------------------------------
(***************************************************************************)
(* Instances of the result files for TLC.                                  *)
(***************************************************************************)
EXTENDS Results, TLC

CONSTANTS w1, w2, json, zip
=============================================================================
