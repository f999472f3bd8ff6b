---------------------------- MODULE MCSubmission ----------------------------
(***************************************************************************)
(* An instance of submission for TLC: two calls under one key and one with *)
(* another body, calls without a key, one of the scheduler's and one that  *)
(* is refused.  b, bad and n2 are a batch.                                 *)
(***************************************************************************)
EXTENDS Submission, TLC

CONSTANTS a1, a2, b, bad, n1, n2, run, k

MCKeyOf  == [c \in Calls |-> IF c \in {a1, a2, b} THEN k ELSE NoKey]
MCBodyOf == [c \in Calls |-> IF c = b THEN "other" ELSE "same"]
MCPrevious == [c \in Calls |-> CASE c = bad -> b [] c = n2 -> bad [] OTHER -> NoCall]
=============================================================================
