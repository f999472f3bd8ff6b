------------------------------- MODULE Outbox -------------------------------
(***************************************************************************)
(* What completion callbacks promise a client, without deliverers, lists,  *)
(* reloads or lost outcomes: a document is owed from its request's end on, *)
(* is retried within a budget, is called delivered only after the receiver *)
(* took it, and an outcome, once told, stands until retention forgets it.  *)
(* Callbacks implements this.                                              *)
(***************************************************************************)
EXTENDS Naturals

CONSTANTS
  Requests,
  MaxTries      \* the largest budget of attempts

VARIABLES
  status,       \* what a client reads of its callback
  tries,        \* attempts it is told of
  taken         \* whether the receiver has taken the document

vars == <<status, tries, taken>>

Init ==
  /\ status = [r \in Requests |-> "none"]
  /\ tries  = [r \in Requests |-> 0]
  /\ taken  = [r \in Requests |-> FALSE]

Owe(r) ==
  /\ status[r] = "none"
  /\ status' = [status EXCEPT ![r] = "pending"]
  /\ UNCHANGED <<tries, taken>>

\* The receiver may take a document whose outcome is already told.
Take(r) ==
  /\ status[r] # "none"
  /\ taken' = [taken EXCEPT ![r] = TRUE]
  /\ UNCHANGED <<status, tries>>

Attempt(r, outcome) ==
  /\ status[r] = "pending"
  /\ status' = [status EXCEPT ![r] = outcome]
  /\ tries' = [tries EXCEPT ![r] = @ + 1]
  /\ UNCHANGED taken
Deliver(r) == taken[r] /\ Attempt(r, "delivered")
GiveUp(r)  == Attempt(r, "failed")
Retry(r)   == tries[r] + 1 < MaxTries /\ Attempt(r, "pending")

Forget(r) ==
  /\ status[r] \in {"pending", "delivered", "failed"}
  /\ status' = [status EXCEPT ![r] = "gone"]
  /\ tries'  = [tries EXCEPT ![r] = 0]
  /\ UNCHANGED taken

Next == \E r \in Requests :
          Owe(r) \/ Take(r) \/ Deliver(r) \/ GiveUp(r) \/ Retry(r) \/ Forget(r)

Spec == Init /\ [][Next]_vars
=============================================================================
