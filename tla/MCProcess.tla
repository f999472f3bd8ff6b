----------------------------- MODULE MCProcess ------------------------------
(***************************************************************************)
(* An instance of the process for TLC: a long poll and a cancel in flight, *)
(* an older binary as the second process, two files that load and one that *)
(* must not.                                                               *)
(***************************************************************************)
EXTENDS Process, TLC

CONSTANTS t1, t2, rv, poll, cancel, good, other, tight

MCDefault == [f \in Fields |->
  CASE f = "jobTimeout" -> 6 [] f = "backoffBase" -> 1 [] f = "backoffMax" -> 7
    [] f = "timeout" -> 2 [] f = "interval" -> 1 [] f = "pollTimeout" -> 5
    [] f = "resultTimeout" -> 2 [] f = "resolventTimeout" -> 1]

Worker(j, b, m) == [jobTimeout |-> j, backoffBase |-> b, backoffMax |-> m]
Direct(t, j, p) == [timeout |-> t, jobTimeout |-> j, proxy |-> p, polled |-> FALSE,
                    interval |-> 0, pollTimeout |-> 0, resultTimeout |-> 0]
Polled(t, i, p, r) == [timeout |-> t, jobTimeout |-> 0, proxy |-> FALSE, polled |-> TRUE,
                       interval |-> i, pollTimeout |-> p, resultTimeout |-> r]
MkText(ok, w, ts, rs) == [wellFormed |-> ok, worker |-> w, targets |-> ts, resolvents |-> rs]
NoResolvents == [n \in {} |-> 0]

Workers == {Worker(j, b, m) : j \in {-1, 0, 4}, b \in {-1, 0, 3, 5}, m \in {0, 4}}
SomeTargets ==
  {Direct(t, j, p) : t \in {-1, 0, 3}, j \in {-1, 0, 3, 5}, p \in BOOLEAN}
    \cup {Polled(t, i, p, r) : t \in {0, 3}, i \in {-1, 0, 4}, p \in {0, 4}, r \in {-1, 0, 3}}
SomeResolvents ==
  {[timeout |-> d, target |-> b] : d \in {-1, 0, 2}, b \in {NoTarget, t1, t2}}

\* Two files that load, and one whose resolvent t2 outlasts t1's job timeout.
MCText == [f \in Files |->
  CASE f = good  -> MkText(TRUE, Worker(0, 0, 0), t1 :> Direct(0, 0, FALSE), NoResolvents)
    [] f = other -> MkText(TRUE, Worker(0, 3, 4), t1 :> Polled(3, 0, 0, 3),
                           rv :> [timeout |-> 0, target |-> NoTarget])
    [] f = tight -> MkText(TRUE, Worker(0, 0, 0),
                           (t1 :> Direct(3, 4, FALSE)) @@ (t2 :> Direct(2, 0, TRUE)),
                           rv :> [timeout |-> 0, target |-> t2])]

\* t1 and rv take any shape; t2 is there to back rv, or absent.
MCTexts ==
  {MkText(TRUE, w, ts, rs) :
     w  \in Workers,
     ts \in {(t1 :> a) : a \in SomeTargets}
              \cup {(t1 :> a) @@ (t2 :> Direct(2, 0, TRUE)) : a \in SomeTargets},
     rs \in {NoResolvents} \cup {(rv :> r) : r \in SomeResolvents}}
  \cup {MCText[f] : f \in Files}
  \cup {MkText(FALSE, Worker(0, 0, 0), t1 :> Direct(0, 0, FALSE), NoResolvents)}

MCKnown    == (Main :> 1 .. 3) @@ (Rival :> 1 .. 2)
MCServers  == <<"api", "metrics">>
MCServerOf == [r \in Requests |-> "api"]
=============================================================================
