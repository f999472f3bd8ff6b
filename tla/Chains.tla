------------------------------- MODULE Chains -------------------------------
(***************************************************************************)
(* Chained resolvents of one payload: internal/resolver/chain.go orders    *)
(* them into levels, fetchChain of internal/worker/process.go fills each   *)
(* level's references from the series of earlier levels and fetches it,    *)
(* substitute puts the series into the payload.  The resolvents are        *)
(* numbered in document order, names are ordered as their sort orders      *)
(* them.  A field is named after the sibling it may refer to; a series is  *)
(* the one value a reference to it selects.                                *)
(***************************************************************************)
EXTENDS Integers, Sequences, FiniteSets, SequencesExt, FiniteSetsExt

CONSTANTS
  N,              \* resolvents in the payload
  NumNames,       \* names 1 .. NumNames; 0 is an unnamed array element
  Values,         \* what a series is
  Literals,       \* the values payloads hold themselves
  MaxLiterals,    \* bound: literal fields in a payload
  Absent, Ref,    \* a field that is missing, one that is a reference
  MaxChainDepth

ASSUME ChainsAssumption ==
  /\ N \in Nat \ {0} /\ NumNames \in Nat /\ MaxLiterals \in Nat
  /\ MaxChainDepth \in Nat \ {0}
  /\ IsFiniteSet(Values) /\ Literals \subseteq Values /\ Absent \notin Values /\ Ref \notin Values \cup {Absent}

Found == 1 .. N
Names == 1 .. NumNames
None == -1                  \* no depth yet
Objects == [Names -> Literals \cup {Absent, Ref}]
Inputs == [Names -> Values \cup {Absent, Ref}]

VARIABLES
  name,    \* Found.Name
  object,  \* Found.Object, as in the payload
  input,   \* Found.Input, the parameters sent and hashed
  hashed,  \* Found.Hash: the input the key was last computed from
  depth,   \* level's result
  stack,   \* the calls of level under way: the resolvent, the names left, d
  next,    \* Chain's loop over the resolvents
  level,   \* the level fetchChain is at
  all,     \* fetchChain's series by hash
  pc       \* where the job is, or how it ended

vars == <<name, object, input, hashed, depth, stack, next, level, all, pc>>
doc == <<name, object>>
-----------------------------------------------------------------------------
Refs(f) == {n \in Names : object[f][n] = Ref}
Named(n) == {f \in Found : name[f] = n}

\* bind: a reference names exactly one resolvent, and another one.
Binds(f, n) == Cardinality(Named(n)) = 1 /\ f \notin Named(n)
Dep(n) == CHOOSE f \in Named(n) : TRUE

Fails(why) ==
  /\ pc' = why
  /\ UNCHANGED <<doc, input, hashed, depth, stack, next, level, all>>

Bind ==
  /\ pc = "bind"
  /\ IF \A f \in Found : \A n \in Refs(f) : Binds(f, n)
     THEN pc' = "order" /\ UNCHANGED <<doc, input, hashed, depth, stack, next, level, all>>
     ELSE Fails("unbound")
-----------------------------------------------------------------------------
\* level, a recursive function, as a machine with its call stack.
Frame(f) == [f |-> f, left |-> Refs(f), d |-> 0]
Visiting == {stack[i].f : i \in DOMAIN stack}

Enter ==
  /\ pc = "order" /\ stack = <<>> /\ next <= N
  /\ IF depth[next] # None THEN next' = next + 1 /\ UNCHANGED stack
     ELSE stack' = <<Frame(next)>> /\ UNCHANGED next
  /\ UNCHANGED <<doc, input, hashed, depth, level, all, pc>>

DeeperFlat(d, dd) == Max({d, dd})          \* mutant: a reference adds no level
DeeperLast(d, dd) == dd + 1                \* mutant: the last reference decides
Deeper(d, dd) == Max({d, dd + 1})

Follow ==
  /\ pc = "order" /\ stack # <<>>
  /\ LET top == Last(stack) IN
     /\ top.left # {}
     /\ LET n == Min(top.left)
            g == Dep(n)
        IN \/ /\ depth[g] # None
              /\ stack' = [stack EXCEPT ![Len(stack)] =
                   [top EXCEPT !.left = @ \ {n}, !.d = Deeper(@, depth[g])]]
              /\ UNCHANGED <<doc, input, hashed, depth, next, level, all, pc>>
           \/ /\ depth[g] = None /\ g \in Visiting
              /\ Fails("cycle")
           \/ /\ depth[g] = None /\ g \notin Visiting
              /\ stack' = Append(stack, Frame(g))
              /\ UNCHANGED <<doc, input, hashed, depth, next, level, all, pc>>

TooDeep(d) == d >= MaxChainDepth

Finish ==
  /\ pc = "order" /\ stack # <<>>
  /\ LET top == Last(stack) IN
     /\ top.left = {}
     /\ IF TooDeep(top.d) THEN Fails("deep")
        ELSE /\ depth' = [depth EXCEPT ![top.f] = top.d]
             /\ stack' = Front(stack)
             /\ UNCHANGED <<doc, input, hashed, next, level, all, pc>>

Ordered ==
  /\ pc = "order" /\ stack = <<>> /\ next > N
  /\ pc' = "fill"
  /\ UNCHANGED <<doc, input, hashed, depth, stack, next, level, all>>
-----------------------------------------------------------------------------
Level == {f \in Found : depth[f] = level}
Levels == Max({depth[f] : f \in Found})

\* Fill: every reference replaced by the value it selects; Rehash then
\* computes the cache key from what is sent.
Filled(f) == [n \in Names |-> IF n \in Refs(f) THEN all[hashed[Dep(n)]] ELSE object[f][n]]
Rehash(f) == IF Refs(f) = {} THEN hashed[f] ELSE Filled(f)

Fill ==
  /\ pc = "fill"
  /\ IF \E f \in Level : \E n \in Refs(f) : hashed[Dep(n)] \notin DOMAIN all
     THEN Fails("unresolved")
     ELSE \/ /\ input' = [f \in Found |-> IF f \in Level THEN Filled(f) ELSE input[f]]
             /\ hashed' = [f \in Found |-> IF f \in Level THEN Rehash(f) ELSE hashed[f]]
             /\ pc' = "fetch"
             /\ UNCHANGED <<doc, depth, stack, next, level, all>>
          \/ /\ \E f \in Level : Refs(f) # {}
             /\ Fails("invalid_payload")   \* a path misses in its series

\* fetchAll of a level: one series per key, any at all.  A backend may answer
\* the same parameters differently each time, and the series cache belongs to
\* every job: a hit is what the last one to write left there, a row that
\* expired, that could not be read or was never written is a miss.
BatchSoFar == {hashed[f] : f \in {g \in Found : depth[g] <= level}}   \* mutant: the levels before again
Batch == {hashed[f] : f \in Level}
Merge(s, t) == [h \in DOMAIN s \cup DOMAIN t |-> IF h \in DOMAIN t THEN t[h] ELSE s[h]]

FetchLevel ==
  /\ pc = "fetch"
  /\ \/ \E got \in [Batch -> Values] :
          /\ all' = Merge(all, got)
          /\ IF level < Levels THEN level' = level + 1 /\ pc' = "fill"
             ELSE UNCHANGED level /\ pc' = "substitute"
          /\ UNCHANGED <<doc, input, hashed, depth, stack, next>>
     \/ Fails("resource_error")

Substitute ==
  /\ pc = "substitute"
  /\ IF \E f \in Found : hashed[f] \notin DOMAIN all THEN Fails("unresolved")
     ELSE /\ pc' = "resolved"
          /\ UNCHANGED <<doc, input, hashed, depth, stack, next, level, all>>
-----------------------------------------------------------------------------
\* Any payload, its keys computed from the objects as they are (Inspect).
Init ==
  /\ name \in [Found -> 0 .. NumNames]
  /\ object \in [Found -> Objects]
  /\ Cardinality({e \in Found \X Names : object[e[1]][e[2]] \in Literals}) <= MaxLiterals
  /\ input = object /\ hashed = object
  /\ depth = [f \in Found |-> None]
  /\ stack = <<>> /\ next = 1 /\ level = 0
  /\ all = <<>>
  /\ pc = "bind"

Next == \/ Bind \/ Enter \/ Follow \/ Finish \/ Ordered
        \/ Fill \/ FetchLevel \/ Substitute

Spec == Init /\ [][Next]_vars
-----------------------------------------------------------------------------
\* Recursion never holds one resolvent twice, so its depth is bounded by the
\* payload (level's visiting set).
TypeOK ==
  /\ name \in [Found -> 0 .. NumNames] /\ object \in [Found -> Objects]
  /\ input \in [Found -> Inputs] /\ hashed \in [Found -> Inputs]
  /\ depth \in [Found -> None .. MaxChainDepth - 1]
  /\ Cardinality(Visiting) = Len(stack)
  /\ next \in 1 .. N + 1 /\ level \in 0 .. MaxChainDepth - 1
  /\ pc \in {"bind", "order", "fill", "fetch", "substitute", "resolved", "unbound",
             "cycle", "deep", "unresolved", "invalid_payload", "resource_error"}

\* The reference definition: a trail of k references that starts at f.
Points(f, g) == \E n \in Refs(f) : Named(n) = {g} /\ g # f
Trail(f, k) ==
  \E p \in [0 .. k -> Found] : p[0] = f /\ \A i \in 1 .. k : Points(p[i - 1], p[i])
WellBound == \A f \in Found : \A n \in Refs(f) : \E g \in Found \ {f} : Named(n) = {g}
Cyclic == \E f \in Found : Trail(f, N)

\* Chain's verdict is right whatever the payload: refused exactly for a
\* reference it cannot follow, a cycle, or a trail as long as the bound, and
\* never for another reason; otherwise a resolvent's level is its longest
\* trail (Chain, bind, level).
ChainVerdict ==
  /\ pc = "unbound" => ~WellBound
  /\ pc = "cycle" => Cyclic
  /\ pc = "deep" => \E f \in Found : Trail(f, MaxChainDepth)
  /\ pc \in {"fill", "fetch", "substitute", "resolved"} =>
       /\ WellBound /\ ~Cyclic
       /\ \A f \in Found : Trail(f, depth[f]) /\ ~Trail(f, depth[f] + 1)

\* The series a reference or a slot needs was always fetched under the key
\* it is looked up by, rehashed keys included (fetchChain, substitute).
SeriesAlwaysThere == pc # "unresolved"

\* The payload the target gets is consistent: the series in a resolvent's
\* slot is the one its dependants were computed from, whatever the backends
\* and the cache answered.  The one exception is a twin, a resolvent filled
\* at the dependant's level or later to the very same parameters: it fetches
\* the key again, and what it gets replaces the series (fetchChain, Rehash).
Twin(f, g) == \E t \in Found : depth[t] >= depth[f] /\ hashed[t] = hashed[g]
DependantsAgree ==
  pc = "resolved" =>
    \A f \in Found : \A n \in Refs(f) :
      input[f][n] = all[hashed[Dep(n)]] \/ Twin(f, Dep(n))
=============================================================================
