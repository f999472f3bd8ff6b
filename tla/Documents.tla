----------------------------- MODULE Documents ------------------------------
(***************************************************************************)
(* The resolvent objects of a payload: internal/resolver/resolver.go       *)
(* follows the target's path to the time-series container                  *)
(* (locateContainer), collects the resolvents below it (Find, walk), and   *)
(* substitute of internal/worker/process.go overwrites the slot of each by *)
(* its series, through a closure that holds the map or array the resolvent *)
(* was found in (Substitute).                                              *)
(*                                                                         *)
(* A document is its nodes, numbered in document order, each with what the *)
(* package tells of it (a scalar, an array, or an object by its "type"     *)
(* field) and the nodes in its slots.  A slot is a key or an index, a      *)
(* number, ordered as walk visits them.  A decoded body is a node too: the *)
(* i-th one has the number Size + i.                                       *)
(***************************************************************************)
EXTENDS Integers, Sequences, FiniteSets, SequencesExt, FiniteSetsExt

CONSTANTS
  Size,             \* nodes of a payload
  Keys,             \* keys and indices
  ContainerPaths    \* the paths a target may be configured with

ASSUME DocAssumption ==
  Size \in Nat \ {0} /\ Keys \subseteq Nat /\ ContainerPaths \subseteq Seq(Keys)

Nodes == 1 .. Size
Root == 1
Nothing == 0       \* an empty slot, no parent, no marker
ObjectTypes == {"plain", "resolvent", "series"}
Kinds == ObjectTypes \cup {"scalar", "array"}

VARIABLES
  kind,      \* of each node of the payload
  payload,   \* the document as Parse decoded it: the node in each slot
  path,      \* the target's path to the container
  attach,    \* the target takes the marker (attach_resolvent)
  kids,      \* the document as it is now
  stage,     \* where Find and substitute are
  pos, at, parent,   \* locateContainer: segments followed, node, its parent
  frames,    \* the calls of walk under way: the node, the slots it has left
  slots,     \* Found: the resolvent's slot and the object in it
  bodies     \* the decoded series, one per slot overwritten

docGiven == <<kind, payload, path, attach>>
docVars == <<docGiven, kids, stage, pos, at, parent, frames, slots, bodies>>
-----------------------------------------------------------------------------
\* locateContainer: the path is followed through objects only; a container
\* that is missing leaves nothing to resolve.
Locate ==
  /\ stage = "locate" /\ pos < Len(path)
  /\ LET key == path[pos + 1] IN
     IF kind[at] \in ObjectTypes /\ kids[at][key] # Nothing
     THEN /\ at' = kids[at][key] /\ parent' = at /\ pos' = pos + 1
          /\ UNCHANGED stage
     ELSE stage' = "substitute" /\ UNCHANGED <<pos, at, parent>>
  /\ UNCHANGED <<docGiven, kids, frames, slots, bodies>>

\* walk: what a call visits, nothing in a scalar or in the data of a series.
EntersAll(k) == k # "scalar"       \* mutant: into the data of a series
Enters(k) == k \notin {"scalar", "series"}
Call(n) ==
  IF Enters(kind[n]) THEN <<[node |-> n, left |-> {k \in Keys : kids[n][k] # Nothing}]>>
  ELSE <<>>

\* report, with a hash that may fail: Find then returns the error.
Report(n, key, then) ==
  \/ /\ slots' = Append(slots, [parent |-> n, key |-> key, object |-> kids[n][key]])
     /\ stage' = then
  \/ stage' = "failed" /\ UNCHANGED slots

\* Find: a container that is itself a resolvent is the only one found; the
\* root has no slot, and is walked whatever its type says.
Find ==
  /\ stage = "locate" /\ pos = Len(path)
  /\ IF parent # Nothing /\ kind[at] = "resolvent"
     THEN Report(parent, path[pos], "substitute") /\ UNCHANGED frames
     ELSE frames' = Call(at) /\ stage' = "walk" /\ UNCHANGED slots
  /\ UNCHANGED <<docGiven, kids, pos, at, parent, bodies>>

\* One round of walk's loop: a resolvent is reported, anything else walked.
Visit ==
  /\ stage = "walk" /\ frames # <<>>
  /\ LET top == frames[Len(frames)]
         key == Min(top.left)
         node == kids[top.node][key]
         rest == [frames EXCEPT ![Len(frames)].left = @ \ {key}]
     IN /\ top.left # {}
        /\ IF kind[node] = "resolvent"
           THEN Report(top.node, key, "walk") /\ frames' = rest
           ELSE frames' = rest \o Call(node) /\ UNCHANGED <<slots, stage>>
  /\ UNCHANGED <<docGiven, kids, pos, at, parent, bodies>>

\* walk returns: to the call it was made from, or to Find.
Leave ==
  /\ stage = "walk"
  /\ IF frames = <<>> THEN stage' = "substitute" /\ UNCHANGED frames
     ELSE /\ frames[Len(frames)].left = {}
          /\ frames' = Front(frames) /\ UNCHANGED stage
  /\ UNCHANGED <<docGiven, kids, pos, at, parent, slots, bodies>>

\* Substitute of the next resolvent: a body that is no object fails the job,
\* one of another type than a series is only warned about.
Splice ==
  /\ stage = "substitute" /\ Len(bodies) < Len(slots)
  /\ LET f == slots[Len(bodies) + 1] IN
     \/ \E type \in ObjectTypes :
          /\ bodies' = Append(bodies, [kind |-> type, marker |-> IF attach THEN f.object ELSE Nothing])
          /\ kids' = [kids EXCEPT ![f.parent][f.key] = Size + Len(bodies) + 1]
          /\ UNCHANGED stage
     \/ stage' = "failed" /\ UNCHANGED <<bodies, kids>>
  /\ UNCHANGED <<docGiven, pos, at, parent, frames, slots>>

\* substitute returns the document, re-encoded.
Encode ==
  /\ stage = "substitute" /\ Len(bodies) = Len(slots)
  /\ stage' \in {"done", "failed"}
  /\ UNCHANGED <<docGiven, kids, pos, at, parent, frames, slots, bodies>>
-----------------------------------------------------------------------------
\* Every node but the root is in the slot up gives it; a node comes after its
\* parent, and after all that is in the slots before its own.
InDocumentOrder(up) ==
  \A c \in Nodes \ {Root} :
    /\ up[c][1] < c
    /\ \A d \in c + 1 .. Size :
         \/ up[d][1] >= c \/ up[d][1] < up[c][1]
         \/ up[d][1] = up[c][1] /\ up[c][2] < up[d][2]

InSlot(up, n, k) == {c \in Nodes \ {Root} : up[c] = <<n, k>>}
Filed(up) ==
  [n \in Nodes |-> [k \in Keys |->
     IF InSlot(up, n, k) = {} THEN Nothing ELSE CHOOSE c \in InSlot(up, n, k) : TRUE]]

Empty(n) == \A k \in Keys : payload[n][k] = Nothing
Indexed(n) == \A j, k \in Keys : j < k /\ payload[n][k] # Nothing => payload[n][j] # Nothing

DocInit ==
  /\ \E up \in [Nodes \ {Root} -> Nodes \X Keys] : InDocumentOrder(up) /\ payload = Filed(up)
  /\ kind \in [Nodes -> Kinds] /\ kind[Root] \in ObjectTypes
  /\ \A n \in Nodes : (kind[n] = "scalar" => Empty(n)) /\ (kind[n] = "array" => Indexed(n))
  /\ path \in ContainerPaths /\ attach \in BOOLEAN
  /\ kids = payload /\ stage = "locate"
  /\ pos = 0 /\ at = Root /\ parent = Nothing
  /\ frames = <<>> /\ slots = <<>> /\ bodies = <<>>

DocNext == Locate \/ Find \/ Visit \/ Leave \/ Splice \/ Encode
DocSpec == DocInit /\ [][DocNext]_docVars
-----------------------------------------------------------------------------
(* What Find and substitute promise, told of a whole document t.           *)

KindOf(v) == IF v \in Nodes THEN kind[v] ELSE bodies[v - Size].kind

\* The ways from the root along the path, through objects.
Ways(t) ==
  {f \in [0 .. Len(path) -> Nodes] :
     /\ f[0] = Root
     /\ \A i \in 1 .. Len(path) : kind[f[i - 1]] \in ObjectTypes /\ t[f[i - 1]][path[i]] = f[i]}

\* The nodes of a container with nothing opaque above them in it.
Passable(t, n, k) == kind[n] # "series" /\ t[n][k] \in Nodes /\ kind[t[n][k]] # "resolvent"
Closed(t, from, S) == from \in S /\ \A n \in S, k \in Keys : Passable(t, n, k) => t[n][k] \in S
Opened(t, from, n) == \A S \in SUBSET Nodes : Closed(t, from, S) => n \in S

IsResolvent(t, n, k) == kind[n] # "series" /\ t[n][k] # Nothing /\ KindOf(t[n][k]) = "resolvent"
Holds(t, f, n, k) ==
  LET container == f[Len(path)] IN
  IF path # <<>> /\ kind[container] = "resolvent"
  THEN n = f[Len(path) - 1] /\ k = path[Len(path)]
  ELSE IsResolvent(t, n, k) /\ Opened(t, container, n)
ToResolve(t, n, k) == \E f \in Ways(t) : Holds(t, f, n, k)

\* The nodes still in the document.
Attached(n) ==
  \A S \in SUBSET Nodes :
    Root \in S /\ (\A m \in S, k \in Keys : kids[m][k] \in Nodes => kids[m][k] \in S) => n \in S

FoundAll ==
  /\ \A n \in Nodes, k \in Keys :
       ToResolve(payload, n, k) <=> \E i \in 1 .. Len(slots) : slots[i].parent = n /\ slots[i].key = k
  /\ \A i \in 1 .. Len(slots) : slots[i].object = payload[slots[i].parent][slots[i].key]
  /\ \A i, j \in 1 .. Len(slots) : i < j => slots[i].object < slots[j].object
ReplacedThem ==
  /\ \A n \in Nodes, k \in Keys : ~ToResolve(payload, n, k) => kids[n][k] = payload[n][k]
  /\ \A i \in 1 .. Len(slots) :
       /\ kids[slots[i].parent][slots[i].key] = Size + i /\ Attached(slots[i].parent)
       /\ bodies[i].marker = IF attach THEN payload[slots[i].parent][slots[i].key] ELSE Nothing
LeftNone ==
  (\A i \in 1 .. Len(bodies) : bodies[i].kind = "series") =>
    \A n \in Nodes, k \in Keys : ~ToResolve(kids, n, k)

\* Whatever the document, exactly the resolvents in the container are found,
\* once and in document order, and none inside another.  Substituting them
\* all replaces these slots and nothing else, each in an object that is still
\* in the document, with each marker the object its own slot held, and leaves
\* none to find if every body is a genuine series (Find, walk, Substitute).
FoundAllReplaced ==
  /\ stage \in {"substitute", "done"} => FoundAll
  /\ stage = "done" => ReplacedThem /\ LeftNone
=============================================================================
