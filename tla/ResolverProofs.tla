--------------------------- MODULE ResolverProofs ---------------------------
(***************************************************************************)
(* Proofs about the resolver: chained resolvents, for every payload of any *)
(* size, every bound on the depth of a chain and every set of series; one  *)
(* pass of fetchAll for any number of fetchers and hashes; and, at the     *)
(* end, finding and substituting resolvents in a document of any size.     *)
(***************************************************************************)
EXTENDS Chains, Fetch, Documents, SequenceTheorems, WellFoundedInduction, FiniteSetTheorems, TLAPS
-----------------------------------------------------------------------------
(* The references of a payload as a graph, its walks as a constant notion. *)

Edges == {e \in Found \X Found : Points(e[1], e[2])}
IsWalk(E, p, k) ==
  p \in [0 .. k -> Found] /\ \A i \in 1 .. k : <<p[i - 1], p[i]>> \in E
Walk(E, f, k) == \E p \in [0 .. k -> Found] : p[0] = f /\ IsWalk(E, p, k)
-----------------------------------------------------------------------------
(* The inductive invariant.                                                *)

Frames == [f : Found, left : SUBSET Names, d : Nat]
IsSeries(s) == DOMAIN s \subseteq Inputs /\ s \in [DOMAIN s -> Values]
After == {"fill", "fetch", "substitute", "resolved"}

Shape ==
  /\ name \in [Found -> 0 .. NumNames] /\ object \in [Found -> Objects]
  /\ input \in [Found -> Inputs] /\ hashed \in [Found -> Inputs]
  /\ depth \in [Found -> None .. MaxChainDepth - 1]
  /\ stack \in Seq(Frames)
  /\ next \in 1 .. N + 1 /\ level \in 0 .. MaxChainDepth - 1
  /\ IsSeries(all)
  /\ pc \in {"bind", "order", "fill", "fetch", "substitute", "resolved", "unbound",
             "cycle", "deep", "unresolved", "invalid_payload", "resource_error"}

\* After bind every reference names one other resolvent.
Bound == pc = "unbound" <=> ~WellBound /\ pc # "bind"

\* A resolvent with a depth has it from its references, which have theirs,
\* and it is its longest trail.
Measured(f) ==
  /\ \A n \in Refs(f) : depth[Dep(n)] # None /\ depth[Dep(n)] < depth[f]
  /\ Walk(Edges, f, depth[f]) /\ ~Walk(Edges, f, depth[f] + 1)
DepthSound == \A f \in Found : depth[f] # None => Measured(f)

\* The calls of level under way: each resolvent at most once, each one
\* referred to by its caller, with the references it has met below its d.
FrameSound(k) ==
  /\ depth[k.f] = None /\ k.left \subseteq Refs(k.f)
  /\ \A n \in Refs(k.f) \ k.left : depth[Dep(n)] # None /\ depth[Dep(n)] < k.d
  /\ Walk(Edges, k.f, k.d)
StackSound ==
  /\ \A i \in 1 .. Len(stack) : FrameSound(stack[i])
  /\ \A i, j \in 1 .. Len(stack) : stack[i].f = stack[j].f => i = j
  /\ \A i \in 1 .. Len(stack) - 1 : <<stack[i].f, stack[i + 1].f>> \in Edges

\* The loop has put a depth on what it has passed, and on all at its end.
Progress ==
  /\ \A f \in 1 .. next - 1 : depth[f] # None
  /\ pc \in After => next = N + 1
  /\ pc \in {"bind", "order"} => level = 0

\* Why a payload was refused.
Refused ==
  /\ pc = "cycle" => \E f \in Found : Walk(Edges, f, N)
  /\ pc = "deep" => \E f \in Found : Walk(Edges, f, MaxChainDepth)

\* The series of the levels passed are there.
Passed(f) == IF pc \in {"fill", "fetch"} THEN depth[f] < level ELSE pc \in After
Fetched ==
  /\ \A f \in Found : Passed(f) => hashed[f] \in DOMAIN all
  /\ pc # "unresolved"

ChainsInv ==
  /\ Shape /\ Bound /\ DepthSound /\ StackSound /\ Progress /\ Refused /\ Fetched

\* What was filled in is what is there, unless a twin was fetched since.
Sent(f) == Passed(f) \/ (pc = "fetch" /\ depth[f] = level)
Agrees(f, n) ==
  \/ input[f][n] = all[hashed[Dep(n)]]
  \/ \E t \in Found : Passed(t) /\ depth[t] >= depth[f] /\ hashed[t] = hashed[Dep(n)]
Agree == \A f \in Found : Sent(f) => \A n \in Refs(f) : Agrees(f, n)
-----------------------------------------------------------------------------
(* Walks of any graph on the resolvents.                                   *)

\* A set of numbers with a member has a least one.
LEMMA SmallestMember ==
  ASSUME NEW S, S \subseteq Nat, S # {}
  PROVE  \E x \in S : \A y \in S : x <= y
  <1>1. \A x, y \in Nat : x < y => <<x, y>> \in OpToRel(<, Nat)
    BY DEF OpToRel
  <1>2. PICK x \in S : \A y \in S : ~(<<y, x>> \in OpToRel(<, Nat))
    BY NatLessThanWellFounded, WFMin
  <1>3. \A y \in S : ~(y < x)
    BY <1>1, <1>2, Zenon
  <1>4. \A y \in S : x <= y
    BY <1>3
  <1> QED BY <1>4

LEMMA WalkOfNone ==
  ASSUME NEW E, NEW f \in Found
  PROVE  Walk(E, f, 0)
  <1> DEFINE p == [i \in 0 .. 0 |-> f]
  <1>1. p \in [0 .. 0 -> Found] /\ p[0] = f
    OBVIOUS
  <1>2. \A i \in 1 .. 0 : <<p[i - 1], p[i]>> \in E
    OBVIOUS
  <1> HIDE DEF p
  <1> QED BY <1>1, <1>2 DEF Walk, IsWalk

\* An edge in front of a walk ...
LEMMA WalkLonger ==
  ASSUME NEW E, NEW f \in Found, NEW g \in Found, NEW k \in Nat,
         <<f, g>> \in E, Walk(E, g, k)
  PROVE  Walk(E, f, k + 1)
  <1>1. PICK p \in [0 .. k -> Found] : p[0] = g /\ IsWalk(E, p, k)
    BY DEF Walk
  <1> DEFINE q == [i \in 0 .. k + 1 |-> IF i = 0 THEN f ELSE p[i - 1]]
  <1>2. q \in [0 .. k + 1 -> Found]
    <2>1. ASSUME NEW i \in 0 .. k + 1, i # 0 PROVE p[i - 1] \in Found
      BY <1>1, <2>1
    <2> QED BY <2>1
  <1>3. q[0] = f /\ q[1] = g
    BY <1>1
  <1>4. ASSUME NEW i \in 1 .. k + 1 PROVE <<q[i - 1], q[i]>> \in E
    <2>1. CASE i = 1
      BY <1>3, <2>1
    <2>2. CASE i # 1
      <3>1. i - 1 \in 1 .. k /\ q[i - 1] = p[(i - 1) - 1] /\ q[i] = p[i - 1]
        BY <2>2
      <3> QED BY <1>1, <3>1 DEF IsWalk
    <2> QED BY <2>1, <2>2
  <1> HIDE DEF q
  <1> QED BY <1>2, <1>3, <1>4 DEF Walk, IsWalk

\* ... and the walk behind its first edge.
LEMMA WalkBehind ==
  ASSUME NEW E, NEW f \in Found, NEW k \in Nat, Walk(E, f, k + 1)
  PROVE  \E g \in Found : <<f, g>> \in E /\ Walk(E, g, k)
  <1>1. PICK p \in [0 .. k + 1 -> Found] : p[0] = f /\ IsWalk(E, p, k + 1)
    BY DEF Walk
  <1> DEFINE q == [i \in 0 .. k |-> p[i + 1]]
  <1>2. q \in [0 .. k -> Found] /\ q[0] = p[1]
    OBVIOUS
  <1>3. <<f, p[1]>> \in E /\ p[1] \in Found
    <2>1. 1 \in 1 .. k + 1 /\ 1 \in 0 .. k + 1 /\ 1 - 1 = 0
      OBVIOUS
    <2> QED BY <1>1, <2>1 DEF IsWalk
  <1>4. ASSUME NEW i \in 1 .. k PROVE <<q[i - 1], q[i]>> \in E
    <2>1. i + 1 \in 1 .. k + 1 /\ q[i - 1] = p[(i + 1) - 1] /\ q[i] = p[i + 1]
      OBVIOUS
    <2> QED BY <1>1, <2>1 DEF IsWalk
  <1> HIDE DEF q
  <1>5. Walk(E, p[1], k)
    BY <1>2, <1>4 DEF Walk, IsWalk
  <1> QED BY <1>3, <1>5

LEMMA WalkShorter ==
  ASSUME NEW E, NEW f \in Found, NEW k \in Nat, NEW j \in 0 .. k, Walk(E, f, k)
  PROVE  Walk(E, f, j)
  <1>1. PICK p \in [0 .. k -> Found] : p[0] = f /\ IsWalk(E, p, k)
    BY DEF Walk
  <1> DEFINE q == [i \in 0 .. j |-> p[i]]
  <1>2. q \in [0 .. j -> Found] /\ q[0] = f
    BY <1>1
  <1>3. ASSUME NEW i \in 1 .. j PROVE <<q[i - 1], q[i]>> \in E
    <2>1. i \in 1 .. k /\ q[i - 1] = p[i - 1] /\ q[i] = p[i]
      OBVIOUS
    <2> QED BY <1>1, <2>1 DEF IsWalk
  <1> HIDE DEF q
  <1> QED BY <1>2, <1>3 DEF Walk, IsWalk

\* Where every resolvent of a set leads to one of the set, walks never end.
LEMMA WalksGoOn ==
  ASSUME NEW E, NEW S \in SUBSET Found, \A f \in S : \E g \in S : <<f, g>> \in E,
         NEW h \in S, NEW m \in Nat
  PROVE  Walk(E, h, m)
  <1> DEFINE Bad == {k \in Nat : \E f \in S : ~Walk(E, f, k)}
  <1>1. SUFFICES ASSUME Bad # {} PROVE FALSE
    OBVIOUS
  <1>2. PICK k \in Bad : \A y \in Bad : k <= y
    <2>1. Bad \subseteq Nat
      OBVIOUS
    <2> HIDE DEF Bad
    <2> QED BY <1>1, <2>1, SmallestMember
  <1>3. PICK f \in S : ~Walk(E, f, k)
    BY <1>2
  <1>4. k # 0
    BY <1>3, WalkOfNone
  <1>5. k - 1 \in Nat /\ k - 1 \notin Bad
    BY <1>2, <1>4
  <1>6. PICK g \in S : <<f, g>> \in E
    OBVIOUS
  <1>7. Walk(E, g, k - 1)
    BY <1>5
  <1>8. Walk(E, f, (k - 1) + 1)
    <2> HIDE DEF Bad
    <2> QED BY <1>5, <1>6, <1>7, WalkLonger
  <1>9. (k - 1) + 1 = k
    BY <1>2
  <1> QED BY <1>3, <1>8, <1>9

\* Where every edge leads down, no walk is as long as there are resolvents.
LEMMA WalksEnd ==
  ASSUME NEW E, NEW rank \in [Found -> Int],
         \A f, g \in Found : <<f, g>> \in E => rank[g] < rank[f],
         NEW h \in Found, Walk(E, h, N)
  PROVE  FALSE
  <1> USE ChainsAssumption
  <1>1. PICK p \in [0 .. N -> Found] : IsWalk(E, p, N)
    BY DEF Walk
  <1>2. ASSUME NEW i \in 0 .. N, NEW j \in 0 .. N, i < j PROVE rank[p[j]] < rank[p[i]]
    <2> DEFINE Bad == {k \in i + 1 .. N : ~(rank[p[k]] < rank[p[i]])}
    <2>1. SUFFICES ASSUME Bad # {} PROVE FALSE
      BY <1>2
    <2>2. PICK k \in Bad : \A y \in Bad : k <= y
      <3>1. Bad \subseteq Nat
        OBVIOUS
      <3> HIDE DEF Bad
      <3> QED BY <2>1, <3>1, SmallestMember
    <2>3. k \in 1 .. N /\ k - 1 \in 0 .. N /\ p[k] \in Found /\ p[k - 1] \in Found /\ p[i] \in Found
      OBVIOUS
    <2>4. rank[p[k]] < rank[p[k - 1]]
      BY <1>1, <2>3 DEF IsWalk
    <2>5. rank[p[k]] \in Int /\ rank[p[k - 1]] \in Int /\ rank[p[i]] \in Int
      BY <2>3
    <2>6. CASE k = i + 1
      <3>1. k - 1 = i
        BY <2>6
      <3> QED BY <2>2, <2>4, <3>1
    <2>7. CASE k # i + 1
      <3>1. k - 1 \in i + 1 .. N /\ k - 1 \in Nat /\ k - 1 < k
        BY <2>2, <2>7
      <3>2. rank[p[k - 1]] < rank[p[i]]
        BY <2>2, <3>1
      <3> QED BY <2>2, <2>4, <2>5, <3>2
    <2> QED BY <2>6, <2>7
  <1>3. ASSUME NEW i \in 0 .. N, NEW j \in 0 .. N, p[i] = p[j] PROVE i = j
    <2>1. p[i] \in Found /\ rank[p[i]] \in Int
      OBVIOUS
    <2>2. ~(i < j) /\ ~(j < i)
      BY <1>2, <1>3, <2>1
    <2> QED BY <2>2
  <1>4. IsFiniteSet(0 .. N) /\ Cardinality(0 .. N) = N + 1
    BY FS_Interval
  <1>5. IsFiniteSet(Found) /\ Cardinality(Found) = N
    BY FS_Interval DEF Found
  <1>6. \E x, y \in 0 .. N : x # y /\ p[x] = p[y]
    <2>1. Cardinality(Found) < Cardinality(0 .. N)
      BY <1>4, <1>5
    <2> QED BY <1>4, <1>5, <2>1, FS_PigeonHole
  <1> QED BY <1>3, <1>6
-----------------------------------------------------------------------------
(* Facts about the operators.                                              *)

\* The largest of a bounded set of numbers.
LEMMA LargestMember ==
  ASSUME NEW m \in Nat, NEW S, S \subseteq 0 .. m, S # {}
  PROVE  Max(S) \in S /\ \A y \in S : y <= Max(S)
  <1> DEFINE T == {m - x : x \in S}
  <1>0. \A x \in S : x \in Nat /\ m - x \in Nat
    OBVIOUS
  <1>1. T \subseteq Nat /\ T # {}
    BY <1>0
  <1>2. PICK t \in T : \A u \in T : t <= u
    <2> HIDE DEF T
    <2> QED BY <1>1, SmallestMember
  <1>3. PICK x \in S : t = m - x
    BY <1>2
  <1>4. \A y \in S : x >= y
    <2>1. ASSUME NEW y \in S PROVE x >= y
      <3>1. m - y \in T
        OBVIOUS
      <3> QED BY <1>0, <1>2, <1>3, <3>1
    <2> QED BY <2>1
  <1>5. Max(S) \in S /\ \A y \in S : Max(S) >= y
    <2>1. \E z \in S : \A y \in S : z >= y
      BY <1>3, <1>4
    <2> QED BY <2>1 DEF Max
  <1> QED BY <1>0, <1>5

LEMMA SmallestOf ==
  ASSUME NEW S \in SUBSET Names, S # {}
  PROVE  Min(S) \in S
  <1>1. S \subseteq Nat
    BY ChainsAssumption DEF Names
  <1>2. PICK x \in S : \A y \in S : x <= y
    BY <1>1, SmallestMember
  <1> QED BY <1>2 DEF Min

\* A reference puts its resolvent at least one level above what it needs.
LEMMA DeeperIs ==
  ASSUME NEW d \in Nat, NEW dd \in Nat
  PROVE  /\ Deeper(d, dd) \in {d, dd + 1} /\ Deeper(d, dd) \in Nat
         /\ d <= Deeper(d, dd) /\ dd < Deeper(d, dd)
  <1>1. \E x \in {d, dd + 1} : \A y \in {d, dd + 1} : x >= y
    <2>1. CASE d >= dd + 1
      BY <2>1
    <2>2. CASE ~(d >= dd + 1)
      BY <2>2
    <2> QED BY <2>1, <2>2
  <1>2. /\ Deeper(d, dd) \in {d, dd + 1}
        /\ \A y \in {d, dd + 1} : Deeper(d, dd) >= y
    BY <1>1 DEF Deeper, Max
  <1> QED BY <1>2

LEMMA FoundFinite == IsFiniteSet(Found)
  BY FS_Interval, ChainsAssumption DEF Found

\* What a reference of a bound payload leads to.
LEMMA DepIs ==
  ASSUME WellBound, NEW f \in Found, NEW n \in Refs(f)
  PROVE  Dep(n) \in Found /\ <<f, Dep(n)>> \in Edges
  <1>1. PICK g \in Found \ {f} : Named(n) = {g}
    BY DEF WellBound
  <1>2. Dep(n) = g
    BY <1>1 DEF Dep
  <1>3. Points(f, g)
    BY <1>1 DEF Points
  <1>4. <<f, g>> \in Found \X Found /\ <<f, g>>[1] = f /\ <<f, g>>[2] = g
    OBVIOUS
  <1> QED BY <1>1, <1>2, <1>3, <1>4 DEF Edges

\* Every edge is a reference.
LEMMA EdgeIs ==
  ASSUME NEW f, NEW g, <<f, g>> \in Edges
  PROVE  f \in Found /\ g \in Found /\ \E n \in Refs(f) : Dep(n) = g
  <1>1. f \in Found /\ g \in Found /\ Points(f, g)
    BY DEF Edges
  <1>2. PICK n \in Refs(f) : Named(n) = {g}
    BY <1>1 DEF Points
  <1> QED BY <1>1, <1>2 DEF Dep

\* A trail of the reference definition is a walk.
LEMMA TrailIsWalk ==
  ASSUME NEW f \in Found, NEW k \in Nat
  PROVE  Trail(f, k) <=> Walk(Edges, f, k)
  <1>1. ASSUME NEW p \in [0 .. k -> Found], NEW i \in 1 .. k
        PROVE  Points(p[i - 1], p[i]) <=> <<p[i - 1], p[i]>> \in Edges
    <2>1. p[i - 1] \in Found /\ p[i] \in Found
      OBVIOUS
    <2> QED BY <2>1 DEF Edges
  <1> QED BY <1>1 DEF Trail, Walk, IsWalk

\* What depends on the payload only.
LEMMA DocStays ==
  ASSUME doc' = doc
  PROVE  /\ WellBound' = WellBound /\ Edges' = Edges
         /\ \A f \in Found : Refs(f)' = Refs(f)
         /\ \A n \in Names : Dep(n)' = Dep(n)
  <1>1. name' = name /\ object' = object
    BY DEF doc
  <1>2. \A f \in Found : Refs(f)' = Refs(f)
    BY <1>1 DEF Refs
  <1>3. \A n \in Names : Named(n)' = Named(n)
    BY <1>1 DEF Named
  <1>4. \A n \in Names : Dep(n)' = Dep(n)
    BY <1>3 DEF Dep
  <1>5. WellBound' = WellBound
    BY <1>1 DEF WellBound, Refs, Named
  <1>6. Edges' = Edges
    BY <1>1 DEF Edges, Points, Refs, Named
  <1> QED BY <1>2, <1>4, <1>5, <1>6

LEMMA DocNeverChanges ==
  ASSUME [Next]_vars
  PROVE  doc' = doc
  BY DEF Next, vars, doc, Bind, Enter, Follow, Finish, Ordered, Fill, FetchLevel, Substitute, Fails
-----------------------------------------------------------------------------
(* Ordering: what the steps of level do to the depths and the calls.       *)

LEMMA DepthType ==
  ASSUME Shape, NEW f \in Found
  PROVE  /\ depth[f] \in Int /\ depth[f] < MaxChainDepth
         /\ depth[f] # None => depth[f] \in Nat
  BY ChainsAssumption DEF Shape, None

LEMMA RefsAreNames ==
  ASSUME NEW f
  PROVE  Refs(f) \subseteq Names
  BY DEF Refs

LEMMA Calls ==
  ASSUME Shape
  PROVE  \A i \in 1 .. Len(stack) : stack[i] \in Frames /\ stack[i].f \in Found
  <1>1. ASSUME NEW i \in 1 .. Len(stack) PROVE stack[i] \in Frames
    BY ElementOfSeq DEF Shape
  <1>2. \A k \in Frames : k.f \in Found
    BY DEF Frames
  <1> QED BY <1>1, <1>2

LEMMA OrderStays ==
  ASSUME doc' = doc, depth' = depth, stack' = stack, Shape, DepthSound, StackSound
  PROVE  DepthSound' /\ StackSound'
  <1>1. /\ Edges' = Edges
        /\ \A f \in Found : Refs(f)' = Refs(f) /\ Refs(f) \subseteq Names
        /\ \A n \in Names : Dep(n)' = Dep(n)
    BY DocStays, RefsAreNames
  <1>2. DepthSound'
    BY <1>1 DEF DepthSound, Measured
  <1>3. \A i \in 1 .. Len(stack) : stack[i] \in Frames
    BY DEF Shape
  <1>4. ASSUME NEW i \in 1 .. Len(stack') PROVE FrameSound(stack[i])'
    <2>1. FrameSound(stack[i]) /\ stack[i].f \in Found
      BY <1>3 DEF StackSound, Frames
    <2> QED BY <1>1, <2>1 DEF FrameSound
  <1>5. /\ \A i, j \in 1 .. Len(stack') : stack'[i].f = stack'[j].f => i = j
        /\ \A i \in 1 .. Len(stack') - 1 : <<stack'[i].f, stack'[i + 1].f>> \in Edges'
    BY <1>1 DEF StackSound
  <1> QED BY <1>2, <1>4, <1>5 DEF StackSound

\* level calls itself for a resolvent that has no depth and no call yet.
LEMMA CallPushed ==
  ASSUME NEW g \in Found, doc' = doc, depth' = depth, stack' = Append(stack, Frame(g)),
         depth[g] = None, g \notin Visiting,
         stack # <<>> => <<stack[Len(stack)].f, g>> \in Edges,
         Shape, DepthSound, StackSound
  PROVE  stack' \in Seq(Frames) /\ DepthSound' /\ StackSound'
  <1>1. /\ Edges' = Edges
        /\ \A f \in Found : Refs(f)' = Refs(f) /\ Refs(f) \subseteq Names
        /\ \A n \in Names : Dep(n)' = Dep(n)
    BY DocStays, RefsAreNames
  <1>2. DepthSound'
    BY <1>1 DEF DepthSound, Measured
  <1>3. /\ Frame(g) \in Frames /\ Frame(g).f = g
        /\ Frame(g).left = Refs(g) /\ Frame(g).d = 0
    BY <1>1 DEF Frame, Frames
  <1>4. stack \in Seq(Frames) /\ Len(stack) \in Nat
    BY DEF Shape
  <1>5. /\ stack' \in Seq(Frames) /\ Len(stack') = Len(stack) + 1
        /\ stack'[Len(stack) + 1] = Frame(g)
        /\ \A i \in 1 .. Len(stack) : stack'[i] = stack[i] /\ stack[i] \in Frames
    BY <1>3, <1>4
  <1>6. ASSUME NEW i \in 1 .. Len(stack') PROVE FrameSound(stack[i])'
    <2>1. CASE i = Len(stack) + 1
      <3>1. Walk(Edges, g, 0)
        BY WalkOfNone
      <3> QED BY <1>1, <1>3, <1>5, <2>1, <3>1 DEF FrameSound
    <2>2. CASE i # Len(stack) + 1
      <3>1. i \in 1 .. Len(stack) /\ stack'[i] = stack[i] /\ stack[i].f \in Found
        BY <1>4, <1>5, <2>2 DEF Frames
      <3>2. FrameSound(stack[i])
        BY <3>1 DEF StackSound
      <3> QED BY <1>1, <3>1, <3>2 DEF FrameSound
    <2> QED BY <2>1, <2>2
  <1>7. ASSUME NEW i \in 1 .. Len(stack'), NEW j \in 1 .. Len(stack'), stack'[i].f = stack'[j].f
        PROVE  i = j
    <2>1. \A k \in 1 .. Len(stack) : stack[k].f # g
      BY <1>4 DEF Visiting
    <2>2. \A k \in 1 .. Len(stack') : k # Len(stack) + 1 => k \in 1 .. Len(stack)
      BY <1>4, <1>5
    <2> QED BY <1>3, <1>5, <1>7, <2>1, <2>2 DEF StackSound
  <1>8. ASSUME NEW i \in 1 .. Len(stack') - 1
        PROVE  <<stack'[i].f, stack'[i + 1].f>> \in Edges'
    <2>1. CASE i = Len(stack)
      <3>1. stack # <<>> /\ stack'[i] = stack[i] /\ stack'[i + 1] = Frame(g)
        BY <1>4, <1>5, <2>1
      <3> QED BY <1>1, <1>3, <2>1, <3>1
    <2>2. CASE i # Len(stack)
      <3>1. /\ i \in 1 .. Len(stack) - 1
            /\ stack'[i] = stack[i] /\ stack'[i + 1] = stack[i + 1]
        BY <1>4, <1>5, <2>2
      <3> QED BY <1>1, <3>1 DEF StackSound
    <2> QED BY <2>1, <2>2
  <1>9. StackSound'
    BY <1>6, <1>7, <1>8 DEF StackSound
  <1> QED BY <1>2, <1>5, <1>9

\* The call on top has met the depth of a reference.
LEMMA ReferenceMet ==
  ASSUME Shape, DepthSound, StackSound, WellBound, doc' = doc, depth' = depth, stack # <<>>,
         NEW n \in stack[Len(stack)].left, depth[Dep(n)] # None,
         stack' = [stack EXCEPT ![Len(stack)] =
                    [stack[Len(stack)] EXCEPT !.left = @ \ {n}, !.d = Deeper(@, depth[Dep(n)])]]
  PROVE  stack' \in Seq(Frames) /\ DepthSound' /\ StackSound'
  <1> DEFINE top == stack[Len(stack)]
             dd == depth[Dep(n)]
             new == [top EXCEPT !.left = @ \ {n}, !.d = Deeper(@, dd)]
  <1>1. /\ Edges' = Edges
        /\ \A f \in Found : Refs(f)' = Refs(f) /\ Refs(f) \subseteq Names
        /\ \A m \in Names : Dep(m)' = Dep(m)
    BY DocStays, RefsAreNames
  <1>2. DepthSound'
    BY <1>1 DEF DepthSound, Measured
  <1>3. stack \in Seq(Frames) /\ Len(stack) \in Nat \ {0} /\ Len(stack) \in 1 .. Len(stack)
    BY DEF Shape
  <1>4. top \in Frames /\ FrameSound(top)
    BY <1>3 DEF StackSound
  <1>5. top.f \in Found /\ top.d \in Nat /\ top.left \in SUBSET Names /\ n \in Refs(top.f)
    BY <1>4 DEF Frames, FrameSound
  <1>6. Dep(n) \in Found /\ <<top.f, Dep(n)>> \in Edges
    BY <1>5, DepIs
  <1>7. dd \in Nat /\ Walk(Edges, Dep(n), dd)
    BY <1>6, DepthType DEF DepthSound, Measured
  <1>8. /\ Deeper(top.d, dd) \in {top.d, dd + 1} /\ Deeper(top.d, dd) \in Nat
        /\ top.d <= Deeper(top.d, dd) /\ dd < Deeper(top.d, dd)
    <2> HIDE DEF dd, top
    <2> QED BY <1>5, <1>7, DeeperIs
  <1>9. /\ new \in Frames /\ new.f = top.f /\ new.left = top.left \ {n}
        /\ new.d = Deeper(top.d, dd)
    BY <1>4, <1>5, <1>8 DEF Frames
  <1>10. Walk(Edges, top.f, Deeper(top.d, dd))
    <2>1. Walk(Edges, top.f, dd + 1)
      <3> HIDE DEF dd, top
      <3> QED BY <1>5, <1>6, <1>7, WalkLonger
    <2>2. Walk(Edges, top.f, top.d)
      BY <1>4 DEF FrameSound
    <2> QED BY <1>8, <2>1, <2>2
  <1>11. /\ stack' \in Seq(Frames) /\ Len(stack') = Len(stack)
         /\ stack'[Len(stack)] = new
         /\ \A i \in 1 .. Len(stack) : i # Len(stack) => stack'[i] = stack[i]
         /\ \A i \in 1 .. Len(stack) : stack[i] \in Frames
    <2>1. stack' = [stack EXCEPT ![Len(stack)] = new]
      OBVIOUS
    <2> HIDE DEF new
    <2>2. /\ stack' \in Seq(Frames) /\ Len(stack') = Len(stack)
          /\ \A j \in 1 .. Len(stack) : stack'[j] = IF j = Len(stack) THEN new ELSE stack[j]
      BY <1>3, <1>9, <2>1, ExceptSeq
    <2>3. \A i \in 1 .. Len(stack) : stack[i] \in Frames
      BY Calls
    <2> QED BY <1>3, <2>2, <2>3
  <1>12. \A i \in 1 .. Len(stack) : stack'[i].f = stack[i].f
    BY <1>9, <1>11
  <1>13. \A m \in Refs(top.f) \ new.left : depth[Dep(m)] # None /\ depth[Dep(m)] < new.d
    <2>1. ASSUME NEW m \in Refs(top.f), m \notin new.left
          PROVE  depth[Dep(m)] # None /\ depth[Dep(m)] < new.d
      <3>1. CASE m = n
        BY <1>8, <1>9, <3>1
      <3>2. CASE m # n
        <4>1. depth[Dep(m)] # None /\ depth[Dep(m)] < top.d
          BY <1>4, <1>9, <2>1, <3>2 DEF FrameSound
        <4>2. Dep(m) \in Found
          BY <1>5, DepIs
        <4>3. depth[Dep(m)] \in Int
          BY <4>2, DepthType
        <4> QED BY <1>5, <1>8, <1>9, <4>1, <4>3
      <3> QED BY <3>1, <3>2
    <2> QED BY <2>1
  <1> HIDE DEF new, dd, top
  <1>14. ASSUME NEW i \in 1 .. Len(stack'), i = Len(stack) PROVE FrameSound(stack[i])'
    <2>1. stack'[i] = new
      BY <1>11, <1>14
    <2>2. depth[top.f] = None /\ top.left \subseteq Refs(top.f)
      BY <1>4 DEF FrameSound
    <2> QED BY <1>1, <1>5, <1>9, <1>10, <1>13, <2>1, <2>2 DEF FrameSound
  <1>15. ASSUME NEW i \in 1 .. Len(stack') PROVE FrameSound(stack[i])'
    <2>1. CASE i = Len(stack)
      BY <1>14, <2>1
    <2>2. CASE i # Len(stack)
      <3>1. i \in 1 .. Len(stack) /\ stack'[i] = stack[i] /\ stack[i].f \in Found
        BY <1>11, <2>2 DEF Frames
      <3>2. FrameSound(stack[i])
        BY <3>1 DEF StackSound
      <3> QED BY <1>1, <3>1, <3>2 DEF FrameSound
    <2> QED BY <2>1, <2>2
  <1>16. StackSound'
    <2>1. \A i, j \in 1 .. Len(stack') : stack'[i].f = stack'[j].f => i = j
      BY <1>11, <1>12 DEF StackSound
    <2>2. \A i \in 1 .. Len(stack') - 1 : <<stack'[i].f, stack'[i + 1].f>> \in Edges'
      <3>1. ASSUME NEW i \in 1 .. Len(stack) - 1
            PROVE  <<stack'[i].f, stack'[i + 1].f>> \in Edges
        <4>1. i \in 1 .. Len(stack) /\ i + 1 \in 1 .. Len(stack)
          BY <1>3
        <4> QED BY <1>12, <4>1 DEF StackSound
      <3> QED BY <1>1, <1>11, <3>1
    <2> QED BY <1>15, <2>1, <2>2 DEF StackSound
  <1> QED BY <1>2, <1>11, <1>16

LEMMA FrontIs ==
  ASSUME NEW T, NEW s \in Seq(T), s # <<>>
  PROVE  /\ Front(s) \in Seq(T) /\ Len(Front(s)) = Len(s) - 1
         /\ \A i \in 1 .. Len(Front(s)) : Front(s)[i] = s[i] /\ i \in 1 .. Len(s) - 1
  <1> DEFINE m == Len(s) - 1
  <1>1. Len(s) \in Nat \ {0} /\ m \in Nat
    OBVIOUS
  <1>2. \A i \in 1 .. m : s[i] \in T
    BY <1>1, ElementOfSeq
  <1>3. Front(s) = SubSeq(s, 1, m)
    BY DEF Front
  <1> HIDE DEF m
  <1>4. /\ SubSeq(s, 1, m) \in Seq(T)
        /\ Len(SubSeq(s, 1, m)) = IF 1 <= m THEN m - 1 + 1 ELSE 0
        /\ \A i \in 1 .. m - 1 + 1 : SubSeq(s, 1, m)[i] = s[1 + i - 1]
    BY <1>1, <1>2, SubSeqProperties
  <1>5. Len(Front(s)) = m /\ \A i \in 1 .. m : Front(s)[i] = s[i]
    BY <1>1, <1>3, <1>4
  <1> QED BY <1>3, <1>4, <1>5 DEF m

\* A finished call: its resolvent has its depth, and no longer trail.
LEMMA CallFinished ==
  ASSUME Shape, DepthSound, StackSound, WellBound, doc' = doc, stack # <<>>,
         NEW top, top = stack[Len(stack)], top.left = {}, top.d < MaxChainDepth,
         depth' = [depth EXCEPT ![top.f] = top.d], stack' = Front(stack)
  PROVE  /\ stack' \in Seq(Frames) /\ depth' \in [Found -> None .. MaxChainDepth - 1]
         /\ DepthSound' /\ StackSound'
         /\ \A f \in Found : depth[f] # None => depth'[f] # None
  <1>1. /\ Edges' = Edges
        /\ \A f \in Found : Refs(f)' = Refs(f) /\ Refs(f) \subseteq Names
        /\ \A m \in Names : Dep(m)' = Dep(m)
    BY DocStays, RefsAreNames
  <1>2. stack \in Seq(Frames) /\ Len(stack) \in Nat \ {0} /\ Len(stack) \in 1 .. Len(stack)
    BY DEF Shape
  <1>3. top \in Frames /\ FrameSound(top)
    BY <1>2 DEF StackSound
  <1>4. top.f \in Found /\ top.d \in Nat /\ depth[top.f] = None /\ Walk(Edges, top.f, top.d)
    BY <1>3 DEF Frames, FrameSound
  <1>5. /\ stack' \in Seq(Frames) /\ Len(stack') = Len(stack) - 1
        /\ \A i \in 1 .. Len(stack') : stack'[i] = stack[i] /\ i \in 1 .. Len(stack) - 1
        /\ \A i \in 1 .. Len(stack) : stack[i] \in Frames /\ stack[i].f \in Found
    <2>1. \A i \in 1 .. Len(stack) : stack[i] \in Frames /\ stack[i].f \in Found
      BY Calls
    <2> QED BY <1>2, <2>1, FrontIs
  <1>6. depth \in [Found -> None .. MaxChainDepth - 1] /\ None = -1
    BY DEF Shape, None
  <1>7. /\ depth' \in [Found -> None .. MaxChainDepth - 1]
        /\ depth'[top.f] = top.d
        /\ \A f \in Found : f # top.f => depth'[f] = depth[f]
    BY <1>4, <1>6, ChainsAssumption
  <1>8. \A f \in Found : depth[f] # None => f # top.f /\ depth'[f] = depth[f]
    BY <1>4, <1>7
  <1>9. \A n \in Refs(top.f) : depth[Dep(n)] # None /\ depth[Dep(n)] < top.d /\ Dep(n) \in Found
    <2>1. \A n \in Refs(top.f) : Dep(n) \in Found
      BY <1>4, DepIs
    <2> QED BY <1>3, <2>1 DEF FrameSound
  <1>10. ~Walk(Edges, top.f, top.d + 1)
    <2>1. SUFFICES ASSUME Walk(Edges, top.f, top.d + 1) PROVE FALSE
      OBVIOUS
    <2>2. PICK g \in Found : <<top.f, g>> \in Edges /\ Walk(Edges, g, top.d)
      BY <1>4, <2>1, WalkBehind
    <2>3. PICK n \in Refs(top.f) : Dep(n) = g
      BY <2>2, EdgeIs
    <2>4. depth[g] \in Nat /\ depth[g] + 1 \in 0 .. top.d
      <3>1. depth[g] # None /\ depth[g] < top.d
        BY <1>9, <2>3
      <3>2. depth[g] \in Nat
        BY <3>1, DepthType
      <3> QED BY <1>4, <3>1, <3>2
    <2>5. Walk(Edges, g, depth[g] + 1)
      BY <1>4, <2>2, <2>4, WalkShorter
    <2>6. depth[g] # None
      BY <2>4 DEF None
    <2> QED BY <2>5, <2>6 DEF DepthSound, Measured
  <1>11. ASSUME NEW f \in Found, depth'[f] # None PROVE Measured(f)'
    <2>1. CASE f = top.f
      <3>1. ASSUME NEW n \in Refs(f) PROVE depth'[Dep(n)] # None /\ depth'[Dep(n)] < depth'[f]
        BY <1>7, <1>8, <1>9, <2>1
      <3> QED BY <1>1, <1>4, <1>7, <1>10, <2>1, <3>1 DEF Measured
    <2>2. CASE f # top.f
      <3>1. depth'[f] = depth[f] /\ Measured(f)
        BY <1>7, <1>11, <2>2 DEF DepthSound
      <3>2. ASSUME NEW n \in Refs(f) PROVE depth'[Dep(n)] # None /\ depth'[Dep(n)] < depth'[f]
        <4>1. Dep(n) \in Found
          BY DepIs
        <4> QED BY <1>8, <3>1, <4>1 DEF Measured
      <3> QED BY <1>1, <3>1, <3>2 DEF Measured
    <2> QED BY <2>1, <2>2
  <1>12. DepthSound'
    BY <1>11 DEF DepthSound
  <1>13. ASSUME NEW i \in 1 .. Len(stack') PROVE FrameSound(stack[i])'
    <2>1. /\ i \in 1 .. Len(stack) /\ i # Len(stack)
          /\ stack'[i] = stack[i] /\ stack[i].f \in Found
      <3>1. stack'[i] = stack[i] /\ i \in 1 .. Len(stack) - 1
        BY <1>5
      <3>2. i \in 1 .. Len(stack) /\ i # Len(stack)
        BY <1>2, <3>1
      <3> QED BY <1>5, <3>1, <3>2
    <2>2. FrameSound(stack[i]) /\ stack[i].f # top.f
      BY <1>2, <2>1 DEF StackSound
    <2>3. depth'[stack[i].f] = None
      BY <1>7, <2>1, <2>2 DEF FrameSound
    <2>4. ASSUME NEW n \in Refs(stack[i].f) \ stack[i].left
          PROVE  depth'[Dep(n)] # None /\ depth'[Dep(n)] < stack[i].d
      <3>1. Dep(n) \in Found
        BY <2>1, DepIs
      <3>2. depth[Dep(n)] # None /\ depth[Dep(n)] < stack[i].d
        BY <2>2 DEF FrameSound
      <3> QED BY <1>8, <3>1, <3>2
    <2> QED BY <1>1, <2>1, <2>2, <2>3, <2>4 DEF FrameSound
  <1>14. StackSound'
    <2>1. ASSUME NEW i \in 1 .. Len(stack'), NEW j \in 1 .. Len(stack'), stack'[i].f = stack'[j].f
          PROVE  i = j
      <3>1. /\ i \in 1 .. Len(stack) /\ stack'[i] = stack[i]
            /\ j \in 1 .. Len(stack) /\ stack'[j] = stack[j]
        BY <1>2, <1>5
      <3> QED BY <2>1, <3>1 DEF StackSound
    <2>2. ASSUME NEW i \in 1 .. Len(stack') - 1
          PROVE  <<stack'[i].f, stack'[i + 1].f>> \in Edges'
      <3>1. /\ i \in 1 .. Len(stack) - 1
            /\ stack'[i] = stack[i] /\ stack'[i + 1] = stack[i + 1]
        BY <1>2, <1>5
      <3> QED BY <1>1, <3>1 DEF StackSound
    <2> QED BY <1>13, <2>1, <2>2 DEF StackSound
  <1>15. \A f \in Found : depth[f] # None => depth'[f] # None
    BY <1>8
  <1> QED BY <1>5, <1>7, <1>12, <1>14, <1>15

\* A reference back into the calls under way closes a cycle.
LEMMA CycleMet ==
  ASSUME Shape, StackSound, WellBound, stack # <<>>,
         NEW n \in stack[Len(stack)].left, Dep(n) \in Visiting
  PROVE  \E f \in Found : Walk(Edges, f, N)
  <1>1. stack \in Seq(Frames) /\ Len(stack) \in Nat \ {0} /\ Len(stack) \in 1 .. Len(stack)
    BY DEF Shape
  <1>2. \A i \in 1 .. Len(stack) : stack[i] \in Frames /\ stack[i].f \in Found
    BY Calls
  <1>3. PICK b \in 1 .. Len(stack) : stack[b].f = Dep(n)
    BY <1>1 DEF Visiting
  <1>4. n \in Refs(stack[Len(stack)].f)
    BY <1>1 DEF StackSound, FrameSound
  <1>5. <<stack[Len(stack)].f, stack[b].f>> \in Edges
    BY <1>1, <1>2, <1>3, <1>4, DepIs
  <1> DEFINE S == {stack[i].f : i \in b .. Len(stack)}
  <1>6. S \in SUBSET Found /\ stack[b].f \in S
    BY <1>1, <1>2
  <1>7. ASSUME NEW f \in S PROVE \E g \in S : <<f, g>> \in Edges
    <2>1. PICK i \in b .. Len(stack) : f = stack[i].f
      OBVIOUS
    <2>2. CASE i = Len(stack)
      BY <1>5, <1>6, <2>1, <2>2
    <2>3. CASE i # Len(stack)
      <3>1. i \in 1 .. Len(stack) - 1 /\ i + 1 \in b .. Len(stack)
        BY <1>1, <2>3
      <3>2. <<stack[i].f, stack[i + 1].f>> \in Edges
        BY <3>1 DEF StackSound
      <3> QED BY <2>1, <3>1, <3>2
    <2> QED BY <2>2, <2>3
  <1>8. Walk(Edges, stack[b].f, N)
    <2> HIDE DEF S
    <2> QED BY <1>6, <1>7, WalksGoOn, ChainsAssumption
  <1> QED BY <1>2, <1>8
-----------------------------------------------------------------------------
(* Fetching.                                                               *)

\* Once ordered, every resolvent has a level and no level is above the last.
LEMMA LevelsAre ==
  ASSUME Shape, \A f \in Found : depth[f] # None
  PROVE  Levels \in 0 .. MaxChainDepth - 1 /\ \A f \in Found : depth[f] <= Levels
  <1> DEFINE S == {depth[f] : f \in Found}
  <1>1. MaxChainDepth - 1 \in Nat /\ 1 \in Found
    BY ChainsAssumption DEF Found
  <1>2. \A f \in Found : depth[f] \in 0 .. MaxChainDepth - 1
    BY DepthType, ChainsAssumption
  <1>3. S \subseteq 0 .. MaxChainDepth - 1 /\ S # {}
    BY <1>1, <1>2
  <1>4. Max(S) \in S /\ \A y \in S : y <= Max(S)
    <2> HIDE DEF S
    <2> QED BY <1>1, <1>3, LargestMember
  <1>5. Levels = Max(S)
    BY DEF Levels
  <1> QED BY <1>3, <1>4, <1>5

LEMMA MergeIs ==
  ASSUME NEW s, NEW t, IsSeries(s), IsSeries(t)
  PROVE  /\ IsSeries(Merge(s, t)) /\ DOMAIN Merge(s, t) = DOMAIN s \cup DOMAIN t
         /\ \A h \in DOMAIN t : Merge(s, t)[h] = t[h]
         /\ \A h \in DOMAIN s \ DOMAIN t : Merge(s, t)[h] = s[h]
  <1>1. DOMAIN Merge(s, t) = DOMAIN s \cup DOMAIN t
    BY DEF Merge
  <1>2. \A h \in DOMAIN s \cup DOMAIN t : Merge(s, t)[h] = IF h \in DOMAIN t THEN t[h] ELSE s[h]
    BY DEF Merge
  <1>3. \A h \in DOMAIN s \cup DOMAIN t : Merge(s, t)[h] \in Values
    BY <1>2 DEF IsSeries
  <1>4. Merge(s, t) \in [DOMAIN s \cup DOMAIN t -> Values]
    BY <1>3 DEF Merge
  <1>5. DOMAIN s \cup DOMAIN t \subseteq Inputs
    BY DEF IsSeries
  <1>6. IsSeries(Merge(s, t))
    BY <1>1, <1>4, <1>5 DEF IsSeries
  <1> QED BY <1>1, <1>2, <1>6

LEMMA ObjectsAreInputs == Objects \subseteq Inputs
  <1>1. Literals \cup {Absent, Ref} \subseteq Values \cup {Absent, Ref}
    BY ChainsAssumption
  <1> QED BY <1>1 DEF Objects, Inputs

\* What is sent for a resolvent whose references are all there.
LEMMA FilledIs ==
  ASSUME Shape, NEW f \in Found, \A n \in Refs(f) : hashed[Dep(n)] \in DOMAIN all
  PROVE  /\ Filled(f) \in Inputs /\ Rehash(f) \in Inputs
         /\ \A n \in Refs(f) : Filled(f)[n] = all[hashed[Dep(n)]]
  <1>1. object[f] \in Inputs /\ hashed[f] \in Inputs
    BY ObjectsAreInputs DEF Shape
  <1>2. \A n \in Refs(f) : all[hashed[Dep(n)]] \in Values
    BY DEF Shape, IsSeries
  <1>3. ASSUME NEW n \in Names
        PROVE  (IF n \in Refs(f) THEN all[hashed[Dep(n)]] ELSE object[f][n]) \in Values \cup {Absent, Ref}
    BY <1>1, <1>2 DEF Inputs
  <1>4. Filled(f) \in Inputs
    BY <1>3 DEF Filled, Inputs
  <1>5. \A n \in Refs(f) : Filled(f)[n] = all[hashed[Dep(n)]]
    BY RefsAreNames DEF Filled
  <1> QED BY <1>1, <1>4, <1>5 DEF Rehash

\* A level waits only for levels passed.
LEMMA LevelReady ==
  ASSUME Shape, WellBound, DepthSound, Fetched, pc = "fill",
         NEW f \in Level, depth[f] # None, NEW n \in Refs(f)
  PROVE  hashed[Dep(n)] \in DOMAIN all
  <1>1. f \in Found /\ depth[f] = level
    BY DEF Level
  <1>2. Dep(n) \in Found
    BY <1>1, DepIs
  <1>3. depth[Dep(n)] < level
    BY <1>1 DEF DepthSound, Measured
  <1> QED BY <1>2, <1>3 DEF Fetched, Passed
-----------------------------------------------------------------------------
(* The invariant holds at the start and every step keeps it.               *)

LEMMA EmptySeries == IsSeries(<<>>)
  <1>1. DOMAIN <<>> = {}
    OBVIOUS
  <1>2. <<>> \in [{} -> Values]
    OBVIOUS
  <1> QED BY <1>1, <1>2 DEF IsSeries

LEMMA InvInit ==
  ASSUME Init
  PROVE  ChainsInv
  <1> USE DEF Init
  <1>1. Shape
    <2>1. object \in [Found -> Inputs]
      BY ObjectsAreInputs
    <2>2. depth \in [Found -> None .. MaxChainDepth - 1]
      BY ChainsAssumption DEF None
    <2>3. next \in 1 .. N + 1 /\ level \in 0 .. MaxChainDepth - 1 /\ stack \in Seq(Frames)
      BY ChainsAssumption
    <2> QED BY <2>1, <2>2, <2>3, EmptySeries DEF Shape
  <1>2. Bound
    BY DEF Bound
  <1>3. DepthSound
    BY DEF DepthSound
  <1>4. StackSound
    <2>1. Len(stack) = 0
      OBVIOUS
    <2> QED BY <2>1 DEF StackSound
  <1>5. Progress
    BY DEF Progress, After
  <1>6. Refused
    BY DEF Refused
  <1>7. Fetched
    BY DEF Fetched, Passed, After
  <1> QED BY <1>1, <1>2, <1>3, <1>4, <1>5, <1>6, <1>7 DEF ChainsInv

\* The job ends where it is, refused or failed.
LEMMA FailureKeeps ==
  ASSUME ChainsInv, NEW why \in {"cycle", "deep", "invalid_payload", "resource_error"},
         Fails(why), pc \notin {"bind", "unbound"},
         why = "cycle" => \E f \in Found : Walk(Edges, f, N),
         why = "deep" => \E f \in Found : Walk(Edges, f, MaxChainDepth)
  PROVE  ChainsInv'
  <1>1. /\ pc' = why /\ doc' = doc /\ input' = input /\ hashed' = hashed /\ depth' = depth
        /\ stack' = stack /\ next' = next /\ level' = level /\ all' = all
    BY DEF Fails
  <1>2. Edges' = Edges /\ WellBound' = WellBound /\ name' = name /\ object' = object
    BY <1>1, DocStays DEF doc
  <1>3. Shape'
    BY <1>1, <1>2 DEF ChainsInv, Shape, IsSeries
  <1>4. Bound'
    BY <1>1, <1>2 DEF ChainsInv, Bound
  <1>5. DepthSound' /\ StackSound'
    BY <1>1, OrderStays DEF ChainsInv
  <1>6. Progress'
    BY <1>1 DEF ChainsInv, Progress, After
  <1>7. Refused'
    BY <1>1, <1>2 DEF Refused
  <1>8. Fetched'
    BY <1>1 DEF Fetched, Passed, After
  <1> QED BY <1>3, <1>4, <1>5, <1>6, <1>7, <1>8 DEF ChainsInv

LEMMA BindKeeps ==
  ASSUME ChainsInv, Bind
  PROVE  ChainsInv'
  <1>1. /\ pc = "bind" /\ pc' \in {"order", "unbound"}
        /\ pc' = "order" <=> \A f \in Found : \A n \in Refs(f) : Binds(f, n)
        /\ doc' = doc /\ input' = input /\ hashed' = hashed /\ depth' = depth
        /\ stack' = stack /\ next' = next /\ level' = level /\ all' = all
    BY DEF Bind, Fails
  <1>2. WellBound' = WellBound /\ name' = name /\ object' = object
    BY <1>1, DocStays DEF doc
  <1>3. ASSUME NEW f \in Found, NEW n \in Refs(f)
        PROVE  Binds(f, n) <=> \E g \in Found \ {f} : Named(n) = {g}
    <2>1. IsFiniteSet(Named(n)) /\ Named(n) \subseteq Found
      BY FoundFinite, FS_Subset DEF Named
    <2>2. Cardinality(Named(n)) = 1 <=> \E g : Named(n) = {g}
      BY <2>1, FS_Singleton
    <2> QED BY <2>1, <2>2 DEF Binds
  <1>4. pc' = "order" <=> WellBound
    BY <1>1, <1>3 DEF WellBound
  <1>5. Shape'
    BY <1>1, <1>2 DEF ChainsInv, Shape, IsSeries
  <1>6. Bound'
    BY <1>1, <1>2, <1>4 DEF Bound
  <1>7. DepthSound' /\ StackSound'
    BY <1>1, OrderStays DEF ChainsInv
  <1>8. Progress'
    BY <1>1 DEF ChainsInv, Progress, After
  <1>9. Refused'
    BY <1>1 DEF Refused
  <1>10. Fetched'
    BY <1>1 DEF Fetched, Passed, After
  <1> QED BY <1>5, <1>6, <1>7, <1>8, <1>9, <1>10 DEF ChainsInv

\* What a step of the ordering phase leaves to prove.
LEMMA OrderingKeeps ==
  ASSUME ChainsInv, pc = "order", pc' = "order", doc' = doc, input' = input, hashed' = hashed,
         level' = level, all' = all,
         stack' \in Seq(Frames), depth' \in [Found -> None .. MaxChainDepth - 1],
         DepthSound', StackSound', next' \in 1 .. N + 1,
         \A f \in 1 .. next' - 1 : depth'[f] # None
  PROVE  ChainsInv'
  <1>1. WellBound' = WellBound /\ name' = name /\ object' = object
    BY DocStays DEF doc
  <1>2. Shape'
    BY <1>1 DEF ChainsInv, Shape, IsSeries
  <1>3. Bound'
    BY <1>1 DEF ChainsInv, Bound
  <1>4. Progress'
    BY DEF ChainsInv, Progress, After
  <1>5. Refused'
    BY DEF Refused
  <1>6. Fetched'
    BY DEF Fetched, Passed, After
  <1> QED BY <1>2, <1>3, <1>4, <1>5, <1>6 DEF ChainsInv

LEMMA EnterKeeps ==
  ASSUME ChainsInv, Enter
  PROVE  ChainsInv'
  <1>1. /\ pc = "order" /\ pc' = "order" /\ stack = <<>> /\ next <= N
        /\ doc' = doc /\ input' = input /\ hashed' = hashed /\ depth' = depth
        /\ level' = level /\ all' = all
    BY DEF Enter
  <1>2. next \in 1 .. N + 1 /\ next \in Found /\ depth \in [Found -> None .. MaxChainDepth - 1]
    BY <1>1, ChainsAssumption DEF ChainsInv, Shape, Found
  <1>3. Shape /\ DepthSound /\ StackSound /\ Progress
    BY DEF ChainsInv
  <1>4. CASE depth[next] # None
    <2>1. next' = next + 1 /\ stack' = stack
      BY <1>4 DEF Enter
    <2>2. next' \in 1 .. N + 1 /\ stack' \in Seq(Frames)
      BY <1>1, <1>2, <1>3, <2>1, ChainsAssumption DEF Shape
    <2>3. DepthSound' /\ StackSound'
      BY <1>1, <1>3, <2>1, OrderStays
    <2>4. \A f \in 1 .. next' - 1 : depth'[f] # None
      BY <1>1, <1>2, <1>3, <1>4, <2>1, ChainsAssumption DEF Progress
    <2> QED BY <1>1, <1>2, <2>2, <2>3, <2>4, OrderingKeeps
  <1>5. CASE depth[next] = None
    <2>1. next' = next /\ stack' = <<Frame(next)>>
      BY <1>5 DEF Enter
    <2>2. stack' = Append(stack, Frame(next)) /\ Visiting = {}
      BY <1>1, <2>1 DEF Visiting
    <2>3. stack' \in Seq(Frames) /\ DepthSound' /\ StackSound'
      BY <1>1, <1>2, <1>3, <1>5, <2>2, CallPushed
    <2>4. \A f \in 1 .. next' - 1 : depth'[f] # None
      BY <1>1, <1>3, <2>1 DEF Progress
    <2>5. next' \in 1 .. N + 1 /\ depth' \in [Found -> None .. MaxChainDepth - 1]
      BY <1>1, <1>2, <2>1
    <2> QED BY <1>1, <2>3, <2>4, <2>5, OrderingKeeps
  <1> QED BY <1>4, <1>5

LEMMA FollowKeeps ==
  ASSUME ChainsInv, Follow
  PROVE  ChainsInv'
  <1> DEFINE top == stack[Len(stack)]
             n == Min(top.left)
             g == Dep(n)
  <1>1. Last(stack) = top
    BY DEF Last
  <1>2. pc = "order" /\ stack # <<>> /\ top.left # {}
    BY <1>1 DEF Follow
  <1>3. \/ /\ depth[g] # None
           /\ stack' = [stack EXCEPT ![Len(stack)] =
                [top EXCEPT !.left = @ \ {n}, !.d = Deeper(@, depth[g])]]
           /\ UNCHANGED <<doc, input, hashed, depth, next, level, all, pc>>
        \/ depth[g] = None /\ g \in Visiting /\ Fails("cycle")
        \/ /\ depth[g] = None /\ g \notin Visiting
           /\ stack' = Append(stack, Frame(g))
           /\ UNCHANGED <<doc, input, hashed, depth, next, level, all, pc>>
    BY <1>1 DEF Follow
  <1>4. Shape /\ DepthSound /\ StackSound /\ Progress /\ WellBound
    BY <1>2 DEF ChainsInv, Bound
  <1>5. Len(stack) \in 1 .. Len(stack) /\ top \in Frames /\ FrameSound(top)
    <2>1. Len(stack) \in 1 .. Len(stack)
      BY <1>2, <1>4 DEF Shape
    <2> QED BY <1>4, <2>1, Calls DEF StackSound
  <1>6. top.left \in SUBSET Names /\ top.f \in Found /\ top.left \subseteq Refs(top.f)
    BY <1>5 DEF Frames, FrameSound
  <1>7. n \in top.left
    <2> HIDE DEF top
    <2> QED BY <1>2, <1>6, SmallestOf
  <1>8. g \in Found /\ <<top.f, g>> \in Edges
    <2> HIDE DEF top, n
    <2> QED BY <1>4, <1>6, <1>7, DepIs
  <1>9. /\ next \in 1 .. N + 1 /\ depth \in [Found -> None .. MaxChainDepth - 1]
        /\ \A f \in 1 .. next - 1 : depth[f] # None
    BY <1>4 DEF Shape, Progress
  <1> HIDE DEF n, g
  <1>10. CASE /\ depth[g] # None
              /\ stack' = [stack EXCEPT ![Len(stack)] =
                   [top EXCEPT !.left = @ \ {n}, !.d = Deeper(@, depth[g])]]
              /\ UNCHANGED <<doc, input, hashed, depth, next, level, all, pc>>
    <2>1. depth[Dep(n)] # None /\ doc' = doc /\ depth' = depth
      BY <1>10 DEF g
    <2>2. stack' = [stack EXCEPT ![Len(stack)] =
            [stack[Len(stack)] EXCEPT !.left = @ \ {n}, !.d = Deeper(@, depth[Dep(n)])]]
      BY <1>10 DEF g
    <2>3. stack' \in Seq(Frames) /\ DepthSound' /\ StackSound'
      BY <1>2, <1>4, <1>7, <2>1, <2>2, ReferenceMet
    <2> HIDE DEF top
    <2> QED BY <1>2, <1>9, <1>10, <2>3, OrderingKeeps
  <1>11. CASE depth[g] = None /\ g \in Visiting /\ Fails("cycle")
    <2>1. \E f \in Found : Walk(Edges, f, N)
      BY <1>2, <1>4, <1>7, <1>11, CycleMet DEF g
    <2> QED BY <1>2, <1>11, <2>1, FailureKeeps
  <1>12. CASE /\ depth[g] = None /\ g \notin Visiting
              /\ stack' = Append(stack, Frame(g))
              /\ UNCHANGED <<doc, input, hashed, depth, next, level, all, pc>>
    <2>1. stack' \in Seq(Frames) /\ DepthSound' /\ StackSound'
      BY <1>4, <1>8, <1>12, CallPushed
    <2> HIDE DEF top
    <2> QED BY <1>2, <1>9, <1>12, <2>1, OrderingKeeps
  <1> QED BY <1>3, <1>10, <1>11, <1>12

LEMMA FinishKeeps ==
  ASSUME ChainsInv, Finish
  PROVE  ChainsInv'
  <1> DEFINE top == stack[Len(stack)]
  <1>1. Last(stack) = top
    BY DEF Last
  <1>2. pc = "order" /\ stack # <<>> /\ top.left = {}
    BY <1>1 DEF Finish
  <1>3. IF TooDeep(top.d) THEN Fails("deep")
        ELSE /\ depth' = [depth EXCEPT ![top.f] = top.d]
             /\ stack' = Front(stack)
             /\ UNCHANGED <<doc, input, hashed, next, level, all, pc>>
    BY <1>1 DEF Finish
  <1>4. Shape /\ DepthSound /\ StackSound /\ Progress /\ WellBound
    BY <1>2 DEF ChainsInv, Bound
  <1>5. Len(stack) \in 1 .. Len(stack) /\ top \in Frames /\ FrameSound(top)
    <2>1. Len(stack) \in 1 .. Len(stack)
      BY <1>2, <1>4 DEF Shape
    <2> QED BY <1>4, <2>1, Calls DEF StackSound
  <1>6. top.d \in Nat /\ top.f \in Found /\ Walk(Edges, top.f, top.d)
    BY <1>5 DEF Frames, FrameSound
  <1>7. CASE TooDeep(top.d)
    <2>1. MaxChainDepth \in 0 .. top.d
      BY <1>6, <1>7, ChainsAssumption DEF TooDeep
    <2>2. Walk(Edges, top.f, MaxChainDepth)
      <3> HIDE DEF top
      <3> QED BY <1>6, <2>1, WalkShorter
    <2>3. \E f \in Found : Walk(Edges, f, MaxChainDepth)
      BY <1>6, <2>2
    <2>4. Fails("deep")
      BY <1>3, <1>7
    <2> QED BY <1>2, <2>3, <2>4, FailureKeeps
  <1>8. CASE ~TooDeep(top.d)
    <2>1. top.d < MaxChainDepth
      BY <1>6, <1>8, ChainsAssumption DEF TooDeep
    <2>2. /\ depth' = [depth EXCEPT ![top.f] = top.d]
          /\ stack' = Front(stack)
          /\ UNCHANGED <<doc, input, hashed, next, level, all, pc>>
      BY <1>3, <1>8
    <2>3. doc' = doc
      BY <2>2
    <2>4. /\ stack' \in Seq(Frames) /\ depth' \in [Found -> None .. MaxChainDepth - 1]
          /\ DepthSound' /\ StackSound'
          /\ \A f \in Found : depth[f] # None => depth'[f] # None
      BY <1>2, <1>4, <2>1, <2>2, <2>3, CallFinished
    <2>5. next \in 1 .. N + 1
      BY <1>4 DEF Shape
    <2>6. \A f \in 1 .. next' - 1 : depth'[f] # None
      <3>1. ASSUME NEW f \in 1 .. next - 1 PROVE depth[f] # None /\ f \in Found
        BY <1>4, <2>5, ChainsAssumption DEF Progress, Found
      <3> QED BY <2>2, <2>4, <3>1
    <2> HIDE DEF top
    <2> QED BY <1>2, <2>2, <2>4, <2>5, <2>6, OrderingKeeps
  <1> QED BY <1>7, <1>8

\* At the end of the loop every resolvent has a depth.
LEMMA Placed ==
  ASSUME ChainsInv, next > N
  PROVE  \A f \in Found : depth[f] # None
  <1>1. next = N + 1
    BY ChainsAssumption DEF ChainsInv, Shape
  <1>2. Found = 1 .. next - 1
    BY <1>1, ChainsAssumption DEF Found
  <1> QED BY <1>2 DEF ChainsInv, Progress

LEMMA OrderedKeeps ==
  ASSUME ChainsInv, Ordered
  PROVE  ChainsInv'
  <1>1. /\ pc = "order" /\ pc' = "fill" /\ next > N
        /\ doc' = doc /\ input' = input /\ hashed' = hashed /\ depth' = depth
        /\ stack' = stack /\ next' = next /\ level' = level /\ all' = all
    BY DEF Ordered
  <1>2. WellBound' = WellBound /\ name' = name /\ object' = object
    BY <1>1, DocStays DEF doc
  <1>3. Shape'
    BY <1>1, <1>2 DEF ChainsInv, Shape, IsSeries
  <1>4. Bound'
    BY <1>1, <1>2 DEF ChainsInv, Bound
  <1>5. DepthSound' /\ StackSound'
    BY <1>1, OrderStays DEF ChainsInv
  <1>6. Progress'
    <2>1. next = N + 1
      BY <1>1, ChainsAssumption DEF ChainsInv, Shape
    <2> QED BY <1>1, <2>1 DEF ChainsInv, Progress
  <1>7. Refused'
    BY <1>1 DEF Refused
  <1>8. Fetched'
    <2>1. level = 0 /\ Shape /\ \A f \in Found : depth[f] # None
      BY <1>1, Placed DEF ChainsInv, Progress
    <2>2. \A f \in Found : ~(depth[f] < level)
      BY <2>1, DepthType
    <2> QED BY <1>1, <2>2 DEF Fetched, Passed, After
  <1> QED BY <1>3, <1>4, <1>5, <1>6, <1>7, <1>8 DEF ChainsInv

\* In the phases of fetching every resolvent has a level.
LEMMA AfterOrdering ==
  ASSUME ChainsInv, pc \in After
  PROVE  /\ Shape /\ WellBound /\ DepthSound /\ StackSound /\ Fetched
         /\ \A f \in Found : depth[f] # None
  <1>1. next > N
    BY ChainsAssumption DEF ChainsInv, Progress
  <1> QED BY <1>1, Placed DEF ChainsInv, Bound, After

\* What a step of the fetching phases leaves to prove.
LEMMA FetchingKeeps ==
  ASSUME ChainsInv, pc \in After, pc' \in After, doc' = doc, depth' = depth, stack' = stack,
         next' = next, input' \in [Found -> Inputs], hashed' \in [Found -> Inputs],
         level' \in 0 .. MaxChainDepth - 1, IsSeries(all)',
         \A f \in Found : Passed(f)' => hashed'[f] \in DOMAIN all'
  PROVE  ChainsInv'
  <1>1. WellBound' = WellBound /\ name' = name /\ object' = object
    BY DocStays DEF doc
  <1>2. Shape'
    BY <1>1 DEF ChainsInv, Shape, After
  <1>3. Bound'
    BY <1>1 DEF ChainsInv, Bound, After
  <1>4. DepthSound' /\ StackSound'
    BY OrderStays DEF ChainsInv
  <1>5. Progress'
    BY DEF ChainsInv, Progress, After
  <1>6. Refused'
    BY DEF Refused, After
  <1>7. Fetched'
    BY DEF Fetched, After
  <1> QED BY <1>2, <1>3, <1>4, <1>5, <1>6, <1>7 DEF ChainsInv

\* Fill writes to the level it is at, and leaves those passed alone.
LEMMA FillIs ==
  ASSUME ChainsInv, Fill
  PROVE  \/ Fails("invalid_payload")
         \/ /\ pc = "fill" /\ pc' = "fetch" /\ doc' = doc /\ depth' = depth /\ stack' = stack
            /\ next' = next /\ level' = level /\ all' = all
            /\ input' \in [Found -> Inputs] /\ hashed' \in [Found -> Inputs]
            /\ \A f \in Found : depth[f] # level => input'[f] = input[f] /\ hashed'[f] = hashed[f]
            /\ \A f \in Found : depth[f] = level =>
                 \A n \in Refs(f) : input'[f][n] = all[hashed[Dep(n)]]
  <1>1. pc = "fill" /\ pc \in After
    BY DEF Fill, After
  <1>2. Shape /\ WellBound /\ DepthSound /\ Fetched /\ \A f \in Found : depth[f] # None
    BY <1>1, AfterOrdering
  <1>3. \A f \in Level : f \in Found /\ depth[f] = level
    BY DEF Level
  <1>4. ASSUME NEW f \in Level, NEW n \in Refs(f) PROVE hashed[Dep(n)] \in DOMAIN all
    BY <1>1, <1>2, <1>3, LevelReady
  <1>5. SUFFICES ASSUME ~Fails("invalid_payload")
        PROVE  /\ pc = "fill" /\ pc' = "fetch" /\ doc' = doc /\ depth' = depth /\ stack' = stack
               /\ next' = next /\ level' = level /\ all' = all
               /\ input' \in [Found -> Inputs] /\ hashed' \in [Found -> Inputs]
               /\ \A f \in Found : depth[f] # level => input'[f] = input[f] /\ hashed'[f] = hashed[f]
               /\ \A f \in Found : depth[f] = level =>
                    \A n \in Refs(f) : input'[f][n] = all[hashed[Dep(n)]]
    OBVIOUS
  <1>6. /\ input' = [f \in Found |-> IF f \in Level THEN Filled(f) ELSE input[f]]
        /\ hashed' = [f \in Found |-> IF f \in Level THEN Rehash(f) ELSE hashed[f]]
        /\ pc' = "fetch"
        /\ doc' = doc /\ depth' = depth /\ stack' = stack
        /\ next' = next /\ level' = level /\ all' = all
    BY <1>4, <1>5 DEF Fill
  <1>7. ASSUME NEW f \in Level
        PROVE  /\ Filled(f) \in Inputs /\ Rehash(f) \in Inputs
               /\ \A n \in Refs(f) : Filled(f)[n] = all[hashed[Dep(n)]]
    BY <1>2, <1>3, <1>4, FilledIs
  <1>8. input \in [Found -> Inputs] /\ hashed \in [Found -> Inputs]
    BY <1>2 DEF Shape
  <1>9. input' \in [Found -> Inputs] /\ hashed' \in [Found -> Inputs]
    BY <1>6, <1>7, <1>8
  <1>10. \A f \in Found : depth[f] # level => input'[f] = input[f] /\ hashed'[f] = hashed[f]
    BY <1>3, <1>6
  <1>11. ASSUME NEW f \in Found, depth[f] = level, NEW n \in Refs(f)
         PROVE  input'[f][n] = all[hashed[Dep(n)]]
    <2>1. f \in Level
      BY <1>11 DEF Level
    <2> QED BY <1>6, <1>7, <2>1
  <1> QED BY <1>1, <1>6, <1>9, <1>10, <1>11

LEMMA FillKeeps ==
  ASSUME ChainsInv, Fill
  PROVE  ChainsInv'
  <1>1. pc = "fill" /\ pc \in After
    BY DEF Fill, After
  <1>2. Shape /\ Fetched
    BY DEF ChainsInv
  <1>3. CASE Fails("invalid_payload")
    BY <1>1, <1>3, FailureKeeps
  <1>4. CASE ~Fails("invalid_payload")
    <2>1. /\ pc' = "fetch" /\ doc' = doc /\ depth' = depth /\ stack' = stack
          /\ next' = next /\ level' = level /\ all' = all
          /\ input' \in [Found -> Inputs] /\ hashed' \in [Found -> Inputs]
          /\ \A f \in Found : depth[f] # level => hashed'[f] = hashed[f]
      BY <1>4, FillIs
    <2>2. ASSUME NEW f \in Found, Passed(f)' PROVE hashed'[f] \in DOMAIN all'
      <3>1. depth[f] < level
        BY <2>1, <2>2 DEF Passed
      <3>2. depth[f] # level
        BY <1>2, <3>1 DEF Shape
      <3> QED BY <1>1, <1>2, <2>1, <3>1, <3>2 DEF Fetched, Passed
    <2>3. pc' \in After /\ level' \in 0 .. MaxChainDepth - 1 /\ IsSeries(all)'
      BY <1>2, <2>1 DEF After, Shape, IsSeries
    <2> QED BY <1>1, <2>1, <2>2, <2>3, FetchingKeeps
  <1> QED BY <1>3, <1>4

\* A level fetched: its keys join the series, and the loop goes to the next
\* level or, behind the last, to the substitution.
LEMMA FetchIs ==
  ASSUME ChainsInv, FetchLevel
  PROVE  \/ Fails("resource_error")
         \/ \E answers :
              /\ IsSeries(answers) /\ DOMAIN answers = {hashed[f] : f \in Level}
              /\ all' = Merge(all, answers)
              /\ pc = "fetch" /\ doc' = doc /\ depth' = depth /\ stack' = stack
              /\ next' = next /\ input' = input /\ hashed' = hashed
              /\ \/ level < Levels /\ level' = level + 1 /\ pc' = "fill"
                 \/ ~(level < Levels) /\ level' = level /\ pc' = "substitute"
  <1>1. SUFFICES ASSUME ~Fails("resource_error")
        PROVE  \E answers :
              /\ IsSeries(answers) /\ DOMAIN answers = {hashed[f] : f \in Level}
              /\ all' = Merge(all, answers)
              /\ pc = "fetch" /\ doc' = doc /\ depth' = depth /\ stack' = stack
              /\ next' = next /\ input' = input /\ hashed' = hashed
              /\ \/ level < Levels /\ level' = level + 1 /\ pc' = "fill"
                 \/ ~(level < Levels) /\ level' = level /\ pc' = "substitute"
    OBVIOUS
  <1>2. PICK answers \in [Batch -> Values] :
          /\ all' = Merge(all, answers)
          /\ IF level < Levels THEN level' = level + 1 /\ pc' = "fill"
             ELSE UNCHANGED level /\ pc' = "substitute"
          /\ UNCHANGED <<doc, input, hashed, depth, stack, next>>
    BY <1>1 DEF FetchLevel
  <1>3. DOMAIN answers = {hashed[f] : f \in Level} /\ {hashed[f] : f \in Level} \subseteq Inputs
    BY DEF ChainsInv, Shape, Level, Batch
  <1>4. IsSeries(answers)
    BY <1>3 DEF IsSeries
  <1>5. pc = "fetch" /\ doc' = doc /\ depth' = depth /\ stack' = stack
        /\ next' = next /\ input' = input /\ hashed' = hashed
    BY <1>2 DEF FetchLevel
  <1>6. \/ level < Levels /\ level' = level + 1 /\ pc' = "fill"
        \/ ~(level < Levels) /\ level' = level /\ pc' = "substitute"
    BY <1>2
  <1> QED BY <1>2, <1>3, <1>4, <1>5, <1>6

\* What has been passed after a level is fetched was passed or in the level.
LEMMA PassedNext ==
  ASSUME ChainsInv, pc = "fetch", depth' = depth,
         \/ level < Levels /\ level' = level + 1 /\ pc' = "fill"
         \/ ~(level < Levels) /\ level' = level /\ pc' = "substitute",
         NEW f \in Found, Passed(f)'
  PROVE  depth[f] < level \/ depth[f] = level
  <1>1. Shape /\ \A g \in Found : depth[g] # None
    BY AfterOrdering DEF After
  <1>2. Levels \in Int /\ depth[f] <= Levels /\ depth[f] \in Int /\ level \in Int
    BY <1>1, LevelsAre, DepthType, ChainsAssumption DEF Shape
  <1>3. CASE level < Levels /\ level' = level + 1 /\ pc' = "fill"
    <2>1. depth[f] < level + 1
      BY <1>3 DEF Passed
    <2> QED BY <1>2, <2>1
  <1>4. CASE ~(level < Levels) /\ level' = level /\ pc' = "substitute"
    BY <1>2, <1>4
  <1> QED BY <1>3, <1>4

LEMMA FetchKeeps ==
  ASSUME ChainsInv, FetchLevel
  PROVE  ChainsInv'
  <1>1. pc = "fetch" /\ pc \in After
    BY DEF FetchLevel, After
  <1>2. Shape /\ Fetched /\ \A f \in Found : depth[f] # None
    BY <1>1, AfterOrdering
  <1>3. CASE Fails("resource_error")
    BY <1>1, <1>3, FailureKeeps
  <1>4. CASE ~Fails("resource_error")
    <2>1. PICK answers :
              /\ IsSeries(answers) /\ DOMAIN answers = {hashed[f] : f \in Level}
              /\ all' = Merge(all, answers)
              /\ doc' = doc /\ depth' = depth /\ stack' = stack
              /\ next' = next /\ input' = input /\ hashed' = hashed
              /\ \/ level < Levels /\ level' = level + 1 /\ pc' = "fill"
                 \/ ~(level < Levels) /\ level' = level /\ pc' = "substitute"
      BY <1>4, FetchIs
    <2>2. IsSeries(all) /\ level \in 0 .. MaxChainDepth - 1
          /\ input \in [Found -> Inputs] /\ hashed \in [Found -> Inputs]
      BY <1>2 DEF Shape
    <2>3. /\ IsSeries(Merge(all, answers))
          /\ DOMAIN Merge(all, answers) = DOMAIN all \cup DOMAIN answers
      BY <2>1, <2>2, MergeIs
    <2>4. IsSeries(all')
      BY <2>1, <2>2, <2>3
    <2>5. pc' \in After /\ level' \in 0 .. MaxChainDepth - 1
      <3>1. Levels \in 0 .. MaxChainDepth - 1
        BY <1>2, LevelsAre
      <3> QED BY <2>1, <2>2, <3>1, ChainsAssumption DEF After
    <2>6. ASSUME NEW f \in Found, Passed(f)' PROVE hashed'[f] \in DOMAIN all'
      <3>1. depth[f] < level \/ depth[f] = level
        BY <1>1, <2>1, <2>6, PassedNext
      <3>2. CASE depth[f] < level
        <4>1. hashed[f] \in DOMAIN all
          BY <1>1, <1>2, <3>2 DEF Fetched, Passed
        <4> QED BY <2>1, <2>3, <4>1
      <3>3. CASE depth[f] = level
        <4>1. hashed[f] \in DOMAIN answers
          BY <2>1, <3>3 DEF Level
        <4> QED BY <2>1, <2>3, <4>1
      <3> QED BY <3>1, <3>2, <3>3
    <2>7. IsSeries(all)'
      BY <2>4 DEF IsSeries
    <2>8. input' \in [Found -> Inputs] /\ hashed' \in [Found -> Inputs]
      BY <2>1, <2>2
    <2>9. doc' = doc /\ depth' = depth /\ stack' = stack /\ next' = next
      BY <2>1
    <2> QED BY <1>1, <2>5, <2>6, <2>7, <2>8, <2>9, FetchingKeeps
  <1> QED BY <1>3, <1>4

LEMMA SubstituteKeeps ==
  ASSUME ChainsInv, Substitute
  PROVE  ChainsInv'
  <1>1. pc = "substitute" /\ pc \in After
    BY DEF Substitute, After
  <1>2. Shape /\ \A f \in Found : hashed[f] \in DOMAIN all
    BY <1>1 DEF ChainsInv, Fetched, Passed, After
  <1>3. /\ pc' = "resolved" /\ doc' = doc /\ input' = input /\ hashed' = hashed
        /\ depth' = depth /\ stack' = stack /\ next' = next /\ level' = level
        /\ all' = all
    BY <1>2 DEF Substitute
  <1>4. \A f \in Found : Passed(f)' => hashed'[f] \in DOMAIN all'
    BY <1>2, <1>3
  <1>5. /\ pc' \in After /\ level' \in 0 .. MaxChainDepth - 1
        /\ IsSeries(all)'
        /\ input' \in [Found -> Inputs] /\ hashed' \in [Found -> Inputs]
    BY <1>2, <1>3 DEF After, Shape, IsSeries
  <1> QED BY <1>1, <1>3, <1>4, <1>5, FetchingKeeps

LEMMA StutterKeeps ==
  ASSUME ChainsInv, vars' = vars
  PROVE  ChainsInv'
  <1>1. /\ pc' = pc /\ doc' = doc /\ input' = input /\ hashed' = hashed
        /\ depth' = depth /\ stack' = stack /\ next' = next /\ level' = level
        /\ all' = all
    BY DEF vars, doc
  <1>2. Edges' = Edges /\ WellBound' = WellBound /\ name' = name /\ object' = object
    BY <1>1, DocStays DEF doc
  <1>3. Shape'
    BY <1>1, <1>2 DEF ChainsInv, Shape, IsSeries
  <1>4. Bound'
    BY <1>1, <1>2 DEF ChainsInv, Bound
  <1>5. DepthSound' /\ StackSound'
    BY <1>1, OrderStays DEF ChainsInv
  <1>6. Progress'
    BY <1>1 DEF ChainsInv, Progress, After
  <1>7. Refused'
    BY <1>1, <1>2 DEF ChainsInv, Refused
  <1>8. Fetched'
    BY <1>1 DEF ChainsInv, Fetched, Passed, After
  <1> QED BY <1>3, <1>4, <1>5, <1>6, <1>7, <1>8 DEF ChainsInv

\* The invariant of the whole job, from any payload.
THEOREM ChainsInvariant == Spec => []ChainsInv
  <1>1. Init => ChainsInv
    BY InvInit
  <1>2. ChainsInv /\ [Next]_vars => ChainsInv'
    <2>1. SUFFICES ASSUME ChainsInv, [Next]_vars PROVE ChainsInv'
      OBVIOUS
    <2>2. CASE Next
      BY <2>1, <2>2, BindKeeps, EnterKeeps, FollowKeeps, FinishKeeps, OrderedKeeps,
         FillKeeps, FetchKeeps, SubstituteKeeps DEF Next
    <2>3. CASE vars' = vars
      BY <2>1, <2>3, StutterKeeps
    <2> QED BY <2>1, <2>2, <2>3
  <1> QED BY <1>1, <1>2, PTL DEF Spec

\* No resolvent is twice among the calls of level.
LEMMA StackFits == ChainsInv => TypeOK /\ Len(stack) <= N
  <1> SUFFICES ASSUME ChainsInv PROVE TypeOK /\ Len(stack) <= N
    OBVIOUS
  <1>1. Shape /\ StackSound /\ Len(stack) \in Nat /\ DOMAIN stack = 1 .. Len(stack)
    BY DEF ChainsInv, Shape
  <1> DEFINE call == [i \in 1 .. Len(stack) |-> stack[i].f]
  <1>2. Visiting = {stack[i].f : i \in 1 .. Len(stack)} /\ Visiting \subseteq Found
    BY <1>1, Calls DEF Visiting
  <1>3. call \in Bijection(1 .. Len(stack), Visiting)
    <2>1. call \in [1 .. Len(stack) -> Visiting]
      BY <1>2
    <2>2. \A i, j \in 1 .. Len(stack) : call[i] = call[j] => i = j
      BY <1>1 DEF StackSound
    <2>3. \A g \in Visiting : \E i \in 1 .. Len(stack) : call[i] = g
      BY <1>2
    <2> HIDE DEF call
    <2> QED BY <2>1, <2>2, <2>3 DEF Bijection, Injection, Surjection, IsInjective
  <1>4. IsFiniteSet(1 .. Len(stack)) /\ Cardinality(1 .. Len(stack)) = Len(stack)
    <2>1. ASSUME NEW m \in Nat PROVE IsFiniteSet(1 .. m) /\ Cardinality(1 .. m) = m
      BY FS_Interval
    <2> QED BY <1>1, <2>1
  <1>5. Cardinality(Visiting) = Len(stack)
    BY <1>3, <1>4, FS_Bijection DEF ExistsBijection
  <1>6. IsFiniteSet(Found) /\ Cardinality(Found) = N
    BY FS_Interval, ChainsAssumption DEF Found
  <1>7. Cardinality(Visiting) <= N
    BY <1>2, <1>6, FS_Subset
  <1> QED BY <1>1, <1>5, <1>7 DEF Shape, TypeOK

\* The calls of level are at most as many as the resolvents (level's visiting
\* set).
THEOREM RecursionBounded == Spec => [](TypeOK /\ Len(stack) <= N)
  BY StackFits, ChainsInvariant, PTL

\* SeriesAlwaysThere for every payload: neither a reference nor a slot is
\* ever looked up under a key that was not fetched (fetchChain, substitute).
THEOREM NeverUnresolved == Spec => []SeriesAlwaysThere
  <1>1. ChainsInv => SeriesAlwaysThere
    BY DEF ChainsInv, Fetched, SeriesAlwaysThere
  <1> QED BY <1>1, ChainsInvariant, PTL

\* Depths fall along every reference, so nothing is cyclic.
LEMMA OrderedIsAcyclic ==
  ASSUME ChainsInv, pc \in After, NEW h \in Found
  PROVE  ~Walk(Edges, h, N)
  <1>1. Shape /\ DepthSound /\ \A f \in Found : depth[f] # None
    BY AfterOrdering
  <1>2. depth \in [Found -> Int]
    BY <1>1, ChainsAssumption DEF Shape, None
  <1>3. ASSUME NEW f \in Found, NEW g \in Found, <<f, g>> \in Edges PROVE depth[g] < depth[f]
    <2>1. PICK n \in Refs(f) : Dep(n) = g
      BY <1>3, EdgeIs
    <2> QED BY <1>1, <2>1 DEF DepthSound, Measured
  <1>4. SUFFICES ASSUME Walk(Edges, h, N) PROVE FALSE
    OBVIOUS
  <1> QED BY <1>2, <1>3, <1>4, WalksEnd

\* ChainVerdict for every payload: Chain refuses exactly what it must, and
\* the level it gives a resolvent is its longest trail (Chain, bind, level).
THEOREM VerdictIsRight == Spec => []ChainVerdict
  <1>1. ChainsInv => ChainVerdict
    <2>1. SUFFICES ASSUME ChainsInv PROVE ChainVerdict
      OBVIOUS
    <2>2. Shape /\ Bound /\ Refused
      BY <2>1 DEF ChainsInv
    <2>3. N \in Nat /\ MaxChainDepth \in Nat
      BY ChainsAssumption
    <2>4. pc = "unbound" => ~WellBound
      BY <2>2 DEF Bound
    <2>5. ASSUME pc = "cycle" PROVE Cyclic
      BY <2>2, <2>3, <2>5, TrailIsWalk DEF Refused, Cyclic
    <2>6. ASSUME pc = "deep" PROVE \E f \in Found : Trail(f, MaxChainDepth)
      BY <2>2, <2>3, <2>6, TrailIsWalk DEF Refused
    <2>7. ASSUME pc \in After
          PROVE  /\ WellBound /\ ~Cyclic
                 /\ \A f \in Found : Trail(f, depth[f]) /\ ~Trail(f, depth[f] + 1)
      <3>1. WellBound /\ DepthSound /\ \A f \in Found : depth[f] # None
        BY <2>1, <2>7, AfterOrdering
      <3>2. ~Cyclic
        <4>1. \A f \in Found : ~Walk(Edges, f, N)
          BY <2>1, <2>7, OrderedIsAcyclic
        <4> QED BY <2>3, <4>1, TrailIsWalk DEF Cyclic
      <3>3. ASSUME NEW f \in Found PROVE Trail(f, depth[f]) /\ ~Trail(f, depth[f] + 1)
        <4>1. depth[f] \in Nat /\ depth[f] + 1 \in Nat
          BY <2>2, <3>1, DepthType
        <4>2. Walk(Edges, f, depth[f]) /\ ~Walk(Edges, f, depth[f] + 1)
          BY <3>1 DEF DepthSound, Measured
        <4> QED BY <4>1, <4>2, TrailIsWalk
      <3> QED BY <3>1, <3>2, <3>3
    <2> QED BY <2>4, <2>5, <2>6, <2>7 DEF ChainVerdict, After
  <1> QED BY <1>1, ChainsInvariant, PTL
-----------------------------------------------------------------------------
(* The payload sent is consistent, but for twins.                          *)

\* Where nothing that is sent changes, and no answer does.
LEMMA AgreeStays ==
  ASSUME ChainsInv, Agree, doc' = doc, input' = input, hashed' = hashed, all' = all,
         \/ \A f \in Found : ~Sent(f)'
         \/ depth' = depth /\ \A f \in Found : Sent(f) /\ (Passed(f) => Passed(f)')
         \/ depth' = depth /\ \A f \in Found : (Sent(f)' => Sent(f)) /\ (Passed(f) => Passed(f)')
  PROVE  Agree'
  <1>1. /\ \A f \in Found : Refs(f)' = Refs(f) /\ Refs(f) \subseteq Names
        /\ \A n \in Names : Dep(n)' = Dep(n)
    BY DocStays, RefsAreNames
  <1>2. SUFFICES ASSUME NEW f \in Found, Sent(f)', NEW n \in Refs(f)' PROVE Agrees(f, n)'
    BY DEF Agree
  <1>3. n \in Refs(f) /\ n \in Names /\ Dep(n)' = Dep(n)
    BY <1>1, <1>2
  <1>4. Sent(f) /\ depth' = depth /\ \A t \in Found : Passed(t) => Passed(t)'
    BY <1>2
  <1>5. Agrees(f, n)
    BY <1>3, <1>4 DEF Agree
  <1>6. CASE input[f][n] = all[hashed[Dep(n)]]
    BY <1>3, <1>6 DEF Agrees
  <1>7. ASSUME NEW t \in Found, Passed(t), depth[t] >= depth[f], hashed[t] = hashed[Dep(n)]
        PROVE  Agrees(f, n)'
    <2>1. Passed(t)' /\ depth'[t] >= depth'[f] /\ hashed'[t] = hashed'[Dep(n)']
      BY <1>3, <1>4, <1>7
    <2> QED BY <2>1 DEF Agrees
  <1> QED BY <1>5, <1>6, <1>7 DEF Agrees

\* What a level fills in comes from the series of levels passed ...
LEMMA AgreeFill ==
  ASSUME ChainsInv, Agree, Fill, ~Fails("invalid_payload")
  PROVE  Agree'
  <1>1. /\ pc = "fill" /\ pc' = "fetch" /\ doc' = doc /\ depth' = depth
        /\ level' = level /\ all' = all
        /\ \A f \in Found : depth[f] # level => input'[f] = input[f] /\ hashed'[f] = hashed[f]
        /\ \A f \in Found : depth[f] = level =>
             \A n \in Refs(f) : input'[f][n] = all[hashed[Dep(n)]]
    BY FillIs
  <1>2. Shape /\ WellBound /\ DepthSound /\ \A f \in Found : depth[f] # None
    BY <1>1, AfterOrdering DEF After
  <1>3. /\ \A f \in Found : Refs(f)' = Refs(f) /\ Refs(f) \subseteq Names
        /\ \A n \in Names : Dep(n)' = Dep(n)
    BY <1>1, DocStays, RefsAreNames
  <1>4. SUFFICES ASSUME NEW f \in Found, Sent(f)', NEW n \in Refs(f)' PROVE Agrees(f, n)'
    BY DEF Agree
  <1>5. n \in Refs(f) /\ n \in Names /\ Dep(n)' = Dep(n) /\ Dep(n) \in Found
    BY <1>2, <1>3, <1>4, DepIs
  <1>6. depth[f] < level \/ depth[f] = level
    BY <1>1, <1>4 DEF Sent, Passed
  <1>7. depth[Dep(n)] # level
    <2>1. depth[Dep(n)] < depth[f] /\ depth[f] \in Int /\ depth[Dep(n)] \in Int /\ level \in Int
      BY <1>2, <1>5, DepthType DEF DepthSound, Measured, Shape
    <2> QED BY <1>6, <2>1
  <1>8. hashed'[Dep(n)] = hashed[Dep(n)]
    BY <1>1, <1>5, <1>7
  <1>9. CASE depth[f] = level
    BY <1>1, <1>5, <1>8, <1>9 DEF Agrees
  <1>10. CASE depth[f] # level
    <2>1. Sent(f)
      BY <1>1, <1>6, <1>10 DEF Sent, Passed
    <2>2. Agrees(f, n)
      BY <1>5, <2>1 DEF Agree
    <2>3. CASE input[f][n] = all[hashed[Dep(n)]]
      BY <1>1, <1>5, <1>8, <1>10, <2>3 DEF Agrees
    <2>4. ASSUME NEW t \in Found, Passed(t), depth[t] >= depth[f], hashed[t] = hashed[Dep(n)]
          PROVE  Agrees(f, n)'
      <3>1. depth[t] < level /\ depth[t] \in Int /\ level \in Int
        BY <1>1, <1>2, <2>4, DepthType DEF Passed, Shape
      <3>2. Passed(t)' /\ hashed'[t] = hashed[t]
        BY <1>1, <3>1 DEF Passed
      <3>3. depth'[t] >= depth'[f] /\ hashed'[t] = hashed'[Dep(n)']
        BY <1>1, <1>5, <1>8, <2>4, <3>2
      <3> QED BY <3>2, <3>3 DEF Agrees
    <2> QED BY <2>2, <2>3, <2>4 DEF Agrees
  <1> QED BY <1>9, <1>10

\* ... and a key fetched again is a twin's.
LEMMA AgreeFetch ==
  ASSUME ChainsInv, Agree, FetchLevel, ~Fails("resource_error")
  PROVE  Agree'
  <1>1. PICK answers :
          /\ IsSeries(answers) /\ DOMAIN answers = {hashed[f] : f \in Level}
          /\ all' = Merge(all, answers)
          /\ pc = "fetch" /\ doc' = doc /\ depth' = depth /\ stack' = stack
          /\ next' = next /\ input' = input /\ hashed' = hashed
          /\ \/ level < Levels /\ level' = level + 1 /\ pc' = "fill"
             \/ ~(level < Levels) /\ level' = level /\ pc' = "substitute"
    BY FetchIs
  <1>2. Shape /\ WellBound /\ DepthSound /\ Fetched /\ \A f \in Found : depth[f] # None
    BY <1>1, AfterOrdering DEF After
  <1>3. \A h \in DOMAIN all \ DOMAIN answers : all'[h] = all[h]
    <2>1. IsSeries(all) /\ IsSeries(answers) /\ all' = Merge(all, answers)
      BY <1>1, <1>2 DEF Shape
    <2>2. \A h \in DOMAIN all \ DOMAIN answers : Merge(all, answers)[h] = all[h]
      BY <2>1, MergeIs
    <2> QED BY <2>1, <2>2
  <1>4. /\ \A f \in Found : Refs(f)' = Refs(f) /\ Refs(f) \subseteq Names
        /\ \A n \in Names : Dep(n)' = Dep(n)
    BY <1>1, DocStays, RefsAreNames
  <1>5. ASSUME NEW t \in Found, depth[t] < level \/ depth[t] = level PROVE Passed(t)'
    <2>1. depth[t] \in Int /\ level \in Int
      BY <1>2, DepthType DEF Shape
    <2>2. CASE level < Levels /\ level' = level + 1 /\ pc' = "fill"
      BY <1>1, <1>5, <2>1, <2>2 DEF Passed
    <2>3. CASE pc' = "substitute"
      BY <2>3 DEF Passed, After
    <2> QED BY <1>1, <2>2, <2>3
  <1>6. SUFFICES ASSUME NEW f \in Found, Sent(f)', NEW n \in Refs(f)' PROVE Agrees(f, n)'
    BY DEF Agree
  <1>7. n \in Refs(f) /\ n \in Names /\ Dep(n)' = Dep(n) /\ Dep(n) \in Found
    BY <1>2, <1>4, <1>6, DepIs
  <1>8. depth[f] < level \/ depth[f] = level
    <2>1. Passed(f)'
      BY <1>1, <1>6 DEF Sent
    <2> QED BY <1>1, <2>1, PassedNext
  <1>9. Agrees(f, n)
    <2>1. Sent(f)
      BY <1>1, <1>8 DEF Sent, Passed
    <2> QED BY <1>7, <2>1 DEF Agree
  <1>10. hashed[Dep(n)] \in DOMAIN all
    <2>1. depth[Dep(n)] < depth[f] /\ depth[f] \in Int /\ depth[Dep(n)] \in Int /\ level \in Int
      BY <1>2, <1>7, DepthType DEF DepthSound, Measured, Shape
    <2>2. depth[Dep(n)] < level
      BY <1>8, <2>1
    <2> QED BY <1>1, <1>2, <1>7, <2>2 DEF Fetched, Passed
  <1>11. ASSUME NEW t \in Found, depth[t] < level \/ depth[t] = level,
                depth[t] >= depth[f], hashed[t] = hashed[Dep(n)]
         PROVE  Agrees(f, n)'
    <2>1. Passed(t)' /\ depth'[t] >= depth'[f] /\ hashed'[t] = hashed'[Dep(n)']
      BY <1>1, <1>5, <1>7, <1>11
    <2> QED BY <2>1 DEF Agrees
  <1>12. CASE hashed[Dep(n)] \in DOMAIN answers
    <2>1. PICK t \in Found : depth[t] = level /\ hashed[t] = hashed[Dep(n)]
      BY <1>1, <1>12 DEF Level
    <2>2. depth[t] >= depth[f]
      BY <1>2, <1>8, <2>1, DepthType DEF Shape
    <2> QED BY <1>11, <2>1, <2>2
  <1>13. CASE hashed[Dep(n)] \notin DOMAIN answers /\ input[f][n] = all[hashed[Dep(n)]]
    BY <1>1, <1>3, <1>7, <1>10, <1>13 DEF Agrees
  <1>14. ASSUME NEW t \in Found, Passed(t), depth[t] >= depth[f], hashed[t] = hashed[Dep(n)]
         PROVE  Agrees(f, n)'
    <2>1. depth[t] < level
      BY <1>1, <1>14 DEF Passed
    <2> QED BY <1>11, <1>14, <2>1
  <1> QED BY <1>9, <1>12, <1>13, <1>14 DEF Agrees

\* DependantsAgree for every payload, whatever the backends and the cache
\* answer: but for twins the series in a slot is the one its dependants were
\* computed from (fetchChain).
THEOREM PayloadConsistent == Spec => []DependantsAgree
  <1>1. Init => Agree
    <2>1. SUFFICES ASSUME Init PROVE Agree
      OBVIOUS
    <2>2. pc = "bind"
      BY <2>1 DEF Init
    <2> QED BY <2>2 DEF Agree, Sent, Passed, After
  <1>2. ChainsInv /\ Agree /\ [Next]_vars => Agree'
    <2>1. SUFFICES ASSUME ChainsInv, Agree, [Next]_vars PROVE Agree'
      OBVIOUS
    <2>2. doc' = doc
      BY <2>1, DocNeverChanges
    <2>3. CASE Fill /\ ~Fails("invalid_payload")
      BY <2>1, <2>3, AgreeFill
    <2>4. CASE FetchLevel /\ ~Fails("resource_error")
      BY <2>1, <2>4, AgreeFetch
    <2>5. ASSUME NEW why \in {"cycle", "deep", "unbound", "unresolved", "invalid_payload", "resource_error"}, Fails(why)
          PROVE  Agree'
      <3>1. /\ pc' = why /\ input' = input /\ hashed' = hashed /\ all' = all
        BY <2>5 DEF Fails
      <3>2. \A f \in Found : ~Sent(f)'
        BY <3>1 DEF Sent, Passed, After
      <3> QED BY <2>1, <2>2, <3>1, <3>2, AgreeStays
    <2>6. CASE /\ input' = input /\ hashed' = hashed /\ all' = all
               /\ pc' \in {"bind", "order", "unbound"}
      <3>1. \A f \in Found : ~Sent(f)'
        BY <2>6 DEF Sent, Passed, After
      <3> QED BY <2>1, <2>2, <2>6, <3>1, AgreeStays
    <2>7. CASE Bind \/ Enter
      BY <2>6, <2>7 DEF Bind, Enter, Fails
    <2>8. CASE Follow \/ Finish
      <3>1. CASE Fails("cycle") \/ Fails("deep")
        BY <2>5, <3>1
      <3>2. CASE /\ input' = input /\ hashed' = hashed /\ all' = all
                 /\ pc' = pc /\ pc = "order"
        BY <2>6, <3>2
      <3> QED BY <2>8, <3>1, <3>2 DEF Follow, Finish
    <2>9. CASE Ordered
      <3>1. /\ input' = input /\ hashed' = hashed /\ all' = all
            /\ depth' = depth /\ level' = level /\ pc = "order" /\ pc' = "fill" /\ next > N
        BY <2>9 DEF Ordered
      <3>2. level = 0 /\ Shape /\ \A f \in Found : depth[f] # None
        BY <2>1, <3>1, Placed DEF ChainsInv, Progress
      <3>3. \A f \in Found : ~(depth[f] < level)
        BY <3>2, DepthType
      <3>4. \A f \in Found : ~Sent(f)'
        BY <3>1, <3>3 DEF Sent, Passed
      <3> QED BY <2>1, <2>2, <3>1, <3>4, AgreeStays
    <2>10. CASE Substitute
      <3>1. \/ Fails("unresolved")
            \/ /\ input' = input /\ hashed' = hashed /\ all' = all /\ depth' = depth
               /\ pc = "substitute" /\ pc' = "resolved"
        BY <2>10 DEF Substitute
      <3>2. CASE /\ pc = "substitute" /\ pc' = "resolved" /\ input' = input /\ hashed' = hashed
                 /\ all' = all /\ depth' = depth
        <4>1. \A f \in Found : Sent(f) /\ Passed(f)'
          BY <3>2 DEF Sent, Passed, After
        <4> QED BY <2>1, <2>2, <3>2, <4>1, AgreeStays
      <3> QED BY <2>5, <3>1, <3>2
    <2>11. CASE vars' = vars
      <3>1. /\ input' = input /\ hashed' = hashed /\ all' = all
            /\ depth' = depth /\ level' = level /\ pc' = pc
        BY <2>11 DEF vars
      <3>2. \A f \in Found : (Sent(f)' => Sent(f)) /\ (Passed(f) => Passed(f)')
        BY <3>1 DEF Sent, Passed, After
      <3> QED BY <2>1, <2>2, <3>1, <3>2, AgreeStays
    <2> QED BY <2>1, <2>3, <2>4, <2>5, <2>7, <2>8, <2>9, <2>10, <2>11 DEF Next
  <1>3. ChainsInv /\ Agree => DependantsAgree
    BY DEF Agree, Agrees, Twin, Sent, Passed, After, DependantsAgree
  <1> QED BY <1>1, <1>2, <1>3, ChainsInvariant, PTL DEF Spec
-----------------------------------------------------------------------------
(* Ordering, filling and fetching end, on every payload.                   *)

\* The references level may still follow, the resolvents without a depth.
ToFollow(s, d) ==
  {e \in Found \X Names : d[e[1]] = None /\ \A i \in 1 .. Len(s) : s[i].f = e[1] => e[2] \in s[i].left}
Unordered(d) == {f \in Found : d[f] = None}

\* The steps left, at most: of Chain, and of the whole.
OrderLeft ==
  Cardinality(ToFollow(stack, depth)) + 2 * Cardinality(Unordered(depth)) + (N - Len(stack)) + (N + 1 - next)
ChainStepsLeft ==
  IF pc = "bind" THEN OrderLeft + 2 * MaxChainDepth + 4
  ELSE IF pc = "order" THEN OrderLeft + 2 * MaxChainDepth + 3
  ELSE IF pc = "fill" THEN 2 * (MaxChainDepth - level) + 2
  ELSE IF pc = "fetch" THEN 2 * (MaxChainDepth - level) + 1
  ELSE IF pc = "substitute" THEN 1
  ELSE 0

LEMMA OrderCounted ==
  ASSUME NEW s, NEW d
  PROVE  /\ IsFiniteSet(ToFollow(s, d)) /\ Cardinality(ToFollow(s, d)) \in Nat
         /\ IsFiniteSet(Unordered(d)) /\ Cardinality(Unordered(d)) \in Nat
  <1>1. IsFiniteSet(Found) /\ IsFiniteSet(Names)
    BY FS_Interval, ChainsAssumption DEF Found, Names
  <1>2. IsFiniteSet(Found \X Names)
    BY <1>1, FS_Product
  <1>3. ToFollow(s, d) \in SUBSET (Found \X Names) /\ Unordered(d) \in SUBSET Found
    BY DEF ToFollow, Unordered
  <1> QED BY <1>1, <1>2, <1>3, FS_Subset, FS_CardinalityType

\* A call more leaves no more to follow.
LEMMA FollowPushed ==
  ASSUME NEW s, NEW t, NEW d, Len(s) \in Nat, Len(t) \in Nat, Len(s) <= Len(t),
         \A i \in 1 .. Len(s) : t[i] = s[i]
  PROVE  Cardinality(ToFollow(t, d)) <= Cardinality(ToFollow(s, d))
  <1>1. \A i \in 1 .. Len(s) : i \in 1 .. Len(t)
    OBVIOUS
  <1>2. ToFollow(t, d) \in SUBSET ToFollow(s, d)
    BY <1>1 DEF ToFollow
  <1> QED BY <1>2, OrderCounted, FS_Subset

\* A reference followed is not followed again.
LEMMA FollowMet ==
  ASSUME NEW s, NEW t, NEW d, Len(s) \in Nat \ {0}, Len(t) = Len(s),
         NEW f \in Found, NEW n \in Names, d[f] = None,
         s[Len(s)].f = f, n \in s[Len(s)].left,
         \A i, j \in 1 .. Len(s) : s[i].f = s[j].f => i = j,
         \A i \in 1 .. Len(s) : t[i].f = s[i].f,
         \A i \in 1 .. Len(s) : t[i].left = IF i = Len(s) THEN s[i].left \ {n} ELSE s[i].left
  PROVE  Cardinality(ToFollow(t, d)) < Cardinality(ToFollow(s, d))
  <1>1. Len(s) \in 1 .. Len(s)
    OBVIOUS
  <1>2. <<f, n>> \in ToFollow(s, d)
    <2>1. ASSUME NEW i \in 1 .. Len(s), s[i].f = f PROVE n \in s[i].left
      <3>1. i = Len(s)
        BY <1>1, <2>1
      <3> QED BY <3>1
    <2> QED BY <2>1 DEF ToFollow
  <1>3. ASSUME NEW e \in ToFollow(t, d) PROVE e \in ToFollow(s, d) \ {<<f, n>>}
    <2>1. e \in Found \X Names /\ d[e[1]] = None
      BY DEF ToFollow
    <2>2. ASSUME NEW i \in 1 .. Len(s), s[i].f = e[1] PROVE e[2] \in t[i].left /\ e[2] \in s[i].left
      <3>1. e[2] \in t[i].left
        BY <2>2 DEF ToFollow
      <3> QED BY <3>1
    <2>3. e \in ToFollow(s, d)
      BY <2>1, <2>2 DEF ToFollow
    <2>4. e # <<f, n>>
      <3>1. ASSUME e = <<f, n>> PROVE FALSE
        <4>1. e[1] = f /\ e[2] = n
          BY <3>1
        <4>2. n \in t[Len(s)].left
          BY <1>1, <2>2, <4>1
        <4> QED BY <1>1, <4>2
      <3> QED BY <3>1
    <2> QED BY <2>3, <2>4
  <1>4. ToFollow(t, d) \in SUBSET (ToFollow(s, d) \ {<<f, n>>})
    BY <1>3
  <1>5. /\ IsFiniteSet(ToFollow(s, d) \ {<<f, n>>})
        /\ Cardinality(ToFollow(s, d) \ {<<f, n>>}) = Cardinality(ToFollow(s, d)) - 1
    <2>1. IsFiniteSet(ToFollow(s, d))
      BY OrderCounted
    <2> QED BY <1>2, <2>1, FS_RemoveElement
  <1>6. Cardinality(ToFollow(t, d)) <= Cardinality(ToFollow(s, d) \ {<<f, n>>})
    BY <1>4, <1>5, FS_Subset
  <1>7. Cardinality(ToFollow(s, d)) \in Nat /\ Cardinality(ToFollow(t, d)) \in Nat
    BY OrderCounted
  <1> QED BY <1>5, <1>6, <1>7

\* A finished call puts a depth on its resolvent.
Popped(s, t, d, c, f) ==
  /\ Len(s) \in Nat \ {0} /\ Len(t) = Len(s) - 1
  /\ f \in Found /\ s[Len(s)].f = f /\ d[f] = None /\ c[f] # None
  /\ \A g \in Found : g # f => c[g] = d[g]
  /\ \A i \in 1 .. Len(t) : t[i] = s[i]
LEMMA FollowFinished ==
  ASSUME NEW s, NEW t, NEW d, NEW c, NEW f, Popped(s, t, d, c, f)
  PROVE  /\ Cardinality(ToFollow(t, c)) <= Cardinality(ToFollow(s, d))
         /\ Cardinality(Unordered(c)) = Cardinality(Unordered(d)) - 1
  <1> USE DEF Popped
  <1>1. ASSUME NEW e \in ToFollow(t, c) PROVE e \in ToFollow(s, d)
    <2>1. e \in Found \X Names /\ c[e[1]] = None /\ e[1] # f /\ d[e[1]] = None
      BY DEF ToFollow
    <2>2. ASSUME NEW i \in 1 .. Len(s), s[i].f = e[1] PROVE e[2] \in s[i].left
      <3>1. i # Len(s)
        BY <2>1, <2>2
      <3>2. i \in 1 .. Len(t)
        BY <3>1
      <3> QED BY <2>2, <3>2 DEF ToFollow
    <2> QED BY <2>1, <2>2 DEF ToFollow
  <1>2. ToFollow(t, c) \in SUBSET ToFollow(s, d)
    BY <1>1
  <1>3. Unordered(c) = Unordered(d) \ {f} /\ f \in Unordered(d)
    BY DEF Unordered
  <1>4. Cardinality(ToFollow(t, c)) <= Cardinality(ToFollow(s, d))
    BY <1>2, OrderCounted, FS_Subset
  <1>5. IsFiniteSet(Unordered(d))
    BY OrderCounted
  <1>6. Cardinality(Unordered(d) \ {f}) = Cardinality(Unordered(d)) - 1
    BY <1>3, <1>5, FS_RemoveElement
  <1> QED BY <1>3, <1>4, <1>6

\* The parts of OrderLeft before and after a step of Chain.
LEMMA OrderShrinks ==
  ASSUME ChainsInv, ChainsInv', Enter \/ Follow \/ Finish, pc' = "order"
  PROVE  pc = "order" /\ OrderLeft' \in Int /\ OrderLeft' < OrderLeft
  <1> DEFINE a == Cardinality(ToFollow(stack, depth))
             b == Cardinality(ToFollow(stack', depth'))
             u == Cardinality(Unordered(depth))
             v == Cardinality(Unordered(depth'))
  <1>1. a \in Nat /\ b \in Nat /\ u \in Nat /\ v \in Nat
    BY OrderCounted
  <1>2. /\ Shape /\ StackSound /\ stack \in Seq(Frames) /\ stack' \in Seq(Frames)
        /\ Len(stack) \in Nat /\ Len(stack') \in Nat /\ next \in Int /\ next' \in Int /\ N \in Nat
    BY ChainsAssumption DEF ChainsInv, Shape
  <1>3. OrderLeft = a + 2 * u + (N - Len(stack)) + (N + 1 - next)
    BY DEF OrderLeft
  <1>4. OrderLeft' = b + 2 * v + (N - Len(stack')) + (N + 1 - next')
    BY DEF OrderLeft, ToFollow, Unordered
  <1>5. pc = "order" /\ OrderLeft' \in Int
    <2>1. pc = "order"
      BY DEF Enter, Follow, Finish
    <2> HIDE DEF a, b, u, v
    <2> QED BY <1>1, <1>2, <1>4, <2>1
  <1>6. ASSUME b + 2 * v + Len(stack) + next < a + 2 * u + Len(stack') + next'
        PROVE  OrderLeft' < OrderLeft
    <2> HIDE DEF a, b, u, v
    <2>1. ASSUME NEW p \in Nat, NEW q \in Nat, NEW x \in Int, NEW y \in Int,
                 b + 2 * v + p + x < a + 2 * u + q + y
          PROVE  b + 2 * v + (N - q) + (N + 1 - y) < a + 2 * u + (N - p) + (N + 1 - x)
      BY <1>1, <1>2, <2>1
    <2>2. b + 2 * v + (N - Len(stack')) + (N + 1 - next') < a + 2 * u + (N - Len(stack)) + (N + 1 - next)
      BY <1>2, <1>6, <2>1
    <2> QED BY <1>3, <1>4, <2>2
  <1>7. CASE Enter
    <2>1. depth' = depth /\ stack = <<>> /\ u = v
      BY <1>7 DEF Enter
    <2>2. CASE depth[next] # None
      <3>1. next' = next + 1 /\ stack' = stack /\ a = b
        BY <1>7, <2>1, <2>2 DEF Enter
      <3> HIDE DEF a, b, u, v
      <3> QED BY <1>1, <1>2, <1>5, <1>6, <2>1, <3>1
    <2>3. CASE depth[next] = None
      <3>1. next' = next /\ stack' = <<Frame(next)>>
        BY <1>7, <2>3 DEF Enter
      <3>2. Len(stack') = 1 /\ Len(stack) = 0
        BY <2>1, <3>1
      <3>3. b <= a
        BY <2>1, <3>2, FollowPushed
      <3> HIDE DEF a, b, u, v
      <3> QED BY <1>1, <1>2, <1>5, <1>6, <2>1, <3>1, <3>2, <3>3
    <2> QED BY <2>2, <2>3
  <1>8. CASE Follow
    <2> DEFINE top == stack[Len(stack)]
               n == Min(top.left)
               g == Dep(n)
    <2>1. Last(stack) = top
      BY DEF Last
    <2>2. stack # <<>> /\ top.left # {} /\ Len(stack) \in 1 .. Len(stack)
      BY <1>2, <1>8, <2>1 DEF Follow
    <2>3. \/ stack' = [stack EXCEPT ![Len(stack)] = [top EXCEPT !.left = @ \ {n}, !.d = Deeper(@, depth[g])]]
          \/ stack' = Append(stack, Frame(g))
      BY <1>8, <2>1 DEF Follow, Fails
    <2>4. depth' = depth /\ next' = next /\ u = v
      BY <1>8, <2>1 DEF Follow, Fails
    <2>5. top \in Frames /\ FrameSound(top)
      BY <1>2, <2>2, Calls DEF StackSound
    <2>6. top.f \in Found /\ top.left \in SUBSET Names /\ depth[top.f] = None
      BY <2>5 DEF Frames, FrameSound
    <2>7. n \in top.left
      <3> HIDE DEF top
      <3> QED BY <2>2, <2>6, SmallestOf
    <2> HIDE DEF n, g
    <2>8. CASE stack' = Append(stack, Frame(g))
      <3>1. Len(stack') = Len(stack) + 1 /\ \A i \in 1 .. Len(stack) : stack'[i] = stack[i]
        BY <1>2, <2>8
      <3>2. b <= a
        BY <1>2, <2>4, <3>1, FollowPushed
      <3> HIDE DEF a, b, u, v, top
      <3> QED BY <1>1, <1>2, <1>5, <1>6, <2>4, <3>1, <3>2
    <2>9. CASE stack' = [stack EXCEPT ![Len(stack)] = [top EXCEPT !.left = @ \ {n}, !.d = Deeper(@, depth[g])]]
      <3> DEFINE new == [top EXCEPT !.left = @ \ {n}, !.d = Deeper(@, depth[g])]
      <3>1. new.f = top.f /\ new.left = top.left \ {n}
        BY <2>5 DEF Frames
      <3>2. Len(stack') = Len(stack) /\ \A i \in 1 .. Len(stack) : stack'[i] = IF i = Len(stack) THEN new ELSE stack[i]
        BY <1>2, <2>9
      <3> HIDE DEF new
      <3>3. /\ \A i \in 1 .. Len(stack) : stack'[i].f = stack[i].f
            /\ \A i \in 1 .. Len(stack) : stack'[i].left = IF i = Len(stack) THEN stack[i].left \ {n} ELSE stack[i].left
        BY <3>1, <3>2
      <3>4. \A i, j \in 1 .. Len(stack) : stack[i].f = stack[j].f => i = j
        BY <1>2 DEF StackSound
      <3>5. n \in Names /\ Len(stack) \in Nat \ {0}
        BY <1>2, <2>2, <2>6, <2>7
      <3>6. b < a
        BY <2>4, <2>6, <2>7, <3>2, <3>3, <3>4, <3>5, FollowMet
      <3> HIDE DEF a, b, u, v, top
      <3> QED BY <1>1, <1>2, <1>5, <1>6, <2>4, <3>2, <3>6
    <2> QED BY <2>3, <2>8, <2>9
  <1>9. CASE Finish
    <2> DEFINE top == stack[Len(stack)]
    <2>1. Last(stack) = top
      BY DEF Last
    <2>2. /\ stack # <<>> /\ next' = next
          /\ depth' = [depth EXCEPT ![top.f] = top.d] /\ stack' = Front(stack)
      BY <1>9, <2>1 DEF Finish, Fails
    <2>3. Len(stack) \in 1 .. Len(stack) /\ Len(stack) \in Nat \ {0}
      BY <1>2, <2>2
    <2>4. top \in Frames /\ FrameSound(top)
      BY <1>2, <2>3, Calls DEF StackSound
    <2>5. top.f \in Found /\ top.d \in Nat /\ depth[top.f] = None
      BY <2>4 DEF Frames, FrameSound
    <2>6. /\ depth \in [Found -> None .. MaxChainDepth - 1]
          /\ depth'[top.f] # None /\ \A h \in Found : h # top.f => depth'[h] = depth[h]
      <3>1. depth \in [Found -> None .. MaxChainDepth - 1]
        BY <1>2 DEF Shape
      <3>2. top.d # None
        BY <2>5 DEF None
      <3> HIDE DEF top
      <3> QED BY <2>2, <2>5, <3>1, <3>2
    <2>7. Len(stack') = Len(stack) - 1 /\ \A i \in 1 .. Len(stack') : stack'[i] = stack[i]
      BY <1>2, <2>2, FrontIs
    <2>8. b <= a /\ v = u - 1
      <3>1. Popped(stack, stack', depth, depth', top.f)
        BY <2>3, <2>5, <2>6, <2>7 DEF Popped
      <3> QED BY <3>1, FollowFinished
    <2> HIDE DEF a, b, u, v, top
    <2> QED BY <1>1, <1>2, <1>5, <1>6, <2>2, <2>7, <2>8
  <1> QED BY <1>5, <1>7, <1>8, <1>9

LEMMA OrderLeftType == ChainsInv => OrderLeft \in Nat
  <1> SUFFICES ASSUME ChainsInv PROVE OrderLeft \in Nat
    OBVIOUS
  <1>1. /\ Len(stack) \in Nat /\ Len(stack) <= N /\ next \in 1 .. N + 1 /\ N \in Nat
    BY StackFits, ChainsAssumption DEF ChainsInv, Shape
  <1>2. N - Len(stack) \in Nat /\ N + 1 - next \in Nat
    BY <1>1
  <1> QED BY <1>2, OrderCounted DEF OrderLeft

LEMMA ChainShrinks == ChainsInv /\ ChainsInv' /\ Next => ChainStepsLeft' < ChainStepsLeft
  <1> SUFFICES ASSUME ChainsInv, ChainsInv', Next PROVE ChainStepsLeft' < ChainStepsLeft
    OBVIOUS
  <1>1. /\ MaxChainDepth \in Nat /\ level \in Nat /\ level' \in Nat
        /\ level < MaxChainDepth /\ level' < MaxChainDepth
    BY ChainsAssumption DEF ChainsInv, Shape
  <1>2. OrderLeft \in Nat
    BY OrderLeftType
  <1>3. /\ pc = "bind" => ChainStepsLeft = OrderLeft + 2 * MaxChainDepth + 4
        /\ pc = "order" => ChainStepsLeft = OrderLeft + 2 * MaxChainDepth + 3
        /\ pc = "fill" => ChainStepsLeft = 2 * (MaxChainDepth - level) + 2
        /\ pc = "fetch" => ChainStepsLeft = 2 * (MaxChainDepth - level) + 1
        /\ pc = "substitute" => ChainStepsLeft = 1
    BY DEF ChainStepsLeft
  <1>4. /\ pc' = "order" => ChainStepsLeft' = OrderLeft' + 2 * MaxChainDepth + 3
        /\ pc' = "fill" => ChainStepsLeft' = 2 * (MaxChainDepth - level') + 2
        /\ pc' = "fetch" => ChainStepsLeft' = 2 * (MaxChainDepth - level') + 1
        /\ pc' = "substitute" => ChainStepsLeft' = 1
        /\ pc' \notin {"bind", "order", "fill", "fetch", "substitute"} => ChainStepsLeft' = 0
    BY DEF ChainStepsLeft
  <1>5. pc \in {"bind", "order", "fill", "fetch", "substitute"}
    BY DEF Next, Bind, Enter, Follow, Finish, Ordered, Fill, FetchLevel, Substitute
  <1>6. CASE pc' \notin {"bind", "order", "fill", "fetch", "substitute"}
    <2>1. ChainStepsLeft > 0
      BY <1>1, <1>2, <1>3, <1>5
    <2> QED BY <1>4, <1>6, <2>1
  <1>7. ASSUME NEW why \in {"unbound", "cycle", "deep", "unresolved", "invalid_payload", "resource_error"},
               Fails(why)
        PROVE  ChainStepsLeft' < ChainStepsLeft
    BY <1>6, <1>7 DEF Fails
  <1>8. CASE Bind
    <2>1. pc = "bind"
      BY <1>8 DEF Bind
    <2>2. CASE pc' = "order" /\ UNCHANGED <<depth, stack, next>>
      <3>1. OrderLeft' = OrderLeft
        BY <2>2 DEF OrderLeft, ToFollow, Unordered
      <3> QED BY <1>1, <1>2, <1>3, <1>4, <2>1, <2>2, <3>1
    <2> QED BY <1>7, <1>8, <2>2 DEF Bind
  <1>9. CASE Enter \/ Follow \/ Finish
    <2>1. CASE pc' = "order"
      <3>1. pc = "order" /\ OrderLeft' \in Int /\ OrderLeft' < OrderLeft
        BY <1>9, <2>1, OrderShrinks
      <3>2. /\ ChainStepsLeft = OrderLeft + 2 * MaxChainDepth + 3
            /\ ChainStepsLeft' = OrderLeft' + 2 * MaxChainDepth + 3
        BY <1>3, <1>4, <2>1, <3>1
      <3> DEFINE x == OrderLeft'
                 y == OrderLeft
                 m == 2 * MaxChainDepth
      <3>3. x \in Int /\ y \in Int /\ x < y
        BY <1>2, <3>1
      <3>4. m \in Int
        BY <1>1
      <3>5. ChainStepsLeft = y + m + 3 /\ ChainStepsLeft' = x + m + 3
        BY <3>2
      <3> HIDE DEF x, y, m
      <3> QED BY <3>3, <3>4, <3>5
    <2>2. pc' = "order" \/ Fails("cycle") \/ Fails("deep")
      BY <1>9 DEF Enter, Follow, Finish
    <2> QED BY <1>7, <2>1, <2>2
  <1>10. CASE Ordered
    <2>1. pc = "order" /\ pc' = "fill" /\ level' = level
      BY <1>10 DEF Ordered
    <2>2. level = 0
      BY <2>1 DEF ChainsInv, Progress
    <2> QED BY <1>1, <1>2, <1>3, <1>4, <2>1, <2>2
  <1>11. CASE Fill
    <2>1. pc = "fill"
      BY <1>11 DEF Fill
    <2>2. CASE pc' = "fetch" /\ level' = level
      BY <1>1, <1>3, <1>4, <2>1, <2>2
    <2>3. (pc' = "fetch" /\ level' = level) \/ Fails("unresolved") \/ Fails("invalid_payload")
      BY <1>11 DEF Fill
    <2> QED BY <1>7, <2>2, <2>3
  <1>12. CASE FetchLevel
    <2>1. pc = "fetch"
      BY <1>12 DEF FetchLevel
    <2>2. CASE pc' = "fill" /\ level' = level + 1
      BY <1>1, <1>3, <1>4, <2>1, <2>2
    <2>3. CASE pc' = "substitute"
      BY <1>1, <1>3, <1>4, <2>1, <2>3
    <2>4. (pc' = "fill" /\ level' = level + 1) \/ pc' = "substitute" \/ Fails("resource_error")
      BY <1>12 DEF FetchLevel
    <2> QED BY <1>7, <2>2, <2>3, <2>4
  <1>13. CASE Substitute
    <2>1. pc' = "resolved" \/ Fails("unresolved")
      BY <1>13 DEF Substitute
    <2> QED BY <1>6, <1>7, <2>1
  <1> QED BY <1>8, <1>9, <1>10, <1>11, <1>12, <1>13 DEF Next

\* Chain and fetchChain end on every payload, whatever it refers to: every
\* call of level, every reference followed, every level filled and fetched
\* brings the end nearer, cycles and shared dependencies included.
THEOREM ChainsEnd == Spec => [](ChainStepsLeft \in Nat) /\ [][ChainStepsLeft' < ChainStepsLeft]_vars
  <1>1. ChainsInv => ChainStepsLeft \in Nat
    <2> SUFFICES ASSUME ChainsInv PROVE ChainStepsLeft \in Nat
      OBVIOUS
    <2>1. MaxChainDepth \in Nat /\ level \in Nat /\ level < MaxChainDepth
      BY ChainsAssumption DEF ChainsInv, Shape
    <2>2. OrderLeft \in Nat
      BY OrderLeftType
    <2> QED BY <2>1, <2>2 DEF ChainStepsLeft
  <1>2. ChainsInv /\ ChainsInv' /\ [Next]_vars => [ChainStepsLeft' < ChainStepsLeft]_vars
    BY ChainShrinks
  <1> QED BY <1>1, <1>2, ChainsInvariant, PTL DEF Spec
-----------------------------------------------------------------------------
(* One pass of fetchAll, which Chains takes as one step and Fetch opens up. *)

ResultOf == [hash : Hashes, is : {"failed", "skipped", "cancelled", "ok"}]

\* What the feeder has passed is at one place: at one fetcher, in the channel
\* once, or collected.
Fed == {unique[k] : k \in 1 .. fed - 1}
Handed ==
  /\ \A f \in Fetchers : fetcher[f] \in Hashes => fetcher[f] \in Fed /\ got[fetcher[f]] = "none"
  /\ \A i \in 1 .. Len(results) : results[i].hash \in Fed /\ got[results[i].hash] = "none"
  /\ \A h \in Hashes : got[h] # "none" => h \in Fed
Apart ==
  /\ \A f, g \in Fetchers : fetcher[f] = fetcher[g] /\ fetcher[f] \in Hashes => f = g
  /\ \A i, j \in 1 .. Len(results) : results[i].hash = results[j].hash => i = j
  /\ \A f \in Fetchers : \A i \in 1 .. Len(results) : fetcher[f] # results[i].hash
NoneLost ==
  \A h \in Fed : \/ got[h] # "none" \/ \E f \in Fetchers : fetcher[f] = h
                 \/ \E i \in 1 .. Len(results) : results[i].hash = h

\* A body that is not in the cache yet, nor lost, is with the fetcher that
\* will write it.
Kept ==
  mode # "bypass" =>
    \A h \in fetched : h \in series \cup unwritten \/ \E f \in Fetchers : fetcher[f] = h

\* What is skipped is behind a failure or a call that was cut off.
Behind(h) ==
  \A k \in 1 .. Len(unique) : unique[k] = h =>
    \E m \in 1 .. k - 1 : got[unique[m]] = "failed" \/ got[unique[m]] = "cancelled"
Honest ==
  /\ \A h \in Hashes : got[h] = "skipped" => Behind(h)
  /\ \A i \in 1 .. Len(results) : results[i].is = "skipped" => Behind(results[i].hash)

\* The verdict comes after the last result.
Settled ==
  /\ PassVerdict
  /\ answer # "none" => \A k \in 1 .. Len(unique) : got[unique[k]] # "none"

\* Where every goroutine can be; stop is closed exactly when the collector
\* has met an error.
Marks == {"failed", "skipped", "cancelled", "ok"}
PassShape ==
  /\ found \in Seq(Hashes) /\ bad \subseteq Hashes
  /\ series \subseteq Hashes /\ unwritten \subseteq fetched /\ fetched \subseteq Hashes
  /\ fed \in 1 .. Len(unique) + 1
  /\ fetcher \in [Fetchers -> Hashes \cup {Idle, Exited}]
  /\ results \in Seq(ResultOf)
  /\ got \in [Hashes -> Marks \cup {"none"}]
  /\ feedOpen \in BOOLEAN /\ ctxDone \in BOOLEAN
  /\ answer \in Hashes \cup {"none", "series"}
StopSound == stop \in BOOLEAN /\ (stop <=> \E h \in Hashes : got[h] \in Errors)

PassInv ==
  PassShape /\ StopSound /\ Handed /\ Apart /\ NoneLost /\ Kept /\ Honest /\ Settled
-----------------------------------------------------------------------------
(* The resolvents of a pass without their repetitions.                     *)

\* A set of numbers, numbered upwards: every number has one member.
LEMMA NthIs ==
  ASSUME NEW S, S \subseteq Nat, IsFiniteSet(S)
  PROVE  /\ \A k \in 1 .. Cardinality(S) : Nth(S, k) \in S
         /\ \A k, m \in 1 .. Cardinality(S) : Nth(S, k) = Nth(S, m) => k = m
         /\ \A i \in S : \E k \in 1 .. Cardinality(S) : Nth(S, k) = i
  <1> DEFINE upto(i) == {j \in S : j <= i}
             rank == [i \in S |-> Rank(S, i)]
             C == Cardinality(S)
  <1>0. \A i \in S : i \in Nat /\ Rank(S, i) = Cardinality(upto(i))
    BY DEF Rank
  <1>1. C \in Nat /\ IsFiniteSet(1 .. C) /\ Cardinality(1 .. C) = C
    <2>1. C \in Nat
      BY FS_CardinalityType
    <2> HIDE DEF C
    <2> QED BY <2>1, FS_Interval
  <1>2. ASSUME NEW i \in S
        PROVE  /\ IsFiniteSet(upto(i)) /\ Cardinality(upto(i)) \in 1 .. C
               /\ upto(i) # {} /\ i \in upto(i)
    <2>1. i \in upto(i) /\ upto(i) \in SUBSET S
      BY <1>0, <1>2
    <2>2. IsFiniteSet(upto(i)) /\ Cardinality(upto(i)) <= Cardinality(S)
      <3> HIDE DEF upto
      <3> QED BY <2>1, FS_Subset
    <2>3. Cardinality(upto(i)) \in Nat /\ Cardinality(upto(i)) # 0
      <3> HIDE DEF upto
      <3> QED BY <2>1, <2>2, FS_CardinalityType, FS_EmptySet
    <2> HIDE DEF upto
    <2> QED BY <1>1, <2>1, <2>2, <2>3
  <1>3. ASSUME NEW i \in S, NEW j \in S, i < j PROVE rank[i] # rank[j]
    <2>1. upto(i) \in SUBSET upto(j) /\ j \in upto(j) /\ j \notin upto(i)
      <3>1. \A x \in S : x <= i => x <= j
        BY <1>0, <1>3
      <3>2. j <= j /\ ~(j <= i)
        BY <1>0, <1>3
      <3> QED BY <3>1, <3>2
    <2>2. IsFiniteSet(upto(j))
      BY <1>2
    <2>3. Cardinality(upto(i)) # Cardinality(upto(j))
      <3> HIDE DEF upto
      <3> QED BY <2>1, <2>2, FS_Subset
    <2> HIDE DEF upto
    <2> QED BY <1>0, <2>3
  <1>4. rank \in Injection(S, 1 .. C)
    <2>1. rank \in [S -> 1 .. C]
      <3> HIDE DEF upto, C
      <3> QED BY <1>0, <1>2
    <2>2. ASSUME NEW i \in S, NEW j \in S, rank[i] = rank[j] PROVE i = j
      <3>1. ~(i < j) /\ ~(j < i)
        BY <1>3, <2>2
      <3> QED BY <1>0, <3>1
    <2> HIDE DEF rank, C
    <2> QED BY <2>1, <2>2 DEF Injection, IsInjective
  <1>5. rank \in Surjection(S, 1 .. C)
    <2>1. Cardinality(S) = Cardinality(1 .. C)
      BY <1>1
    <2> HIDE DEF rank, C
    <2> QED BY <1>1, <1>4, <2>1, FS_Injection
  <1>6. \A k \in 1 .. C : \E i \in S : rank[i] = k
    <2> HIDE DEF rank, C
    <2> QED BY <1>5 DEF Surjection
  <1>7. \A i, j \in S : rank[i] = rank[j] => i = j
    <2> HIDE DEF rank, C
    <2> QED BY <1>4 DEF Injection, IsInjective
  <1>8. ASSUME NEW k \in 1 .. C PROVE Nth(S, k) \in S /\ rank[Nth(S, k)] = k
    <2>1. \E i \in S : Rank(S, i) = k
      BY <1>6
    <2>2. Nth(S, k) \in S /\ Rank(S, Nth(S, k)) = k
      BY <2>1 DEF Nth
    <2> QED BY <2>2
  <1>9. ASSUME NEW i \in S PROVE \E k \in 1 .. C : Nth(S, k) = i
    <2>1. rank[i] \in 1 .. C
      <3> HIDE DEF upto, C
      <3> QED BY <1>0, <1>2
    <2> HIDE DEF rank, C
    <2>2. Nth(S, rank[i]) \in S /\ rank[Nth(S, rank[i])] = rank[i]
      BY <1>8, <2>1
    <2> QED BY <1>7, <2>1, <2>2
  <1>10. \A k, m \in 1 .. C : Nth(S, k) = Nth(S, m) => k = m
    <2> HIDE DEF rank, C
    <2> QED BY <1>8
  <1> QED BY <1>8, <1>9, <1>10

\* uniqueByHash keeps every hash of the document, and each once.
LEMMA UniqueIs ==
  ASSUME found \in Seq(Hashes)
  PROVE  /\ unique \in Seq(Hashes)
         /\ \A k, m \in 1 .. Len(unique) : unique[k] = unique[m] => k = m
         /\ {unique[k] : k \in 1 .. Len(unique)} = {found[i] : i \in 1 .. Len(found)}
  <1> DEFINE S == Firsts(found)
             C == Cardinality(S)
             n(k) == Nth(S, k)
  <1>1. Len(found) \in Nat /\ DOMAIN found = 1 .. Len(found)
        /\ \A i \in 1 .. Len(found) : found[i] \in Hashes
    OBVIOUS
  <1>2. S = {i \in 1 .. Len(found) : \A j \in 1 .. i - 1 : found[j] # found[i]}
    BY <1>1 DEF Firsts
  <1>3. S \subseteq Nat /\ S \subseteq 1 .. Len(found) /\ IsFiniteSet(S)
    <2>1. S \in SUBSET (1 .. Len(found))
      BY <1>2
    <2>2. IsFiniteSet(1 .. Len(found))
      BY <1>1, FS_Interval
    <2> HIDE DEF S
    <2>3. IsFiniteSet(S)
      BY <2>1, <2>2, FS_Subset
    <2>4. \A x \in S : x \in 1 .. Len(found)
      BY <2>1
    <2>5. \A x \in 1 .. Len(found) : x \in Nat
      OBVIOUS
    <2> QED BY <2>3, <2>4, <2>5
  <1>4. C \in Nat
    BY <1>3, FS_CardinalityType
  <1> HIDE DEF S
  <1>5. /\ \A k \in 1 .. C : n(k) \in S
        /\ \A k, m \in 1 .. C : n(k) = n(m) => k = m
        /\ \A i \in S : \E k \in 1 .. C : n(k) = i
    <2>1. /\ \A k \in 1 .. Cardinality(S) : Nth(S, k) \in S
          /\ \A k, m \in 1 .. Cardinality(S) : Nth(S, k) = Nth(S, m) => k = m
          /\ \A i \in S : \E k \in 1 .. Cardinality(S) : Nth(S, k) = i
      BY <1>3, NthIs
    <2> QED BY <2>1
  <1>6. unique = [k \in 1 .. C |-> found[n(k)]]
    BY DEF unique, UniqueByHash, S
  <1> HIDE DEF C, n
  <1>7. unique \in Seq(Hashes) /\ Len(unique) = C /\ \A k \in 1 .. C : unique[k] = found[n(k)]
    <2>1. \A k \in 1 .. C : found[n(k)] \in Hashes
      BY <1>1, <1>3, <1>5
    <2>2. unique \in [1 .. C -> Hashes]
      BY <1>6, <2>1
    <2>3. unique \in Seq(Hashes) /\ Len(unique) = C
      BY <1>4, <2>2, IsASeq
    <2> QED BY <1>6, <2>3
  <1>8. ASSUME NEW k \in 1 .. C, NEW m \in 1 .. C, unique[k] = unique[m] PROVE k = m
    <2>1. found[n(k)] = found[n(m)] /\ n(k) \in S /\ n(m) \in S
      BY <1>5, <1>7, <1>8
    <2>2. n(k) \in 1 .. Len(found) /\ n(m) \in 1 .. Len(found)
      BY <1>3, <2>1
    <2>3. ~(n(k) < n(m))
      BY <1>2, <2>1, <2>2
    <2>4. ~(n(m) < n(k))
      BY <1>2, <2>1, <2>2
    <2>5. n(k) = n(m)
      BY <2>2, <2>3, <2>4
    <2> QED BY <1>5, <2>5
  <1>9. ASSUME NEW i \in 1 .. Len(found) PROVE \E k \in 1 .. C : unique[k] = found[i]
    <2> DEFINE T == {j \in 1 .. Len(found) : found[j] = found[i]}
    <2>1. T \subseteq Nat /\ T # {}
      OBVIOUS
    <2>2. PICK j \in T : \A y \in T : j <= y
      <3> HIDE DEF T
      <3> QED BY <2>1, SmallestMember
    <2>3. j \in S
      <3>1. ASSUME NEW y \in 1 .. j - 1 PROVE found[y] # found[j]
        <4>1. y \in 1 .. Len(found) /\ ~(j <= y)
          BY <1>1, <2>2
        <4> QED BY <2>2, <4>1
      <3> QED BY <1>2, <2>2, <3>1
    <2>4. PICK k \in 1 .. C : n(k) = j
      BY <1>5, <2>3
    <2> QED BY <1>7, <2>2, <2>4
  <1>10. \A k \in 1 .. C : \E i \in 1 .. Len(found) : unique[k] = found[i]
    BY <1>3, <1>5, <1>7
  <1>11. {unique[k] : k \in 1 .. C} = {found[i] : i \in 1 .. Len(found)}
    <2>1. \A x \in {unique[k] : k \in 1 .. C} : x \in {found[i] : i \in 1 .. Len(found)}
      BY <1>10
    <2>2. \A x \in {found[i] : i \in 1 .. Len(found)} : x \in {unique[k] : k \in 1 .. C}
      BY <1>9
    <2> QED BY <2>1, <2>2
  <1> QED BY <1>7, <1>8, <1>11

\* The same in the terms of the invariant.
LEMMA UniqueFacts ==
  ASSUME PassShape
  PROVE  /\ Len(unique) \in Nat /\ \A k \in 1 .. Len(unique) : unique[k] \in Hashes
         /\ \A k, m \in 1 .. Len(unique) : unique[k] = unique[m] => k = m
         /\ fed \in Nat /\ fed - 1 <= Len(unique)
         /\ \A h \in Fed : h \in Hashes /\ \E k \in 1 .. Len(unique) : k < fed /\ unique[k] = h
  <1>1. found \in Seq(Hashes) /\ fed \in 1 .. Len(unique) + 1
    BY DEF PassShape
  <1>2. /\ unique \in Seq(Hashes)
        /\ \A k, m \in 1 .. Len(unique) : unique[k] = unique[m] => k = m
    BY <1>1, UniqueIs
  <1>3. Len(unique) \in Nat /\ \A k \in 1 .. Len(unique) : unique[k] \in Hashes
    BY <1>2, ElementOfSeq
  <1>4. fed \in Nat /\ fed - 1 <= Len(unique)
    BY <1>1, <1>3
  <1>5. ASSUME NEW h \in Fed PROVE h \in Hashes /\ \E k \in 1 .. Len(unique) : k < fed /\ unique[k] = h
    <2>1. PICK k \in 1 .. fed - 1 : h = unique[k]
      BY DEF Fed
    <2>2. k \in 1 .. Len(unique) /\ k < fed
      BY <1>3, <1>4
    <2> QED BY <1>3, <2>1, <2>2
  <1> QED BY <1>2, <1>3, <1>4, <1>5

LEMMA UniqueStays ==
  ASSUME found' = found
  PROVE  unique' = unique
  BY DEF unique, UniqueByHash, Firsts

\* The feeder's next resolvent was nowhere before.
LEMMA NextIsNew ==
  ASSUME PassShape, Handed, Apart, fed <= Len(unique)
  PROVE  /\ unique[fed] \in Hashes /\ unique[fed] \notin Fed /\ fed \in 1 .. Len(unique)
         /\ got[unique[fed]] = "none"
         /\ \A f \in Fetchers : fetcher[f] # unique[fed]
         /\ \A i \in 1 .. Len(results) : results[i].hash # unique[fed]
  <1>1. fed \in 1 .. Len(unique)
    BY UniqueFacts DEF PassShape
  <1>2. unique[fed] \in Hashes
    BY <1>1, UniqueFacts
  <1>3. unique[fed] \notin Fed
    <2>1. SUFFICES ASSUME unique[fed] \in Fed PROVE FALSE
      OBVIOUS
    <2>2. PICK k \in 1 .. Len(unique) : k < fed /\ unique[k] = unique[fed]
      BY <2>1, UniqueFacts
    <2>3. k = fed
      BY <1>1, <2>2, UniqueFacts
    <2> QED BY <1>1, <2>2, <2>3
  <1> QED BY <1>1, <1>2, <1>3 DEF Handed

LEMMA FedGrows ==
  ASSUME PassShape, found' = found, fed' = fed + 1
  PROVE  Fed' = Fed \cup {unique[fed]}
  <1>1. unique' = unique /\ fed \in Nat \ {0}
    BY UniqueStays, UniqueFacts DEF PassShape
  <1>2. 1 .. fed' - 1 = (1 .. fed - 1) \cup {fed}
    BY <1>1
  <1>3. ASSUME NEW h PROVE h \in Fed' <=> h \in Fed \cup {unique[fed]}
    BY <1>1, <1>2 DEF Fed
  <1> QED BY <1>3

LEMMA FedStays ==
  ASSUME found' = found, fed' = fed
  PROVE  Fed' = Fed
  BY UniqueStays DEF Fed

\* A result put into the channel.
LEMMA Reports ==
  ASSUME PassShape, NEW h \in Hashes, NEW r \in Marks, results' = Append(results, MkResult(h, r))
  PROVE  /\ results' \in Seq(ResultOf) /\ Len(results) \in Nat /\ Len(results') = Len(results) + 1
         /\ \A i \in 1 .. Len(results) : results'[i] = results[i]
         /\ results'[Len(results) + 1].hash = h /\ results'[Len(results) + 1].is = r
         /\ \A i \in 1 .. Len(results') : i # Len(results) + 1 => i \in 1 .. Len(results)
  <1>1. results \in Seq(ResultOf) /\ Len(results) \in Nat
    BY DEF PassShape
  <1>2. /\ MkResult(h, r) \in ResultOf
        /\ MkResult(h, r).hash = h /\ MkResult(h, r).is = r
    BY DEF MkResult, ResultOf, Marks
  <1>3. /\ results' \in Seq(ResultOf) /\ Len(results') = Len(results) + 1
        /\ results'[Len(results) + 1] = MkResult(h, r)
        /\ \A i \in 1 .. Len(results) : results'[i] = results[i]
    BY <1>1, <1>2, AppendProperties
  <1>4. \A i \in 1 .. Len(results') : i # Len(results) + 1 => i \in 1 .. Len(results)
    BY <1>1, <1>3
  <1> QED BY <1>1, <1>2, <1>3, <1>4

\* What happens outside the channels and the records of a pass.
LEMMA RestStays ==
  ASSUME PassInv, found' = found, fed' = fed, fetcher' = fetcher, results' = results,
         got' = got, stop' = stop, mode' = mode, seriesVars' = seriesVars
  PROVE  StopSound' /\ Handed' /\ Apart' /\ NoneLost' /\ Kept' /\ Honest'
  <1>1. unique' = unique /\ Fed' = Fed
    BY UniqueStays, FedStays
  <1>2. StopSound'
    BY DEF PassInv, StopSound, Errors
  <1>3. Handed' /\ Apart' /\ NoneLost'
    BY <1>1 DEF PassInv, Handed, Apart, NoneLost
  <1>4. Kept'
    BY DEF PassInv, Kept, seriesVars
  <1>5. Honest'
    BY <1>1 DEF PassInv, Honest, Behind
  <1> QED BY <1>2, <1>3, <1>4, <1>5

\* The verdict stands once it is given, and there is none before.
LEMMA VerdictStays ==
  ASSUME Settled, answer' = answer, found' = found, answer = "none" \/ got' = got
  PROVE  Settled'
  <1>1. CASE answer = "none"
    <2>1. answer' # "series" /\ answer' \notin Hashes
      BY <1>1, FetchAssumption
    <2> QED BY <1>1, <2>1 DEF Settled, PassVerdict
  <1>2. CASE got' = got
    <2>1. unique' = unique
      BY UniqueStays
    <2> QED BY <1>2, <2>1 DEF Settled, PassVerdict, Range
  <1> QED BY <1>1, <1>2

LEMMA FeedKeeps ==
  ASSUME PassInv, NEW f \in Fetchers, Feed(f)
  PROVE  PassInv'
  <1>1. /\ fed <= Len(unique) /\ fetcher[f] = Idle
        /\ fetcher' = [fetcher EXCEPT ![f] = unique[fed]] /\ fed' = fed + 1
        /\ found' = found /\ bad' = bad /\ mode' = mode
        /\ series' = series /\ fetched' = fetched /\ unwritten' = unwritten
        /\ feedOpen' = feedOpen /\ results' = results /\ got' = got /\ stop' = stop
        /\ ctxDone' = ctxDone /\ answer' = answer
    BY DEF Feed, given, seriesVars
  <1>2. PassShape /\ StopSound /\ Handed /\ Apart /\ NoneLost /\ Kept /\ Honest /\ Settled
    BY DEF PassInv
  <1>3. /\ unique[fed] \in Hashes /\ unique[fed] \notin Fed /\ fed \in 1 .. Len(unique)
        /\ got[unique[fed]] = "none"
        /\ \A g \in Fetchers : fetcher[g] # unique[fed]
        /\ \A i \in 1 .. Len(results) : results[i].hash # unique[fed]
    BY <1>1, <1>2, NextIsNew
  <1>4. unique' = unique /\ Fed' = Fed \cup {unique[fed]}
    BY <1>1, <1>2, UniqueStays, FedGrows
  <1>5. /\ fetcher' \in [Fetchers -> Hashes \cup {Idle, Exited}]
        /\ fetcher'[f] = unique[fed] /\ \A g \in Fetchers : g # f => fetcher'[g] = fetcher[g]
    BY <1>1, <1>2, <1>3 DEF PassShape
  <1>6. PassShape'
    <2>1. fed' \in 1 .. Len(unique') + 1
      BY <1>1, <1>2, <1>3, <1>4, UniqueFacts
    <2> QED BY <1>1, <1>2, <1>5, <2>1 DEF PassShape
  <1>7. StopSound'
    BY <1>1, <1>2 DEF StopSound, Errors
  <1>8. Handed'
    BY <1>1, <1>2, <1>3, <1>4, <1>5 DEF Handed
  <1>9. Apart'
    BY <1>1, <1>2, <1>3, <1>5 DEF Apart
  <1>10. NoneLost'
    <2>1. Idle \notin Hashes /\ \A h \in Fed : h \in Hashes
      BY <1>2, UniqueFacts, FetchAssumption
    <2>2. ASSUME NEW h \in Fed, NEW g \in Fetchers, fetcher[g] = h PROVE fetcher'[g] = h
      BY <1>1, <1>5, <2>1, <2>2
    <2>3. ASSUME NEW h \in Fed'
          PROVE  \/ got'[h] # "none" \/ \E g \in Fetchers : fetcher'[g] = h
                 \/ \E i \in 1 .. Len(results') : results'[i].hash = h
      BY <1>1, <1>2, <1>4, <1>5, <2>2 DEF NoneLost
    <2> QED BY <2>3 DEF NoneLost
  <1>11. Kept'
    <2>1. Idle \notin Hashes /\ \A h \in fetched : h \in Hashes
      BY <1>2, FetchAssumption DEF PassShape
    <2>2. ASSUME NEW h \in fetched, NEW g \in Fetchers, fetcher[g] = h PROVE fetcher'[g] = h
      BY <1>1, <1>5, <2>1, <2>2
    <2> QED BY <1>1, <1>2, <2>2 DEF Kept
  <1>12. Honest'
    BY <1>1, <1>2, <1>4 DEF Honest, Behind
  <1>13. Settled'
    BY <1>1, <1>2, VerdictStays
  <1> QED BY <1>6, <1>7, <1>8, <1>9, <1>10, <1>11, <1>12, <1>13 DEF PassInv

\* A fetcher reports an outcome and is free again.
LEMMA DeliverKeeps ==
  ASSUME PassInv, NEW f \in Fetchers, NEW r \in {"ok", "failed", "cancelled"},
         fetcher[f] \in Hashes, Delivers(f, r),
         UNCHANGED <<given, fed, feedOpen, got, stop, ctxDone, answer>>,
         series' \subseteq Hashes, unwritten' \subseteq fetched', fetched' \subseteq Hashes
  PROVE  /\ PassShape' /\ StopSound' /\ Handed' /\ Apart' /\ NoneLost' /\ Honest' /\ Settled'
         /\ \A g \in Fetchers : g # f => fetcher'[g] = fetcher[g]
  <1> DEFINE h == fetcher[f]
  <1>1. PassShape /\ StopSound /\ Handed /\ Apart /\ NoneLost /\ Kept /\ Honest /\ Settled
    BY DEF PassInv
  <1>2. /\ h \in Hashes /\ fetcher' = [fetcher EXCEPT ![f] = Idle]
        /\ found' = found /\ bad' = bad /\ mode' = mode /\ fed' = fed
        /\ feedOpen' = feedOpen /\ got' = got /\ stop' = stop
        /\ ctxDone' = ctxDone /\ answer' = answer
    BY DEF Delivers, given
  <1>3. results' = Append(results, MkResult(h, r))
    BY DEF Delivers
  <1>4. series' \subseteq Hashes /\ unwritten' \subseteq fetched' /\ fetched' \subseteq Hashes
    OBVIOUS
  <1> HIDE DEF h
  <1>5. /\ results' \in Seq(ResultOf) /\ Len(results) \in Nat /\ Len(results') = Len(results) + 1
        /\ \A i \in 1 .. Len(results) : results'[i] = results[i]
        /\ results'[Len(results) + 1].hash = h /\ results'[Len(results) + 1].is = r
        /\ \A i \in 1 .. Len(results') : i # Len(results) + 1 => i \in 1 .. Len(results)
    <2>1. r \in Marks
      BY DEF Marks
    <2> QED BY <1>1, <1>2, <1>3, <2>1, Reports
  <1>6. /\ fetcher' \in [Fetchers -> Hashes \cup {Idle, Exited}]
        /\ fetcher'[f] = Idle /\ \A g \in Fetchers : g # f => fetcher'[g] = fetcher[g]
    BY <1>1, <1>2 DEF PassShape
  <1>7. Idle \notin Hashes
    BY FetchAssumption
  <1>8. unique' = unique /\ Fed' = Fed
    BY <1>2, UniqueStays, FedStays
  <1>9. h \in Fed /\ got[h] = "none" /\ \A i \in 1 .. Len(results) : results[i].hash # h
    BY <1>1, <1>2 DEF Handed, Apart, h
  <1>10. PassShape'
    BY <1>1, <1>2, <1>4, <1>5, <1>6, <1>8 DEF PassShape
  <1>11. StopSound'
    BY <1>1, <1>2 DEF StopSound, Errors
  <1>12. Handed'
    <2>1. ASSUME NEW i \in 1 .. Len(results') PROVE results'[i].hash \in Fed /\ got[results'[i].hash] = "none"
      BY <1>1, <1>5, <1>9 DEF Handed
    <2> QED BY <1>1, <1>2, <1>6, <1>7, <1>8, <2>1 DEF Handed
  <1>13. Apart'
    <2>1. ASSUME NEW i \in 1 .. Len(results'), NEW j \in 1 .. Len(results'), results'[i].hash = results'[j].hash
          PROVE  i = j
      BY <1>1, <1>5, <1>9, <2>1 DEF Apart
    <2>2. ASSUME NEW g \in Fetchers, NEW i \in 1 .. Len(results') PROVE fetcher'[g] # results'[i].hash
      <3>1. results'[i].hash \in Hashes
        <4>1. results'[i] \in ResultOf
          BY <1>5, ElementOfSeq
        <4> QED BY <4>1 DEF ResultOf
      <3>2. CASE g = f
        BY <1>6, <1>7, <3>1, <3>2
      <3>3. CASE g # f
        BY <1>1, <1>2, <1>5, <1>6, <3>3 DEF Apart, h
      <3> QED BY <3>2, <3>3
    <2>3. ASSUME NEW g \in Fetchers, NEW k \in Fetchers, fetcher'[g] = fetcher'[k], fetcher'[g] \in Hashes
          PROVE  g = k
      BY <1>1, <1>6, <1>7, <2>3 DEF Apart
    <2> QED BY <2>1, <2>2, <2>3 DEF Apart
  <1>14. NoneLost'
    <2>1. ASSUME NEW x \in Fed
          PROVE  \/ got[x] # "none" \/ \E g \in Fetchers : fetcher'[g] = x
                 \/ \E i \in 1 .. Len(results') : results'[i].hash = x
      <3>1. CASE x = h
        <4>1. Len(results) + 1 \in 1 .. Len(results')
          BY <1>5
        <4> QED BY <1>5, <3>1, <4>1
      <3>2. CASE x # h /\ \E g \in Fetchers : fetcher[g] = x
        BY <1>6, <3>2 DEF h
      <3>3. CASE \E i \in 1 .. Len(results) : results[i].hash = x
        <4>1. \A i \in 1 .. Len(results) : i \in 1 .. Len(results')
          BY <1>5
        <4> QED BY <1>5, <3>3, <4>1
      <3> QED BY <1>1, <3>1, <3>2, <3>3 DEF NoneLost
    <2> QED BY <1>2, <1>8, <2>1 DEF NoneLost
  <1>16. Honest'
    <2>1. \A x : Behind(x)' <=> Behind(x)
      BY <1>2, <1>8 DEF Behind
    <2>2. ASSUME NEW i \in 1 .. Len(results'), results'[i].is = "skipped" PROVE Behind(results'[i].hash)
      BY <1>1, <1>5, <2>2 DEF Honest
    <2>3. ASSUME NEW i \in 1 .. Len(results')
          PROVE  (results[i].is = "skipped" => Behind(results[i].hash))'
      BY <2>1, <2>2
    <2>4. ASSUME NEW x \in Hashes PROVE got'[x] = "skipped" => Behind(x)'
      BY <1>1, <1>2, <2>1 DEF Honest
    <2> QED BY <2>3, <2>4 DEF Honest
  <1>17. Settled'
    BY <1>1, <1>2, VerdictStays
  <1> QED BY <1>6, <1>10, <1>11, <1>12, <1>13, <1>14, <1>16, <1>17

\* A call ends: its outcome is reported, or its body is to be written.
LEMMA FetchOneKeeps ==
  ASSUME PassInv, NEW f \in Fetchers, FetchOne(f)
  PROVE  PassInv'
  <1>1. /\ fetcher[f] \in Hashes /\ fetcher[f] \notin fetched
        /\ UNCHANGED <<given, fed, feedOpen, got, stop, ctxDone, answer>>
        /\ found' = found /\ bad' = bad /\ mode' = mode /\ fed' = fed
        /\ feedOpen' = feedOpen /\ got' = got /\ stop' = stop /\ ctxDone' = ctxDone
        /\ answer' = answer /\ series' = series /\ unwritten' = unwritten
    BY DEF FetchOne, given
  <1>2. PassShape /\ StopSound /\ Handed /\ Apart /\ NoneLost /\ Kept /\ Honest /\ Settled
    BY DEF PassInv
  <1>3. series \subseteq Hashes /\ unwritten \subseteq fetched /\ fetched \subseteq Hashes
    BY <1>2 DEF PassShape
  <1>4. ASSUME NEW r \in {"ok", "failed", "cancelled"}, Delivers(f, r), fetched' = fetched
        PROVE  PassInv'
    <2>1. series' \subseteq Hashes /\ unwritten' \subseteq fetched' /\ fetched' \subseteq Hashes
      BY <1>1, <1>3, <1>4
    <2>2. /\ PassShape' /\ StopSound' /\ Handed' /\ Apart' /\ NoneLost' /\ Honest' /\ Settled'
          /\ \A g \in Fetchers : g # f => fetcher'[g] = fetcher[g]
      BY <1>1, <1>4, <2>1, DeliverKeeps
    <2>3. Kept'
      BY <1>1, <1>2, <1>4, <2>2 DEF Kept
    <2> QED BY <2>2, <2>3 DEF PassInv
  <1>5. CASE /\ fetched' = fetched \cup {fetcher[f]} /\ fetcher' = fetcher /\ results' = results
    <2>1. unique' = unique /\ Fed' = Fed
      BY <1>1, UniqueStays, FedStays
    <2>2. PassShape'
      BY <1>1, <1>2, <1>5, <2>1 DEF PassShape
    <2>3. StopSound'
      BY <1>1, <1>2 DEF StopSound, Errors
    <2>4. Handed' /\ Apart' /\ NoneLost'
      BY <1>1, <1>2, <1>5, <2>1 DEF Handed, Apart, NoneLost
    <2>5. Kept'
      BY <1>1, <1>2, <1>5 DEF Kept
    <2>6. Honest'
      BY <1>1, <1>2, <1>5, <2>1 DEF Honest, Behind
    <2>7. Settled'
      BY <1>1, <1>2, VerdictStays
    <2> QED BY <2>2, <2>3, <2>4, <2>5, <2>6, <2>7 DEF PassInv
  <1> QED BY <1>4, <1>5 DEF FetchOne

\* The body is written, or lost, and reported.
LEMMA StoreKeeps ==
  ASSUME PassInv, NEW f \in Fetchers, Store(f)
  PROVE  PassInv'
  <1>1. PassShape /\ Kept /\ series \subseteq Hashes /\ unwritten \subseteq fetched /\ fetched \subseteq Hashes
    BY DEF PassInv, PassShape
  <1>2. /\ fetcher[f] \in fetched /\ fetched' = fetched /\ mode' = mode
        /\ PutSeries(fetcher[f]) /\ Delivers(f, "ok")
        /\ UNCHANGED <<given, fed, feedOpen, got, stop, ctxDone, answer>>
    BY DEF Store, given
  <1>3. /\ series \subseteq series' /\ series' \subseteq Hashes
        /\ unwritten \subseteq unwritten' /\ unwritten' \subseteq fetched
        /\ mode # "bypass" => fetcher[f] \in series' \cup unwritten'
    BY <1>1, <1>2 DEF PutSeries
  <1>4. /\ PassShape' /\ StopSound' /\ Handed' /\ Apart' /\ NoneLost' /\ Honest' /\ Settled'
        /\ \A g \in Fetchers : g # f => fetcher'[g] = fetcher[g]
    <2>1. fetcher[f] \in Hashes
      BY <1>1, <1>2
    <2> QED BY <1>1, <1>2, <1>3, <2>1, DeliverKeeps
  <1>5. Kept'
    BY <1>1, <1>2, <1>3, <1>4 DEF Kept
  <1> QED BY <1>4, <1>5 DEF PassInv

\* The feeder reports a resolvent instead of feeding it.
LEMMA SkipKeeps ==
  ASSUME PassInv, Skip
  PROVE  PassInv'
  <1> DEFINE h == unique[fed]
  <1>1. PassShape /\ StopSound /\ Handed /\ Apart /\ NoneLost /\ Kept /\ Honest /\ Settled
    BY DEF PassInv
  <1>2. /\ fed <= Len(unique) /\ fed' = fed + 1 /\ fetcher' = fetcher
        /\ found' = found /\ bad' = bad /\ mode' = mode
        /\ series' = series /\ fetched' = fetched /\ unwritten' = unwritten
        /\ feedOpen' = feedOpen /\ got' = got /\ stop' = stop
        /\ ctxDone' = ctxDone /\ answer' = answer
    BY DEF Skip, given, seriesVars
  <1>3. PICK r \in {"skipped", "cancelled"} :
          /\ results' = Append(results, MkResult(h, r))
          /\ r = "skipped" => stop
    BY DEF Skip, Skips
  <1>4. /\ h \in Hashes /\ h \notin Fed /\ fed \in 1 .. Len(unique) /\ got[h] = "none"
        /\ \A g \in Fetchers : fetcher[g] # h
        /\ \A i \in 1 .. Len(results) : results[i].hash # h
    BY <1>1, <1>2, NextIsNew
  <1>5. unique' = unique /\ Fed' = Fed \cup {h}
    BY <1>1, <1>2, UniqueStays, FedGrows
  <1>6. ASSUME stop PROVE Behind(h)
    <2>1. PICK x \in Hashes : got[x] \in Errors
      BY <1>1, <1>6 DEF StopSound
    <2>2. (got[x] = "failed" \/ got[x] = "cancelled") \/ Behind(x)
      BY <1>1, <2>1 DEF Honest, Errors
    <2>3. x \in Fed
      BY <1>1, <2>1 DEF Handed, Errors
    <2>4. PICK k \in 1 .. Len(unique) : k < fed /\ unique[k] = x
      BY <1>1, <2>3, UniqueFacts
    <2>5. PICK m \in 1 .. fed - 1 : got[unique[m]] = "failed" \/ got[unique[m]] = "cancelled"
      <3>1. CASE got[x] = "failed" \/ got[x] = "cancelled"
        <4>1. k \in 1 .. fed - 1
          BY <1>4, <2>4
        <4> QED BY <2>4, <3>1, <4>1
      <3>2. CASE Behind(x)
        <4>1. PICK m \in 1 .. k - 1 : got[unique[m]] = "failed" \/ got[unique[m]] = "cancelled"
          BY <2>4, <3>2 DEF Behind
        <4>2. m \in 1 .. fed - 1
          BY <1>4, <2>4
        <4> QED BY <4>1, <4>2
      <3> QED BY <2>2, <3>1, <3>2
    <2>6. ASSUME NEW j \in 1 .. Len(unique), unique[j] = h PROVE j = fed
      BY <1>1, <1>4, <2>6, UniqueFacts
    <2> QED BY <2>5, <2>6 DEF Behind
  <1> HIDE DEF h
  <1>7. /\ results' \in Seq(ResultOf) /\ Len(results) \in Nat /\ Len(results') = Len(results) + 1
        /\ \A i \in 1 .. Len(results) : results'[i] = results[i]
        /\ results'[Len(results) + 1].hash = h /\ results'[Len(results) + 1].is = r
        /\ \A i \in 1 .. Len(results') : i # Len(results) + 1 => i \in 1 .. Len(results)
    <2>1. r \in Marks
      BY DEF Marks
    <2> QED BY <1>1, <1>3, <1>4, <2>1, Reports
  <1>8. PassShape'
    <2>1. fed' \in 1 .. Len(unique') + 1
      BY <1>1, <1>2, <1>4, <1>5, UniqueFacts
    <2> QED BY <1>1, <1>2, <1>7, <2>1 DEF PassShape
  <1>9. StopSound'
    BY <1>1, <1>2 DEF StopSound, Errors
  <1>10. Handed'
    <2>1. ASSUME NEW i \in 1 .. Len(results') PROVE results'[i].hash \in Fed' /\ got[results'[i].hash] = "none"
      BY <1>1, <1>4, <1>5, <1>7 DEF Handed
    <2> QED BY <1>1, <1>2, <1>5, <2>1 DEF Handed
  <1>11. Apart'
    <2>1. ASSUME NEW i \in 1 .. Len(results'), NEW j \in 1 .. Len(results'), results'[i].hash = results'[j].hash
          PROVE  i = j
      BY <1>1, <1>4, <1>7, <2>1 DEF Apart
    <2>2. ASSUME NEW g \in Fetchers, NEW i \in 1 .. Len(results') PROVE fetcher[g] # results'[i].hash
      BY <1>1, <1>4, <1>7 DEF Apart
    <2> QED BY <1>1, <1>2, <2>1, <2>2 DEF Apart
  <1>12. NoneLost'
    <2>1. ASSUME NEW x \in Fed'
          PROVE  \/ got[x] # "none" \/ \E g \in Fetchers : fetcher[g] = x
                 \/ \E i \in 1 .. Len(results') : results'[i].hash = x
      <3>1. CASE x = h
        <4>1. Len(results) + 1 \in 1 .. Len(results')
          BY <1>7
        <4> QED BY <1>7, <3>1, <4>1
      <3>2. CASE x # h
        <4>1. \A i \in 1 .. Len(results) : i \in 1 .. Len(results') /\ results'[i] = results[i]
          BY <1>7
        <4> QED BY <1>1, <1>5, <3>2, <4>1 DEF NoneLost
      <3> QED BY <3>1, <3>2
    <2> QED BY <1>2, <2>1 DEF NoneLost
  <1>13. Kept'
    BY <1>1, <1>2 DEF Kept
  <1>14. Honest'
    <2>1. \A x : Behind(x)' <=> Behind(x)
      BY <1>2, <1>5 DEF Behind
    <2>2. ASSUME NEW i \in 1 .. Len(results'), results'[i].is = "skipped" PROVE Behind(results'[i].hash)
      BY <1>1, <1>3, <1>6, <1>7, <2>2 DEF Honest
    <2>3. ASSUME NEW i \in 1 .. Len(results')
          PROVE  (results[i].is = "skipped" => Behind(results[i].hash))'
      BY <2>1, <2>2
    <2>4. ASSUME NEW x \in Hashes PROVE got'[x] = "skipped" => Behind(x)'
      BY <1>1, <1>2, <2>1 DEF Honest
    <2> QED BY <2>3, <2>4 DEF Honest
  <1>15. Settled'
    BY <1>1, <1>2, VerdictStays
  <1> QED BY <1>8, <1>9, <1>10, <1>11, <1>12, <1>13, <1>14, <1>15 DEF PassInv

LEMMA ExitKeeps ==
  ASSUME PassInv, NEW f \in Fetchers, Exit(f)
  PROVE  PassInv'
  <1>1. PassShape /\ StopSound /\ Handed /\ Apart /\ NoneLost /\ Kept /\ Honest /\ Settled
    BY DEF PassInv
  <1>2. /\ fetcher[f] = Idle /\ fetcher' = [fetcher EXCEPT ![f] = Exited]
        /\ found' = found /\ bad' = bad /\ mode' = mode /\ fed' = fed
        /\ series' = series /\ fetched' = fetched /\ unwritten' = unwritten
        /\ feedOpen' = feedOpen /\ results' = results /\ got' = got /\ stop' = stop
        /\ ctxDone' = ctxDone /\ answer' = answer
    BY DEF Exit, given, seriesVars
  <1>3. Idle \notin Hashes /\ Exited \notin Hashes
    BY FetchAssumption
  <1>4. /\ fetcher' \in [Fetchers -> Hashes \cup {Idle, Exited}]
        /\ fetcher'[f] = Exited /\ \A g \in Fetchers : g # f => fetcher'[g] = fetcher[g]
    BY <1>1, <1>2 DEF PassShape
  <1>5. \A g \in Fetchers : \A h \in Hashes : fetcher'[g] = h <=> fetcher[g] = h
    BY <1>2, <1>3, <1>4
  <1>6. unique' = unique /\ Fed' = Fed
    BY <1>2, UniqueStays, FedStays
  <1>7. \A i \in 1 .. Len(results) : results[i].hash \in Hashes
    BY <1>1, UniqueFacts DEF Handed
  <1>8. PassShape'
    BY <1>1, <1>2, <1>4, <1>6 DEF PassShape
  <1>9. StopSound'
    BY <1>1, <1>2 DEF StopSound, Errors
  <1>10. Handed'
    BY <1>1, <1>2, <1>5, <1>6 DEF Handed
  <1>11. Apart'
    BY <1>1, <1>2, <1>5, <1>7 DEF Apart
  <1>12. NoneLost'
    <2>1. \A h \in Fed : h \in Hashes
      BY <1>1, UniqueFacts
    <2> QED BY <1>1, <1>2, <1>5, <1>6, <2>1 DEF NoneLost
  <1>13. Kept'
    <2>1. \A h \in fetched : h \in Hashes
      BY <1>1 DEF PassShape
    <2> QED BY <1>1, <1>2, <1>5, <2>1 DEF Kept
  <1>14. Honest'
    BY <1>1, <1>2, <1>6 DEF Honest, Behind
  <1>15. Settled'
    BY <1>1, <1>2, VerdictStays
  <1> QED BY <1>8, <1>9, <1>10, <1>11, <1>12, <1>13, <1>14, <1>15 DEF PassInv

\* The feed channel is closed, the context ends, or nothing happens.
LEMMA QuietKeeps ==
  ASSUME PassInv, CloseFeed \/ CtxEnds \/ passVars' = passVars
  PROVE  PassInv'
  <1>1. /\ fetcher' = fetcher /\ found' = found /\ bad' = bad /\ mode' = mode
        /\ seriesVars' = seriesVars
        /\ fed' = fed /\ results' = results /\ got' = got /\ stop' = stop /\ answer' = answer
    BY DEF CloseFeed, CtxEnds, passVars, given, seriesVars
  <1>2. feedOpen' \in BOOLEAN /\ ctxDone' \in BOOLEAN
    BY DEF CloseFeed, CtxEnds, passVars, given, PassInv, PassShape
  <1>3. PassShape'
    <2>1. unique' = unique
      BY <1>1, UniqueStays
    <2> QED BY <1>1, <1>2, <2>1 DEF PassInv, PassShape, seriesVars
  <1>4. StopSound' /\ Handed' /\ Apart' /\ NoneLost' /\ Kept' /\ Honest'
    BY <1>1, RestStays
  <1>5. Settled'
    BY <1>1, VerdictStays DEF PassInv
  <1> QED BY <1>3, <1>4, <1>5 DEF PassInv

\* The collector takes the oldest result out of the channel.
LEMMA CollectKeeps ==
  ASSUME PassInv, Collect
  PROVE  PassInv'
  <1> DEFINE h == results[1].hash
             r == results[1].is
  <1>1. PassShape /\ StopSound /\ Handed /\ Apart /\ NoneLost /\ Kept /\ Honest /\ Settled
    BY DEF PassInv
  <1>2. results \in Seq(ResultOf) /\ results # <<>> /\ Len(results) \in Nat \ {0}
    BY <1>1 DEF PassShape, Collect
  <1>3. Head(results) = results[1] /\ results[1] \in ResultOf /\ 1 \in 1 .. Len(results)
    <2>1. 1 \in 1 .. Len(results)
      BY <1>2
    <2> QED BY <1>2, <2>1, ElementOfSeq
  <1>4. h \in Hashes /\ r \in Marks
    BY <1>3 DEF ResultOf, Marks
  <1>5. /\ answer = "none" /\ got' = [got EXCEPT ![h] = r]
        /\ stop' = (stop \/ r \in Errors) /\ results' = Tail(results)
        /\ fetcher' = fetcher /\ found' = found /\ bad' = bad /\ mode' = mode
        /\ series' = series /\ fetched' = fetched /\ unwritten' = unwritten
        /\ fed' = fed /\ feedOpen' = feedOpen /\ ctxDone' = ctxDone /\ answer' = answer
    BY <1>3 DEF Collect, Stops, given, seriesVars
  <1>6. h \in Fed /\ got[h] = "none" /\ \A g \in Fetchers : fetcher[g] # h
    BY <1>1, <1>3 DEF Handed, Apart
  <1>7. /\ results' \in Seq(ResultOf) /\ Len(results') = Len(results) - 1
        /\ \A i \in 1 .. Len(results') : results'[i] = results[i + 1]
    BY <1>2, <1>5, HeadTailProperties
  <1>8. \A i \in 1 .. Len(results') : i + 1 \in 1 .. Len(results) /\ results[i + 1].hash # h
    <2>1. ASSUME NEW i \in 1 .. Len(results') PROVE i + 1 \in 1 .. Len(results) /\ i + 1 # 1
      BY <1>2, <1>7
    <2> QED BY <1>1, <1>3, <2>1 DEF Apart
  <1>9. r \in {"failed", "skipped", "cancelled", "ok"} /\ r # "none"
        /\ (r = "skipped" => Behind(h))
    BY <1>1, <1>3, <1>4 DEF Marks, Honest
  <1> HIDE DEF h, r
  <1>10. /\ got' \in [Hashes -> Marks \cup {"none"}]
         /\ got'[h] = r /\ \A x \in Hashes : x # h => got'[x] = got[x]
    BY <1>1, <1>4, <1>5 DEF PassShape
  <1>11. unique' = unique /\ Fed' = Fed
    BY <1>5, UniqueStays, FedStays
  <1>12. PassShape'
    BY <1>1, <1>5, <1>7, <1>10, <1>11 DEF PassShape
  <1>13. StopSound'
    <2>1. stop \in BOOLEAN /\ (stop <=> \E x \in Hashes : got[x] \in Errors)
      BY <1>1 DEF StopSound
    <2>2. (\E x \in Hashes : got'[x] \in Errors)
            <=> (r \in Errors \/ \E x \in Hashes : got[x] \in Errors)
      <3>1. ~(got[h] \in Errors)
        BY <1>6 DEF Errors
      <3> QED BY <1>4, <1>10, <3>1
    <2>3. stop' \in BOOLEAN /\ (stop' <=> stop \/ r \in Errors)
      BY <1>5, <2>1
    <2>4. stop' <=> \E x \in Hashes : got'[x] \in Errors
      BY <2>1, <2>2, <2>3
    <2> QED BY <2>3, <2>4 DEF StopSound, Errors
  <1>14. Handed'
    <2>1. ASSUME NEW f \in Fetchers, fetcher[f] \in Hashes PROVE fetcher[f] \in Fed /\ got'[fetcher[f]] = "none"
      BY <1>1, <1>6, <1>10, <2>1 DEF Handed
    <2>2. ASSUME NEW i \in 1 .. Len(results') PROVE results'[i].hash \in Fed /\ got'[results'[i].hash] = "none"
      <3>1. results'[i] = results[i + 1] /\ i + 1 \in 1 .. Len(results) /\ results[i + 1].hash # h
        BY <1>7, <1>8
      <3>2. results[i + 1].hash \in Fed /\ got[results[i + 1].hash] = "none"
        BY <1>1, <3>1 DEF Handed
      <3>3. results[i + 1].hash \in Hashes
        BY <1>1, <3>2, UniqueFacts
      <3> QED BY <1>10, <3>1, <3>2, <3>3
    <2>3. ASSUME NEW x \in Hashes, got'[x] # "none" PROVE x \in Fed
      BY <1>1, <1>6, <1>10, <2>3 DEF Handed
    <2> QED BY <1>5, <1>11, <2>1, <2>2, <2>3 DEF Handed
  <1>15. Apart'
    <2>1. ASSUME NEW i \in 1 .. Len(results'), NEW j \in 1 .. Len(results'), results'[i].hash = results'[j].hash
          PROVE  i = j
      <3>1. i + 1 = j + 1
        BY <1>1, <1>7, <1>8, <2>1 DEF Apart
      <3> QED BY <3>1
    <2>2. ASSUME NEW g \in Fetchers, NEW i \in 1 .. Len(results') PROVE fetcher[g] # results'[i].hash
      BY <1>1, <1>7, <1>8 DEF Apart
    <2> QED BY <1>1, <1>5, <2>1, <2>2 DEF Apart
  <1>16. NoneLost'
    <2>1. ASSUME NEW x \in Fed
          PROVE  \/ got'[x] # "none" \/ \E g \in Fetchers : fetcher[g] = x
                 \/ \E i \in 1 .. Len(results') : results'[i].hash = x
      <3>1. x \in Hashes
        BY <1>1, UniqueFacts
      <3>2. CASE x = h
        BY <1>9, <1>10, <3>2
      <3>3. CASE x # h /\ got[x] # "none"
        BY <1>10, <3>1, <3>3
      <3>4. CASE x # h /\ \E i \in 1 .. Len(results) : results[i].hash = x
        <4>1. PICK i \in 1 .. Len(results) : results[i].hash = x
          BY <3>4
        <4>2. i # 1
          BY <3>4, <4>1 DEF h
        <4>3. i - 1 \in 1 .. Len(results') /\ (i - 1) + 1 = i
          BY <1>2, <1>7, <4>2
        <4>4. results'[i - 1] = results[i]
          BY <1>7, <4>3
        <4> QED BY <4>1, <4>3, <4>4
      <3> QED BY <1>1, <3>2, <3>3, <3>4 DEF NoneLost
    <2> QED BY <1>5, <1>11, <2>1 DEF NoneLost
  <1>17. Kept'
    BY <1>1, <1>5 DEF Kept
  <1>18. Honest'
    <2>1. ASSUME NEW x, Behind(x) PROVE Behind(x)'
      <3>1. ASSUME NEW k \in 1 .. Len(unique), unique[k] = x
            PROVE  \E m \in 1 .. k - 1 : got'[unique[m]] = "failed" \/ got'[unique[m]] = "cancelled"
        <4>1. PICK m \in 1 .. k - 1 : got[unique[m]] = "failed" \/ got[unique[m]] = "cancelled"
          BY <2>1, <3>1 DEF Behind
        <4>2. m \in 1 .. Len(unique)
          BY <1>1, UniqueFacts
        <4>3. unique[m] \in Hashes /\ unique[m] # h
          BY <1>1, <1>6, <4>1, <4>2, UniqueFacts
        <4> QED BY <1>10, <4>1, <4>3
      <3> QED BY <1>11, <3>1 DEF Behind
    <2>2. ASSUME NEW i \in 1 .. Len(results'), results'[i].is = "skipped" PROVE Behind(results'[i].hash)
      BY <1>1, <1>7, <1>8, <2>2 DEF Honest
    <2>3. ASSUME NEW i \in 1 .. Len(results')
          PROVE  (results[i].is = "skipped" => Behind(results[i].hash))'
      BY <2>1, <2>2
    <2>4. ASSUME NEW x \in Hashes, got'[x] = "skipped" PROVE Behind(x)
      BY <1>1, <1>9, <1>10, <2>4 DEF Honest
    <2>5. ASSUME NEW x \in Hashes PROVE got'[x] = "skipped" => Behind(x)'
      BY <2>1, <2>4
    <2> QED BY <2>3, <2>5 DEF Honest
  <1>19. Settled'
    BY <1>1, <1>5, VerdictStays
  <1> QED BY <1>12, <1>13, <1>14, <1>15, <1>16, <1>17, <1>18, <1>19 DEF PassInv

\* The unique resolvents, counted.
LEMMA CountUnique ==
  ASSUME PassShape
  PROVE  LET R == {unique[k] : k \in 1 .. Len(unique)}
         IN IsFiniteSet(R) /\ Cardinality(R) = Len(unique) /\ Fed \subseteq R
  <1> DEFINE R == {unique[k] : k \in 1 .. Len(unique)}
             u == [k \in 1 .. Len(unique) |-> unique[k]]
  <1>1. Len(unique) \in Nat /\ \A k, m \in 1 .. Len(unique) : unique[k] = unique[m] => k = m
    BY UniqueFacts
  <1>2. IsFiniteSet(1 .. Len(unique)) /\ Cardinality(1 .. Len(unique)) = Len(unique)
    <2>1. ASSUME NEW m \in Nat PROVE IsFiniteSet(1 .. m) /\ Cardinality(1 .. m) = m
      BY FS_Interval
    <2> QED BY <1>1, <2>1
  <1>3. u \in Bijection(1 .. Len(unique), R)
    <2>1. u \in [1 .. Len(unique) -> R]
      OBVIOUS
    <2>2. \A k, m \in 1 .. Len(unique) : u[k] = u[m] => k = m
      BY <1>1
    <2>3. \A x \in R : \E k \in 1 .. Len(unique) : u[k] = x
      OBVIOUS
    <2> HIDE DEF u, R
    <2> QED BY <2>1, <2>2, <2>3 DEF Bijection, Injection, Surjection, IsInjective
  <1>4. IsFiniteSet(R) /\ Cardinality(R) = Len(unique)
    <2> HIDE DEF u, R
    <2> QED BY <1>2, <1>3, FS_Bijection DEF ExistsBijection
  <1>5. \A x \in Fed : x \in R
    BY UniqueFacts
  <1> HIDE DEF R
  <1>6. IsFiniteSet(R) /\ Cardinality(R) = Len(unique) /\ Fed \subseteq R
    BY <1>4, <1>5
  <1> QED BY <1>6 DEF R

\* A drained pass has a result for every resolvent.
LEMMA DrainedIs ==
  ASSUME PassShape, Handed, Drained
  PROVE  \A k \in 1 .. Len(unique) : got[unique[k]] # "none"
  <1> DEFINE R == {unique[k] : k \in 1 .. Len(unique)}
             C == {h \in Hashes : got[h] # "none"}
  <1>1. IsFiniteSet(R) /\ Cardinality(R) = Len(unique) /\ Fed \subseteq R
    BY CountUnique
  <1>2. C \in SUBSET R
    BY <1>1 DEF Handed
  <1>3. Cardinality(C) = Len(unique)
    BY DEF Drained, Collected
  <1>4. C = R
    <2> HIDE DEF C, R
    <2> QED BY <1>1, <1>2, <1>3, FS_Subset
  <1>5. \A k \in 1 .. Len(unique) : unique[k] \in C
    BY <1>4
  <1> QED BY <1>5

\* The error a pass names: that of the first failing resolvent, if any failed.
LEMMA PickIs ==
  ASSUME PassShape, NEW x \in 1 .. Len(unique), got[unique[x]] \in Errors
  PROVE  \E k \in 1 .. Len(unique) :
           /\ PickResolveError(got) = unique[k] /\ got[unique[k]] \in Errors
           /\ \A m \in 1 .. Len(unique) : got[unique[m]] = "failed" => k <= m /\ got[unique[k]] = "failed"
           /\ got[unique[k]] # "failed" => \A m \in 1 .. Len(unique) : got[unique[m]] \in Errors => k <= m
  <1> DEFINE errors == {i \in 1 .. Len(unique) : got[unique[i]] \in Errors}
             genuine == {i \in errors : got[unique[i]] \in Genuine}
             picked == IF genuine # {} THEN genuine ELSE errors
  <1>1. Len(unique) \in Nat
    BY UniqueFacts
  <1>2. PickResolveError(got) = unique[Min(picked)]
    BY DEF PickResolveError
  <1>3. picked \subseteq 1 .. Len(unique) /\ picked # {} /\ picked \subseteq Nat
    BY <1>1
  <1>4. genuine = {i \in 1 .. Len(unique) : got[unique[i]] = "failed"}
    BY DEF Genuine, Errors
  <1>5. Min(picked) \in picked /\ \A y \in picked : Min(picked) <= y
    <2> HIDE DEF picked
    <2>1. \E z \in picked : \A y \in picked : z <= y
      BY <1>3, SmallestMember
    <2> QED BY <2>1 DEF Min
  <1>6. ASSUME NEW m \in 1 .. Len(unique), got[unique[m]] = "failed"
        PROVE  Min(picked) <= m /\ got[unique[Min(picked)]] = "failed"
    <2>1. m \in genuine /\ picked = genuine
      BY <1>4, <1>6
    <2> HIDE DEF picked, genuine
    <2> QED BY <1>4, <1>5, <2>1
  <1>7. ASSUME got[unique[Min(picked)]] # "failed", NEW m \in 1 .. Len(unique), got[unique[m]] \in Errors
        PROVE  Min(picked) <= m
    <2>1. genuine = {}
      <3>1. Min(picked) \notin genuine
        BY <1>4, <1>7
      <3> HIDE DEF genuine
      <3> QED BY <1>5, <3>1
    <2>2. m \in errors /\ picked = errors
      BY <1>7, <2>1
    <2> HIDE DEF picked, errors
    <2> QED BY <1>5, <2>2
  <1>8. got[unique[Min(picked)]] \in Errors
    BY <1>5
  <1> HIDE DEF picked
  <1> QED BY <1>2, <1>3, <1>5, <1>6, <1>7, <1>8

LEMMA ReturnKeeps ==
  ASSUME PassInv, Return
  PROVE  PassInv'
  <1>1. PassShape /\ StopSound /\ Handed /\ Apart /\ NoneLost /\ Kept /\ Honest
    BY DEF PassInv
  <1>2. /\ Drained
        /\ fetcher' = fetcher /\ found' = found /\ bad' = bad /\ mode' = mode
        /\ seriesVars' = seriesVars
        /\ fed' = fed /\ feedOpen' = feedOpen /\ results' = results /\ got' = got /\ stop' = stop
        /\ ctxDone' = ctxDone
        /\ answer' = IF \E h \in Hashes : got[h] \in Errors
                     THEN PickResolveError(got) ELSE "series"
    BY DEF Return, Reported, given
  <1>3. \A k \in 1 .. Len(unique) : got[unique[k]] # "none" /\ unique[k] \in Hashes
    BY <1>1, <1>2, DrainedIs, UniqueFacts
  <1>4. /\ "series" \notin Hashes
        /\ \A h \in Hashes : got[h] \in Errors \cup {"ok", "none"}
    BY <1>1, FetchAssumption DEF PassShape, Marks, Errors
  <1>5. unique' = unique
    BY <1>2, UniqueStays
  <1>6. StopSound' /\ Handed' /\ Apart' /\ NoneLost' /\ Kept' /\ Honest'
    BY <1>2, RestStays
  <1>7. CASE \E h \in Hashes : got[h] \in Errors
    <2>1. PICK h \in Hashes : got[h] \in Errors
      BY <1>7
    <2>2. h \in Fed
      BY <1>1, <2>1 DEF Handed, Errors
    <2>3. PICK x \in 1 .. Len(unique) : unique[x] = h
      BY <1>1, <2>2, UniqueFacts
    <2>4. PICK k \in 1 .. Len(unique) :
            /\ PickResolveError(got) = unique[k] /\ got[unique[k]] \in Errors
            /\ \A m \in 1 .. Len(unique) : got[unique[m]] = "failed" => k <= m /\ got[unique[k]] = "failed"
            /\ got[unique[k]] # "failed" => \A m \in 1 .. Len(unique) : got[unique[m]] \in Errors => k <= m
      BY <1>1, <2>1, <2>3, PickIs
    <2>5. answer' = unique[k] /\ answer' \in Hashes
      BY <1>2, <1>3, <1>7, <2>4
    <2>6. ASSUME NEW i \in 1 .. Len(unique), got[unique[i]] = "failed"
          PROVE  \E j \in 1 .. i : answer' = unique[j] /\ got[answer'] = "failed"
      <3>1. k <= i /\ got[unique[k]] = "failed"
        BY <2>4, <2>6
      <3>2. k \in 1 .. i
        BY <3>1
      <3> QED BY <2>5, <3>1, <3>2
    <2>9. ASSUME NEW i \in 1 .. Len(unique), Behind(unique[i])
          PROVE  \E m \in 1 .. i - 1 : answer' = unique[m] \/ got[unique[m]] = "cancelled"
      <3>1. PICK m \in 1 .. i - 1 : got[unique[m]] = "failed" \/ got[unique[m]] = "cancelled"
        BY <2>9 DEF Behind
      <3>2. CASE got[unique[m]] = "failed"
        <4>1. m \in 1 .. Len(unique)
          BY <1>1, UniqueFacts
        <4>2. k <= m
          BY <2>4, <3>2, <4>1
        <4>3. k \in 1 .. i - 1
          BY <4>2
        <4> QED BY <2>5, <4>3
      <3> QED BY <3>1, <3>2
    <2>10. got[unique[k]] # "skipped"
      <3>1. SUFFICES ASSUME got[unique[k]] = "skipped" PROVE FALSE
        OBVIOUS
      <3>2. Behind(unique[k])
        BY <1>1, <1>3, <3>1 DEF Honest
      <3>3. PICK m \in 1 .. k - 1 : got[unique[m]] = "failed" \/ got[unique[m]] = "cancelled"
        BY <3>2 DEF Behind
      <3>4. m \in 1 .. Len(unique) /\ m < k
        BY <1>1, UniqueFacts
      <3>5. k <= m
        BY <2>4, <3>1, <3>3, <3>4 DEF Errors
      <3> QED BY <3>4, <3>5
    <2>7. Settled'
      <3>1. answer' # "series"
        BY <1>4, <2>5
      <3>2. got'[answer'] \in {"failed", "cancelled"}
        BY <1>2, <2>4, <2>5, <2>10 DEF Errors
      <3>3. ASSUME NEW i \in 1 .. Len(unique), got[unique[i]] = "skipped"
            PROVE  \E m \in 1 .. i - 1 : answer' = unique[m] \/ got[unique[m]] = "cancelled"
        BY <1>1, <1>3, <2>9, <3>3 DEF Honest
      <3>4. PassVerdict'
        BY <1>2, <1>5, <2>6, <3>1, <3>2, <3>3 DEF PassVerdict
      <3> QED BY <1>2, <1>3, <1>5, <3>4 DEF Settled
    <2>8. PassShape'
      BY <1>1, <1>2, <1>5, <2>5 DEF PassShape, seriesVars
    <2> QED BY <1>6, <2>7, <2>8 DEF PassInv
  <1>8. CASE ~\E h \in Hashes : got[h] \in Errors
    <2>1. answer' = "series"
      BY <1>2, <1>8
    <2>2. ASSUME NEW h \in Range(found) PROVE got[h] = "ok"
      <3>1. found \in Seq(Hashes) /\ DOMAIN found = 1 .. Len(found)
        BY <1>1 DEF PassShape
      <3>2. h \in {found[i] : i \in 1 .. Len(found)}
        BY <3>1 DEF Range
      <3>3. {unique[k] : k \in 1 .. Len(unique)} = {found[i] : i \in 1 .. Len(found)}
        BY <3>1, UniqueIs
      <3>4. h \in {unique[k] : k \in 1 .. Len(unique)}
        BY <3>2, <3>3
      <3>5. PICK k \in 1 .. Len(unique) : unique[k] = h
        BY <3>4
      <3> QED BY <1>3, <1>4, <1>8, <3>5
    <2>3. Settled'
      <3>1. answer' \notin Hashes
        BY <1>4, <2>1
      <3>2. PassVerdict'
        BY <1>2, <2>2, <3>1 DEF PassVerdict, Range
      <3> QED BY <1>2, <1>3, <1>5, <3>2 DEF Settled
    <2>4. PassShape'
      BY <1>1, <1>2, <1>5, <2>1 DEF PassShape, seriesVars
    <2> QED BY <1>6, <2>3, <2>4 DEF PassInv
  <1> QED BY <1>7, <1>8

LEMMA PassInitInv ==
  ASSUME FetchInit
  PROVE  PassInv
  <1> USE DEF FetchInit
  <1>2. found \in Seq(Hashes)
    BY FetchAssumption
  <1>3. \A h \in Range(found) : h \in Hashes
    BY <1>2, ElementOfSeq DEF Range
  <1>4. fed = 1 /\ Len(unique) \in Nat /\ results = <<>> /\ Len(results) = 0
    BY <1>2, UniqueIs
  <1>5. fetcher \in [Fetchers -> {Idle, Exited}]
    OBVIOUS
  <1>6. \A h \in Hashes : got[h] = "none"
    OBVIOUS
  <1>7. Fed = {}
    BY <1>4 DEF Fed
  <1>8. Idle \notin Hashes /\ Exited \notin Hashes /\ "none" \notin Hashes
    BY FetchAssumption
  <1>9. PassShape
    <2>1. fed \in 1 .. Len(unique) + 1 /\ results \in Seq(ResultOf)
      BY <1>4
    <2>2. bad \subseteq Hashes /\ series \subseteq Hashes /\ fetched = {} /\ unwritten = {}
      BY <1>3
    <2>3. got \in [Hashes -> Marks \cup {"none"}]
      OBVIOUS
    <2> QED BY <1>2, <1>5, <2>1, <2>2, <2>3 DEF PassShape
  <1>10. StopSound
    BY <1>6 DEF StopSound, Errors
  <1>11. Handed /\ Apart /\ NoneLost
    BY <1>4, <1>5, <1>6, <1>7, <1>8 DEF Handed, Apart, NoneLost
  <1>12. Kept
    BY <1>4, <1>6 DEF Kept
  <1>13. Honest
    BY <1>4, <1>6 DEF Honest
  <1>14. Settled
    BY <1>8 DEF Settled, PassVerdict
  <1> QED BY <1>9, <1>10, <1>11, <1>12, <1>13, <1>14 DEF PassInv

\* The invariant of a pass, for any document, any number of fetchers and any
\* moment the job's context ends.
THEOREM PassInvariant == FetchSpec => []PassInv
  <1>1. FetchInit => PassInv
    BY PassInitInv
  <1>2. PassInv /\ [FetchNext]_passVars => PassInv'
    <2>1. SUFFICES ASSUME PassInv, [FetchNext]_passVars PROVE PassInv'
      OBVIOUS
    <2>2. ASSUME NEW f \in Fetchers, FetcherStep(f) PROVE PassInv'
      BY <2>1, <2>2, FeedKeeps, FetchOneKeeps, StoreKeeps, ExitKeeps DEF FetcherStep
    <2>3. CASE Skip
      BY <2>1, <2>3, SkipKeeps
    <2>4. CASE Collect
      BY <2>1, <2>4, CollectKeeps
    <2>5. CASE Return
      BY <2>1, <2>5, ReturnKeeps
    <2>6. CASE CloseFeed \/ CtxEnds \/ passVars' = passVars
      BY <2>1, <2>6, QuietKeeps
    <2> QED BY <2>1, <2>2, <2>3, <2>4, <2>5, <2>6 DEF FetchNext
  <1> QED BY <1>1, <1>2, PTL DEF FetchSpec

\* PassVerdict for every pass: success means a series for every resolvent,
\* and the error named is the first failure's in document order, with nothing
\* given up that is not behind it or behind a call that was cut off.
THEOREM PassesReportTruly == FetchSpec => []PassVerdict
  <1>1. PassInv => PassVerdict
    BY DEF PassInv, Settled
  <1> QED BY <1>1, PassInvariant, PTL

\* FetchedIsCached for every pass: when fetchAll returns no fetcher still
\* holds a body, so each one was written, or its write failed.
THEOREM BodiesAreCached == FetchSpec => []FetchedIsCached
  <1>1. PassInv => FetchedIsCached
    <2>1. SUFFICES ASSUME PassInv, answer # "none", mode # "bypass",
                          NEW h \in fetched, h \notin unwritten
                   PROVE  h \in series
      BY DEF FetchedIsCached
    <2>2. PassShape /\ Handed /\ h \in Hashes
      BY <2>1 DEF PassInv, PassShape
    <2>3. \A k \in 1 .. Len(unique) : got[unique[k]] # "none"
      BY <2>1 DEF PassInv, Settled
    <2>4. ASSUME NEW f \in Fetchers, fetcher[f] = h PROVE FALSE
      <3>1. h \in Fed /\ got[h] = "none"
        BY <2>2, <2>4 DEF Handed
      <3>2. PICK k \in 1 .. Len(unique) : unique[k] = h
        BY <2>2, <3>1, UniqueFacts
      <3> QED BY <2>3, <3>1, <3>2
    <2> QED BY <2>1, <2>4 DEF PassInv, Kept
  <1> QED BY <1>1, PassInvariant, PTL

\* OneResultEach for every pass, and the channel, which has room for one
\* result per unique resolvent, never blocks a sender (fetchAll).
THEOREM ResultsNeverBlock ==
  FetchSpec => [](OneResultEach /\ Len(results) <= Len(unique))
  <1>1. PassInv => OneResultEach
    <2>1. SUFFICES ASSUME PassInv, NEW i \in 1 .. Len(unique)
          PROVE  Cardinality(InResults(unique[i])) + Cardinality(At(unique[i]))
                   + (IF got[unique[i]] = "none" THEN 0 ELSE 1)
                 = IF i < fed THEN 1 ELSE 0
      BY DEF OneResultEach
    <2> DEFINE h == unique[i]
               I == InResults(h)
               A == At(h)
    <2>2. PassShape /\ Handed /\ Apart /\ NoneLost /\ h \in Hashes
      BY <2>1, UniqueFacts DEF PassInv
    <2>3. I = {j \in 1 .. Len(results) : results[j].hash = h} /\ A = {f \in Fetchers : fetcher[f] = h}
      BY DEF InResults, At
    <2>4. i < fed <=> h \in Fed
      <3>1. ASSUME i < fed PROVE h \in Fed
        <4>1. i \in 1 .. fed - 1
          BY <2>2, <3>1, UniqueFacts
        <4> QED BY <4>1 DEF Fed
      <3>2. ASSUME h \in Fed PROVE i < fed
        BY <2>2, <3>2, UniqueFacts
      <3> QED BY <3>1, <3>2
    <2>5. (I = {} \/ \E j : I = {j}) /\ (A = {} \/ \E f : A = {f})
      <3>1. \A j, k \in I : j = k
        BY <2>2, <2>3 DEF Apart
      <3>2. \A f, g \in A : f = g
        BY <2>2, <2>3 DEF Apart
      <3>3. ASSUME NEW S, \A j, k \in S : j = k PROVE S = {} \/ \E j : S = {j}
        <4>1. CASE S # {}
          <5>1. PICK j : j \in S
            BY <4>1
          <5>2. S = {j}
            BY <3>3, <5>1
          <5> QED BY <5>2
        <4> QED BY <4>1
      <3> HIDE DEF I, A
      <3>4. I = {} \/ \E j : I = {j}
        BY <3>1, <3>3
      <3>5. A = {} \/ \E f : A = {f}
        BY <3>2, <3>3
      <3> QED BY <3>4, <3>5
    <2>6. /\ I # {} => A = {} /\ got[h] = "none" /\ h \in Fed
          /\ A # {} => got[h] = "none" /\ h \in Fed
          /\ got[h] # "none" => h \in Fed
          /\ h \in Fed => I # {} \/ A # {} \/ got[h] # "none"
      BY <2>2, <2>3 DEF Handed, Apart, NoneLost
    <2> HIDE DEF I, A, h
    <2>7. /\ Cardinality(I) = IF I = {} THEN 0 ELSE 1
          /\ Cardinality(A) = IF A = {} THEN 0 ELSE 1
      BY <2>5, FS_EmptySet, FS_Singleton
    <2> QED BY <2>4, <2>6, <2>7 DEF I, A, h
  <1>2. PassInv => Len(results) <= Len(unique)
    <2>1. SUFFICES ASSUME PassInv PROVE Len(results) <= Len(unique)
      OBVIOUS
    <2> DEFINE R == {unique[k] : k \in 1 .. Len(unique)}
               c == [i \in 1 .. Len(results) |-> results[i].hash]
    <2>2. PassShape /\ Handed /\ Apart /\ Len(results) \in Nat
      BY <2>1 DEF PassInv, PassShape
    <2>3. IsFiniteSet(R) /\ Cardinality(R) = Len(unique) /\ Fed \subseteq R
      BY <2>2, CountUnique
    <2>4. IsFiniteSet(1 .. Len(results)) /\ Cardinality(1 .. Len(results)) = Len(results)
      <3>1. ASSUME NEW m \in Nat PROVE IsFiniteSet(1 .. m) /\ Cardinality(1 .. m) = m
        BY FS_Interval
      <3> QED BY <2>2, <3>1
    <2>5. c \in Injection(1 .. Len(results), R)
      <3>1. c \in [1 .. Len(results) -> R]
        <4> HIDE DEF R
        <4> QED BY <2>2, <2>3 DEF Handed
      <3>2. \A i, j \in 1 .. Len(results) : c[i] = c[j] => i = j
        BY <2>2 DEF Apart
      <3> HIDE DEF c, R
      <3> QED BY <3>1, <3>2 DEF Injection, IsInjective
    <2> HIDE DEF c, R
    <2> QED BY <2>3, <2>4, <2>5, FS_Injection
  <1> QED BY <1>1, <1>2, PassInvariant, PTL
-----------------------------------------------------------------------------
(* A pass ends, but for fairness: it always has a step to take while       *)
(* something is left running, and only finitely many of them.              *)

\* fetchAll has returned and its goroutines are gone.
PassOver == answer # "none" /\ ~feedOpen /\ \A f \in Fetchers : fetcher[f] = Exited

\* The guards of the steps that need no outside event: Feed, FetchOne or
\* Store, Exit, CloseFeed, Collect and Return.
PassMoves ==
  \/ fed <= Len(unique) /\ \E f \in Fetchers : fetcher[f] = Idle
  \/ \E f \in Fetchers : fetcher[f] \in Hashes
  \/ ~feedOpen /\ \E f \in Fetchers : fetcher[f] = Idle
  \/ fed > Len(unique) /\ feedOpen
  \/ answer = "none" /\ (results # <<>> \/ Drained)

\* Somebody listens to the feed until it is closed, and it is closed last.
Manned ==
  /\ ~feedOpen => fed > Len(unique)
  /\ feedOpen /\ Len(unique) > 0 => \E f \in Fetchers : fetcher[f] # Exited

\* The steps a pass has left, at most.
Alive == {f \in Fetchers : fetcher[f] # Exited}
Fetching == {f \in Fetchers : fetcher[f] \in Hashes}
Flags ==
  (IF feedOpen THEN 1 ELSE 0) + (IF answer = "none" THEN 1 ELSE 0) + (IF ctxDone THEN 0 ELSE 1)
    + Cardinality(Hashes \ fetched)
StepsLeft ==
  4 * (Len(unique) + 1 - fed) + 2 * Cardinality(Fetching) + Cardinality(Alive) + Len(results) + Flags

LEMMA MannedInit == FetchInit => Manned
  <1>1. SUFFICES ASSUME FetchInit PROVE Manned
    OBVIOUS
  <1>2. PassShape /\ Len(unique) \in Nat
    BY <1>1, PassInitInv, UniqueFacts DEF PassInv
  <1>3. feedOpen = TRUE
    BY <1>1 DEF FetchInit
  <1>4. ASSUME Len(unique) > 0 PROVE \E f \in Fetchers : fetcher[f] # Exited
    <2>1. PICK S \in SUBSET Fetchers :
            Cardinality(S) = Width /\ fetcher = [f \in Fetchers |-> IF f \in S THEN Idle ELSE Exited]
      BY <1>1 DEF FetchInit
    <2> DEFINE W == {Cardinality(Fetchers), Len(unique)}
    <2>2. Cardinality(Fetchers) \in Nat \ {0}
      BY FetchAssumption, FS_CardinalityType, FS_EmptySet
    <2>3. W \subseteq Nat /\ W # {} /\ 0 \notin W
      BY <1>2, <1>4, <2>2
    <2>4. Min(W) \in W
      <3> HIDE DEF W
      <3>1. PICK x \in W : \A y \in W : x <= y
        BY <2>3, SmallestMember
      <3> QED BY <3>1 DEF Min
    <2>5. Width = Min(W)
      BY DEF Width
    <2>6. Cardinality(S) # 0
      <3> HIDE DEF W
      <3> QED BY <2>1, <2>3, <2>4, <2>5
    <2>7. S # {}
      BY <2>6, FS_EmptySet
    <2>8. PICK f \in S : TRUE
      BY <2>7
    <2>9. fetcher[f] = Idle
      BY <2>1, <2>8
    <2> QED BY <2>8, <2>9, FetchAssumption
  <1> QED BY <1>3, <1>4 DEF Manned

\* A fetcher leaves only after the feed is closed.
LEMMA MannedNext == PassInv /\ Manned /\ [FetchNext]_passVars => Manned'
  <1>1. SUFFICES ASSUME PassInv, Manned, [FetchNext]_passVars PROVE Manned'
    OBVIOUS
  <1>2. Len(unique) \in Nat /\ fed \in Nat /\ fetcher \in [Fetchers -> Hashes \cup {Idle, Exited}]
    BY <1>1, UniqueFacts DEF PassInv, PassShape
  <1>3. found' = found
    BY <1>1 DEF FetchNext, FetcherStep, Feed, FetchOne, Store, Delivers, Exit, Skip, CloseFeed, Collect, Return,
      CtxEnds, passVars, given
  <1>4. unique' = unique
    BY <1>3, UniqueStays
  <1>5. ~feedOpen' => fed' > Len(unique)
    <2>1. (feedOpen' = feedOpen /\ fed' \in {fed, fed + 1}) \/ CloseFeed
      BY <1>1 DEF FetchNext, FetcherStep, Feed, FetchOne, Store, Delivers, Exit, Skip, Collect, Return, CtxEnds,
        passVars, given
    <2>2. CASE CloseFeed
      BY <2>2 DEF CloseFeed
    <2> QED BY <1>1, <1>2, <2>1, <2>2 DEF Manned
  <1>6. ASSUME feedOpen', Len(unique) > 0 PROVE \E f \in Fetchers : fetcher'[f] # Exited
    <2>1. feedOpen
      BY <1>1, <1>6 DEF FetchNext, FetcherStep, Feed, FetchOne, Store, Delivers, Exit, Skip, CloseFeed, Collect,
        Return, CtxEnds, passVars, given
    <2>2. PICK g \in Fetchers : fetcher[g] # Exited
      BY <1>1, <1>6, <2>1 DEF Manned
    <2>3. ASSUME NEW f \in Fetchers, Feed(f) \/ FetchOne(f) \/ Store(f) PROVE fetcher'[f] # Exited
      <3>1. Idle # Exited /\ Exited \notin Hashes
        BY FetchAssumption
      <3>2. CASE Feed(f)
        <4>1. unique[fed] \in Hashes
          BY <1>1, <3>2, NextIsNew DEF PassInv, Feed
        <4> QED BY <1>2, <3>1, <3>2, <4>1 DEF Feed
      <3>3. CASE FetchOne(f)
        BY <1>2, <3>1, <3>3 DEF FetchOne, Delivers
      <3>4. CASE Store(f)
        BY <1>2, <3>1, <3>4 DEF Store, Delivers
      <3> QED BY <2>3, <3>2, <3>3, <3>4
    <2>4. CASE fetcher' = fetcher
      BY <2>2, <2>4
    <2>5. CASE \E f \in Fetchers : FetcherStep(f)
      BY <2>1, <2>3, <2>5 DEF FetcherStep, Exit
    <2> QED BY <1>1, <2>4, <2>5 DEF FetchNext, Skip, CloseFeed, Collect, Return, CtxEnds, passVars
  <1> QED BY <1>4, <1>5, <1>6 DEF Manned

\* When everything is fed and nothing is under way, the collector has it all.
LEMMA NothingLeft ==
  ASSUME PassInv, fed > Len(unique), results = <<>>, \A f \in Fetchers : fetcher[f] \notin Hashes
  PROVE  Drained
  <1> DEFINE R == {unique[k] : k \in 1 .. Len(unique)}
             C == {h \in Hashes : got[h] # "none"}
  <1>1. PassShape /\ Handed /\ NoneLost
    BY DEF PassInv
  <1>2. /\ IsFiniteSet(R) /\ Cardinality(R) = Len(unique) /\ Fed \subseteq R
        /\ Len(unique) \in Nat /\ 1 .. fed - 1 = 1 .. Len(unique)
    <2>1. IsFiniteSet(R) /\ Cardinality(R) = Len(unique) /\ Fed \subseteq R
      BY <1>1, CountUnique
    <2>2. Len(unique) \in Nat /\ fed \in Nat /\ fed - 1 <= Len(unique)
      BY <1>1, UniqueFacts
    <2>3. fed - 1 = Len(unique)
      BY <2>2
    <2> QED BY <2>1, <2>2, <2>3
  <1>3. C \subseteq R
    BY <1>1, <1>2 DEF Handed
  <1>4. ASSUME NEW x \in R PROVE x \in C
    <2>1. x \in Fed
      BY <1>2, <1>4 DEF Fed
    <2>2. x \in Hashes
      BY <1>1, <2>1, UniqueFacts
    <2>3. Len(results) = 0
      OBVIOUS
    <2>4. got[x] # "none"
      BY <1>1, <2>1, <2>2, <2>3 DEF NoneLost
    <2> QED BY <2>2, <2>4
  <1>5. C = R
    <2> HIDE DEF R, C
    <2> QED BY <1>3, <1>4
  <1>6. Cardinality(C) = Len(unique)
    BY <1>2, <1>5
  <1> QED BY <1>6 DEF Drained, Collected

\* fetchAll is never wedged: until it has returned and every goroutine is
\* gone, the feeder, a fetcher or the collector can go on, whatever failed
\* and whether or not the job's context ended.  (NoGoroutineLeft without its
\* fairness, with PassIsFinite.)
THEOREM PassNeverWedged == FetchSpec => [](PassOver \/ PassMoves)
  <1>1. PassInv /\ Manned => PassOver \/ PassMoves
    <2>1. SUFFICES ASSUME PassInv, Manned, ~PassMoves PROVE PassOver
      OBVIOUS
    <2>2. /\ Len(unique) \in Nat /\ fed \in Nat \ {0} /\ feedOpen \in BOOLEAN
          /\ fetcher \in [Fetchers -> Hashes \cup {Idle, Exited}]
      BY <2>1, UniqueFacts DEF PassInv, PassShape
    <2>3. \A f \in Fetchers : fetcher[f] \notin Hashes
      BY <2>1 DEF PassMoves
    <2>4. ~feedOpen
      <3>1. SUFFICES ASSUME feedOpen PROVE FALSE
        OBVIOUS
      <3>2. fed <= Len(unique)
        BY <2>1, <2>2, <3>1 DEF PassMoves
      <3>3. PICK f \in Fetchers : fetcher[f] # Exited
        BY <2>1, <2>2, <3>1, <3>2 DEF Manned
      <3>4. fetcher[f] = Idle
        BY <2>2, <2>3, <3>3
      <3> QED BY <2>1, <3>2, <3>4 DEF PassMoves
    <2>5. fed > Len(unique)
      BY <2>1, <2>4 DEF Manned
    <2>6. \A f \in Fetchers : fetcher[f] = Exited
      BY <2>1, <2>2, <2>3, <2>4 DEF PassMoves
    <2>7. answer # "none"
      BY <2>1, <2>3, <2>5, NothingLeft DEF PassMoves
    <2> QED BY <2>4, <2>6, <2>7 DEF PassOver
  <1> QED BY <1>1, MannedInit, MannedNext, PassInvariant, PTL DEF FetchSpec

LEMMA FetchersCounted ==
  /\ IsFiniteSet(Alive) /\ Cardinality(Alive) \in Nat
  /\ IsFiniteSet(Fetching) /\ Cardinality(Fetching) \in Nat
  <1>1. Alive \in SUBSET Fetchers /\ Fetching \in SUBSET Fetchers
    BY DEF Alive, Fetching
  <1> QED BY <1>1, FetchAssumption, FS_Subset, FS_CardinalityType

LEMMA HashesCounted ==
  ASSUME NEW S
  PROVE  IsFiniteSet(Hashes \ S) /\ Cardinality(Hashes \ S) \in Nat
  <1>1. Hashes \ S \in SUBSET Hashes
    OBVIOUS
  <1> QED BY <1>1, FetchAssumption, FS_Subset, FS_CardinalityType

\* One fetcher changes what it does.
LEMMA OneFetcher ==
  ASSUME fetcher \in [Fetchers -> Hashes \cup {Idle, Exited}],
         NEW f \in Fetchers, NEW v \in Hashes \cup {Idle, Exited},
         fetcher' = [fetcher EXCEPT ![f] = v]
  PROVE  /\ Fetching' = IF v \in Hashes THEN Fetching \cup {f} ELSE Fetching \ {f}
         /\ Alive' = IF v # Exited THEN Alive \cup {f} ELSE Alive \ {f}
  <1>1. \A g \in Fetchers : fetcher'[g] = IF g = f THEN v ELSE fetcher[g]
    OBVIOUS
  <1>2. \A g : g \in Fetching' <=> g \in Fetchers /\ fetcher'[g] \in Hashes
    BY DEF Fetching
  <1>3. \A g : g \in Fetching <=> g \in Fetchers /\ fetcher[g] \in Hashes
    BY DEF Fetching
  <1>4. \A g : g \in Alive' <=> g \in Fetchers /\ fetcher'[g] # Exited
    BY DEF Alive
  <1>5. \A g : g \in Alive <=> g \in Fetchers /\ fetcher[g] # Exited
    BY DEF Alive
  <1>6. \A g : g \in Fetching' <=> g \in (IF v \in Hashes THEN Fetching \cup {f} ELSE Fetching \ {f})
    BY <1>1, <1>2, <1>3
  <1>7. \A g : g \in Alive' <=> g \in (IF v # Exited THEN Alive \cup {f} ELSE Alive \ {f})
    BY <1>1, <1>4, <1>5
  <1> QED BY <1>6, <1>7

\* StepsLeft from its parts.
LEMMA StepsLeftIs ==
  ASSUME PassShape
  PROVE  /\ Len(unique) + 1 - fed \in Nat /\ Cardinality(Fetching) \in Nat
         /\ Cardinality(Alive) \in Nat /\ Len(results) \in Nat /\ Flags \in Nat
         /\ StepsLeft \in Nat
  <1>1. Len(unique) + 1 - fed \in Nat
    BY UniqueFacts
  <1>2. Len(results) \in Nat
    BY DEF PassShape
  <1>3. Flags \in Nat
    BY HashesCounted DEF Flags
  <1> QED BY <1>1, <1>2, <1>3, FetchersCounted DEF StepsLeft

\* What a step adds elsewhere is less than what it feeds.
LEMMA FewerSteps ==
  ASSUME PassShape, PassShape', unique' = unique,
         2 * Cardinality(Fetching)' + Cardinality(Alive)' + Len(results') + Flags' + 4 * fed
           < 2 * Cardinality(Fetching) + Cardinality(Alive) + Len(results) + Flags + 4 * fed'
  PROVE  StepsLeft' < StepsLeft
  <1> DEFINE b == Cardinality(Fetching)
             a == Cardinality(Alive)
  <1>1. b \in Nat /\ a \in Nat /\ b' \in Nat /\ a' \in Nat
    <2>1. Cardinality(Fetching)' \in Nat /\ Cardinality(Alive)' \in Nat
      <3>1. Fetching' \in SUBSET Fetchers /\ Alive' \in SUBSET Fetchers
        BY DEF Fetching, Alive
      <3> QED BY <3>1, FetchAssumption, FS_Subset, FS_CardinalityType
    <2> QED BY <2>1, FetchersCounted
  <1>2. Len(results) \in Nat /\ Len(results') \in Nat /\ fed \in Int /\ fed' \in Int
    BY DEF PassShape
  <1>3. Len(unique) \in Nat
    BY UniqueFacts
  <1>4. Flags \in Nat /\ Flags' \in Nat
    <2>1. Cardinality(Hashes \ fetched) \in Nat /\ Cardinality(Hashes \ fetched)' \in Nat
      BY HashesCounted
    <2> QED BY <2>1 DEF Flags
  <1>5. /\ StepsLeft = 4 * (Len(unique) + 1 - fed) + 2 * b + a + Len(results) + Flags
        /\ StepsLeft' = 4 * (Len(unique) + 1 - fed') + 2 * b' + a' + Len(results') + Flags'
    BY DEF StepsLeft
  <1>6. 2 * b' + a' + Len(results') + Flags' + 4 * fed < 2 * b + a + Len(results) + Flags + 4 * fed'
    OBVIOUS
  <1>7. ASSUME NEW m \in Nat, NEW x \in Int, NEW y \in Int, NEW p \in Nat, NEW q \in Nat,
               NEW r \in Nat, NEW s \in Nat, NEW k \in Nat, NEW l \in Nat, NEW v \in Nat, NEW w \in Nat,
               2 * q + s + l + w + 4 * x < 2 * p + r + k + v + 4 * y
        PROVE  4 * (m + 1 - y) + 2 * q + s + l + w < 4 * (m + 1 - x) + 2 * p + r + k + v
    BY <1>7
  <1> HIDE DEF a, b
  <1>8. 4 * (Len(unique) + 1 - fed') + 2 * b' + a' + Len(results') + Flags'
          < 4 * (Len(unique) + 1 - fed) + 2 * b + a + Len(results) + Flags
    BY <1>1, <1>2, <1>3, <1>4, <1>6, <1>7
  <1> QED BY <1>5, <1>8

\* fetchAll's answer is an error of the payload or every series.
LEMMA ReturnAnswers ==
  ASSUME PassInv, Return
  PROVE  answer' # "none"
  <1>1. PassShape /\ Handed /\ "none" \notin Hashes
    BY FetchAssumption DEF PassInv
  <1>2. answer' = IF \E h \in Hashes : got[h] \in Errors THEN PickResolveError(got) ELSE "series"
    BY DEF Return, Reported
  <1>3. ASSUME NEW h \in Hashes, got[h] \in Errors PROVE PickResolveError(got) \in Hashes
    <2>1. h \in Fed
      BY <1>1, <1>3 DEF Handed, Errors
    <2>2. PICK x \in 1 .. Len(unique) : unique[x] = h
      BY <1>1, <2>1, UniqueFacts
    <2>3. PICK k \in 1 .. Len(unique) : PickResolveError(got) = unique[k]
      BY <1>1, <1>3, <2>2, PickIs
    <2> QED BY <1>1, <2>3, UniqueFacts
  <1> QED BY <1>1, <1>2, <1>3

LEMMA StepsShrink == PassInv /\ PassInv' /\ FetchNext => StepsLeft' < StepsLeft
  <1>1. SUFFICES ASSUME PassInv, PassInv', FetchNext PROVE StepsLeft' < StepsLeft
    OBVIOUS
  <1>2. /\ PassShape /\ PassShape' /\ fed \in Nat /\ Len(results) \in Nat /\ Flags \in Nat
        /\ fetcher \in [Fetchers -> Hashes \cup {Idle, Exited}]
        /\ feedOpen \in BOOLEAN /\ ctxDone \in BOOLEAN
    BY <1>1, UniqueFacts, StepsLeftIs DEF PassInv, PassShape
  <1>3. unique' = unique
    <2>1. found' = found
      BY <1>1 DEF FetchNext, FetcherStep, Feed, FetchOne, Store, Delivers, Exit, Skip, CloseFeed, Collect, Return,
        CtxEnds, passVars, given
    <2> QED BY <2>1, UniqueStays
  <1>4. Idle \notin Hashes /\ Exited \notin Hashes /\ Idle # Exited /\ "none" \notin Hashes
    BY FetchAssumption
  <1>5. ASSUME fetcher' = fetcher PROVE Fetching' = Fetching /\ Alive' = Alive
    BY <1>5 DEF Fetching, Alive
  <1>6. ASSUME feedOpen' = feedOpen, answer' = answer, ctxDone' = ctxDone, fetched' = fetched
        PROVE  Flags' = Flags
    BY <1>6 DEF Flags
  <1>7. /\ IsFiniteSet(Alive) /\ Cardinality(Alive) \in Nat
        /\ IsFiniteSet(Fetching) /\ Cardinality(Fetching) \in Nat
    BY FetchersCounted
  <1>8. ASSUME NEW f \in Fetchers, Feed(f) PROVE StepsLeft' < StepsLeft
    <2>1. /\ fetcher[f] = Idle /\ fetcher' = [fetcher EXCEPT ![f] = unique[fed]] /\ fed' = fed + 1
          /\ results' = results /\ Flags' = Flags
      BY <1>6, <1>8 DEF Feed, seriesVars
    <2>2. unique[fed] \in Hashes
      BY <1>1, <1>8, NextIsNew DEF PassInv, Feed
    <2>3. Fetching' = Fetching \cup {f} /\ Alive' = Alive \cup {f}
      BY <1>2, <1>4, <2>1, <2>2, OneFetcher
    <2>4. f \notin Fetching /\ f \in Alive
      BY <1>4, <2>1 DEF Fetching, Alive
    <2>5. Cardinality(Fetching)' = Cardinality(Fetching) + 1 /\ Cardinality(Alive)' = Cardinality(Alive)
      BY <1>7, <2>3, <2>4, FS_AddElement
    <2> QED BY <1>2, <1>3, <1>7, <2>1, <2>5, FewerSteps
  <1>9. ASSUME NEW f \in Fetchers, NEW r \in Marks, fetcher[f] \in Hashes, Delivers(f, r),
               fed' = fed, Flags' = Flags
        PROVE  StepsLeft' < StepsLeft
    <2>1. fetcher[f] \in Hashes /\ fetcher' = [fetcher EXCEPT ![f] = Idle] /\ fed' = fed /\ Flags' = Flags
      BY <1>9 DEF Delivers
    <2>2. Len(results') = Len(results) + 1
      <3>1. results' = Append(results, MkResult(fetcher[f], r))
        BY <1>9 DEF Delivers
      <3> QED BY <1>2, <2>1, <3>1, Reports
    <2>3. Fetching' = Fetching \ {f} /\ Alive' = Alive \cup {f}
      <3>1. Idle \in Hashes \cup {Idle, Exited}
        OBVIOUS
      <3>2. /\ Fetching' = IF Idle \in Hashes THEN Fetching \cup {f} ELSE Fetching \ {f}
            /\ Alive' = IF Idle # Exited THEN Alive \cup {f} ELSE Alive \ {f}
        BY <1>2, <2>1, <3>1, OneFetcher
      <3> QED BY <1>4, <3>2
    <2>4. f \in Fetching /\ f \in Alive
      BY <1>4, <2>1 DEF Fetching, Alive
    <2>5. Cardinality(Fetching)' = Cardinality(Fetching) - 1 /\ Cardinality(Alive)' = Cardinality(Alive)
      BY <1>7, <2>3, <2>4, FS_AddElement, FS_RemoveElement
    <2> QED BY <1>2, <1>3, <1>7, <2>1, <2>2, <2>5, FewerSteps
  <1>14. ASSUME NEW f \in Fetchers, FetchOne(f) PROVE StepsLeft' < StepsLeft
    <2>1. /\ fetcher[f] \in Hashes /\ fetcher[f] \notin fetched /\ fed' = fed
          /\ feedOpen' = feedOpen /\ answer' = answer /\ ctxDone' = ctxDone
      BY <1>14 DEF FetchOne
    <2>2. CASE fetched' = fetched \cup {fetcher[f]} /\ fetcher' = fetcher /\ results' = results
      <3>1. Hashes \ fetched' = (Hashes \ fetched) \ {fetcher[f]} /\ fetcher[f] \in Hashes \ fetched
        BY <2>1, <2>2
      <3>2. Cardinality(Hashes \ fetched') = Cardinality(Hashes \ fetched) - 1
        BY <3>1, HashesCounted, FS_RemoveElement
      <3>3. Cardinality(Hashes \ fetched)' = Cardinality(Hashes \ fetched) - 1
        BY <3>2
      <3>4. Cardinality(Hashes \ fetched) \in Nat
        BY HashesCounted
      <3>5. Flags' = Flags - 1
        BY <1>2, <2>1, <3>3, <3>4 DEF Flags
      <3> QED BY <1>2, <1>3, <1>5, <1>7, <2>1, <2>2, <3>5, FewerSteps
    <2>3. CASE fetched' = fetched /\ \E r \in Marks : Delivers(f, r)
      BY <1>6, <1>9, <2>1, <2>3
    <2> QED BY <1>14, <2>2, <2>3 DEF FetchOne, Marks
  <1>15. ASSUME NEW f \in Fetchers, Store(f) PROVE StepsLeft' < StepsLeft
    <2>1. /\ fetcher[f] \in fetched /\ Delivers(f, "ok") /\ fed' = fed /\ fetched' = fetched
          /\ feedOpen' = feedOpen /\ answer' = answer /\ ctxDone' = ctxDone
      BY <1>15 DEF Store
    <2>2. fetcher[f] \in Hashes /\ "ok" \in Marks
      BY <1>2, <2>1 DEF PassShape, Marks
    <2> QED BY <1>6, <1>9, <2>1, <2>2
  <1>10. ASSUME NEW f \in Fetchers, Exit(f) PROVE StepsLeft' < StepsLeft
    <2>1. /\ fetcher[f] = Idle /\ fetcher' = [fetcher EXCEPT ![f] = Exited] /\ fed' = fed
          /\ results' = results /\ Flags' = Flags
      BY <1>6, <1>10 DEF Exit, seriesVars
    <2>2. Fetching' = Fetching \ {f} /\ Alive' = Alive \ {f}
      BY <1>2, <1>4, <2>1, OneFetcher
    <2>3. f \notin Fetching /\ f \in Alive
      BY <1>4, <2>1 DEF Fetching, Alive
    <2>4. Cardinality(Fetching)' = Cardinality(Fetching) /\ Cardinality(Alive)' = Cardinality(Alive) - 1
      BY <1>7, <2>2, <2>3, FS_RemoveElement
    <2> QED BY <1>2, <1>3, <1>7, <2>1, <2>4, FewerSteps
  <1>11. CASE Skip
    <2>1. /\ fed <= Len(unique) /\ fed' = fed + 1 /\ fetcher' = fetcher /\ Flags' = Flags
          /\ \E r \in Marks : results' = Append(results, MkResult(unique[fed], r))
      BY <1>6, <1>11 DEF Skip, Skips, Marks, seriesVars
    <2>2. unique[fed] \in Hashes
      BY <1>1, <2>1, NextIsNew DEF PassInv
    <2>3. Len(results') = Len(results) + 1
      BY <1>2, <2>1, <2>2, Reports
    <2> QED BY <1>2, <1>3, <1>5, <1>7, <2>1, <2>3, FewerSteps
  <1>12. CASE Collect
    <2>1. fed' = fed /\ fetcher' = fetcher /\ Flags' = Flags /\ results' = Tail(results) /\ results # <<>>
      BY <1>6, <1>12 DEF Collect, seriesVars
    <2>2. Len(results') = Len(results) - 1
      <3>1. results \in Seq(ResultOf)
        BY <1>2 DEF PassShape
      <3>2. Len(Tail(results)) = Len(results) - 1
        BY <2>1, <3>1, HeadTailProperties
      <3> QED BY <2>1, <3>2
    <2> QED BY <1>2, <1>3, <1>5, <1>7, <2>1, <2>2, FewerSteps
  <1>13. CASE CloseFeed \/ Return \/ CtxEnds
    <2>1. fed' = fed /\ fetcher' = fetcher /\ results' = results /\ fetched' = fetched
      BY <1>13 DEF CloseFeed, Return, CtxEnds, seriesVars
    <2>3. Cardinality(Hashes \ fetched) \in Nat /\ Cardinality(Hashes \ fetched)' = Cardinality(Hashes \ fetched)
      BY <2>1, HashesCounted
    <2>2. Flags' = Flags - 1
      <3>1. CASE Return
        <4>1. answer = "none" /\ answer' # "none"
          <5>1. answer' # "none"
            BY <1>1, <1>4, <3>1, ReturnAnswers DEF PassInv
          <5> QED BY <3>1, <5>1 DEF Return
        <4> QED BY <1>2, <2>3, <3>1, <4>1 DEF Return, Flags
      <3>2. CASE CloseFeed
        BY <1>2, <2>3, <3>2 DEF CloseFeed, Flags
      <3>3. CASE CtxEnds
        BY <1>2, <2>3, <3>3 DEF CtxEnds, Flags
      <3> QED BY <1>13, <3>1, <3>2, <3>3
    <2> QED BY <1>2, <1>3, <1>5, <1>7, <2>1, <2>2, FewerSteps
  <1> QED BY <1>1, <1>8, <1>10, <1>11, <1>12, <1>13, <1>14, <1>15 DEF FetchNext, FetcherStep

\* A pass takes no more steps than it has work for: every step, the failures
\* and the end of the context included, brings its end nearer, so nothing
\* spins and nothing is fed, fetched or collected for ever (fetchAll).
THEOREM PassIsFinite ==
  FetchSpec => [](StepsLeft \in Nat) /\ [][StepsLeft' < StepsLeft]_passVars
  <1>1. PassInv => StepsLeft \in Nat
    BY StepsLeftIs DEF PassInv
  <1>2. PassInv /\ PassInv' /\ [FetchNext]_passVars => [StepsLeft' < StepsLeft]_passVars
    BY StepsShrink
  <1> QED BY <1>1, <1>2, PassInvariant, PTL DEF FetchSpec
-----------------------------------------------------------------------------
(* Documents: the inductive invariant.                                     *)

Pending == [node : Nodes, left : SUBSET Keys]
Slots == [parent : Nodes, key : Keys, object : Nodes]

DocShape ==
  /\ kind \in [Nodes -> Kinds] /\ payload \in [Nodes -> [Keys -> 0 .. Size]]
  /\ path \in Seq(Keys) /\ attach \in BOOLEAN
  /\ kids \in [Nodes -> [Keys -> Nat]]
  /\ stage \in {"locate", "walk", "substitute", "done", "failed"}
  /\ pos \in 0 .. Len(path) /\ at \in Nodes /\ parent \in 0 .. Size
  /\ frames \in Seq(Pending) /\ slots \in Seq(Slots)
  /\ bodies \in Seq([kind : ObjectTypes, marker : 0 .. Size])

\* A node comes after its parent, is in one slot, and follows what is in the
\* slots before its own; a scalar holds nothing.
DocTree ==
  /\ \A n \in Nodes, k \in Keys : payload[n][k] # Nothing => n < payload[n][k]
  /\ \A n, m \in Nodes, k, j \in Keys :
       payload[n][k] # Nothing /\ payload[m][j] # Nothing =>
         /\ payload[n][k] = payload[m][j] => n = m /\ k = j
         /\ payload[n][k] < payload[m][j] =>
              m >= payload[n][k] \/ m < n \/ (m = n /\ k < j)
  /\ \A n \in Nodes, k \in Keys : kind[n] = "scalar" => payload[n][k] = Nothing

\* The path's first segments lead to the node locateContainer is at, and so
\* does every way along the whole path.
Followed ==
  \E f \in [0 .. pos -> Nodes] :
    /\ f[0] = Root /\ f[pos] = at /\ (pos > 0 => f[pos - 1] = parent)
    /\ \A i \in 1 .. pos : kind[f[i - 1]] \in ObjectTypes /\ payload[f[i - 1]][path[i]] = f[i]
Located ==
  /\ pos = 0 <=> parent = Nothing
  /\ Followed
  /\ \A f \in Ways(payload) : f[pos] = at /\ (pos > 0 => f[pos - 1] = parent)

\* The calls of walk: each in a slot of its caller's node that was visited,
\* before those that were not.
CallsSound(F) ==
  /\ \A i \in 1 .. Len(F) : \A k \in F[i].left : payload[F[i].node][k] # Nothing
  /\ \A i, j \in 1 .. Len(F) : i < j =>
       /\ F[i].node < F[j].node
       /\ \A k \in F[i].left : F[j].node < payload[F[i].node][k]

\* What was reported: resolvents, in document order, all before what is left.
FoundInOrder(s) ==
  /\ \A i \in 1 .. Len(s) :
       /\ s[i].object = payload[s[i].parent][s[i].key]
       /\ kind[s[i].object] = "resolvent"
  /\ \A i, j \in 1 .. Len(s) : i < j => s[i].object < s[j].object
Ahead(F, s) ==
  \A i \in 1 .. Len(F), j \in 1 .. Len(s) : \A k \in F[i].left : s[j].object < payload[F[i].node][k]

\* The nodes walked so far are open, and of their slots all but those a call
\* has left are walked or reported.
Left(F, n, k) == \E i \in 1 .. Len(F) : F[i].node = n /\ k \in F[i].left
IsSlot(s, n, k) == \E i \in 1 .. Len(s) : s[i].parent = n /\ s[i].key = k
Seen(F, s, V) ==
  /\ V \in SUBSET Nodes /\ at \in V
  /\ \A n \in V : Opened(payload, at, n)
  /\ \A i \in 1 .. Len(F) : F[i].node \in V /\ kind[F[i].node] # "series"
  /\ \A i \in 1 .. Len(s) : s[i].parent \in V /\ kind[s[i].parent] # "series"
  /\ \A n \in V, k \in Keys : Passable(payload, n, k) => payload[n][k] \in V \/ Left(F, n, k)
  /\ \A n \in V, k \in Keys : IsResolvent(payload, n, k) => IsSlot(s, n, k) \/ Left(F, n, k)

WalkSound ==
  /\ pos = Len(path) /\ ~(parent # Nothing /\ kind[at] = "resolvent")
  /\ CallsSound(frames) /\ FoundInOrder(slots) /\ Ahead(frames, slots)
  /\ \E V : Seen(frames, slots, V)

\* The slots overwritten so far hold their bodies, the others what they held.
Spliced ==
  /\ Len(bodies) <= Len(slots)
  /\ \A n \in Nodes, k \in Keys :
       (\A i \in 1 .. Len(bodies) : ~(slots[i].parent = n /\ slots[i].key = k)) =>
         kids[n][k] = payload[n][k]
  /\ \A i \in 1 .. Len(bodies) :
       /\ kids[slots[i].parent][slots[i].key] = Size + i
       /\ bodies[i].marker = IF attach THEN slots[i].object ELSE Nothing

DocPhase ==
  /\ stage \in {"locate", "walk"} => kids = payload /\ bodies = <<>>
  /\ stage = "locate" => slots = <<>>
  /\ stage = "walk" => WalkSound
  /\ stage \in {"substitute", "done"} => FoundAll /\ FoundInOrder(slots) /\ Spliced
  /\ stage = "done" => Len(bodies) = Len(slots)

DocInv == DocShape /\ DocTree /\ Located /\ DocPhase
-----------------------------------------------------------------------------
LEMMA FiledIs ==
  ASSUME NEW up \in [Nodes \ {Root} -> Nodes \X Keys], NEW n \in Nodes, NEW k \in Keys
  PROVE  /\ Filed(up)[n][k] \in 0 .. Size
         /\ Filed(up)[n][k] # Nothing =>
              Filed(up)[n][k] \in Nodes \ {Root} /\ up[Filed(up)[n][k]] = <<n, k>>
  <1>0. Size \in Nat
    BY DocAssumption
  <1>1. Filed(up)[n][k] = IF InSlot(up, n, k) = {} THEN Nothing ELSE CHOOSE c \in InSlot(up, n, k) : TRUE
    BY DEF Filed
  <1>2. CASE InSlot(up, n, k) = {}
    BY <1>0, <1>1, <1>2 DEF Nothing
  <1>3. CASE InSlot(up, n, k) # {}
    <2>1. Filed(up)[n][k] \in InSlot(up, n, k)
      BY <1>1, <1>3
    <2> QED BY <1>0, <2>1 DEF InSlot, Nodes
  <1> QED BY <1>2, <1>3

LEMMA FiledIsTree ==
  ASSUME NEW up \in [Nodes \ {Root} -> Nodes \X Keys], InDocumentOrder(up), payload = Filed(up),
         \A n \in Nodes : kind[n] = "scalar" => Empty(n)
  PROVE  payload \in [Nodes -> [Keys -> 0 .. Size]] /\ DocTree
  <1>0. Size \in Nat /\ \A k \in Keys : k \in Nat
    BY DocAssumption
  <1>1. payload \in [Nodes -> [Keys -> 0 .. Size]]
    BY FiledIs DEF Filed
  <1>2. ASSUME NEW n \in Nodes, NEW k \in Keys, payload[n][k] # Nothing
        PROVE  /\ payload[n][k] \in Nodes \ {Root} /\ up[payload[n][k]] = <<n, k>>
               /\ up[payload[n][k]][1] = n /\ up[payload[n][k]][2] = k
    BY <1>2, FiledIs
  <1>3. ASSUME NEW n \in Nodes, NEW k \in Keys, payload[n][k] # Nothing
        PROVE  n < payload[n][k]
    BY <1>2, <1>3 DEF InDocumentOrder
  <1>4. ASSUME NEW n \in Nodes, NEW m \in Nodes, NEW k \in Keys, NEW j \in Keys,
               payload[n][k] # Nothing, payload[m][j] # Nothing
        PROVE  /\ payload[n][k] = payload[m][j] => n = m /\ k = j
               /\ payload[n][k] < payload[m][j] =>
                    m >= payload[n][k] \/ m < n \/ (m = n /\ k < j)
    <2> DEFINE x == payload[n][k]
               y == payload[m][j]
    <2>1. x \in Nodes \ {Root} /\ up[x] = <<n, k>> /\ up[x][1] = n /\ up[x][2] = k
      BY <1>2, <1>4
    <2>2. y \in Nodes \ {Root} /\ up[y] = <<m, j>> /\ up[y][1] = m /\ up[y][2] = j
      BY <1>2, <1>4
    <2> HIDE DEF x, y
    <2>3. x = y => n = m /\ k = j
      BY <2>1, <2>2
    <2>4. ASSUME x < y PROVE m >= x \/ m < n \/ (m = n /\ k < j)
      <3>1. y \in x + 1 .. Size
        BY <1>0, <2>1, <2>2, <2>4 DEF Nodes
      <3> QED BY <2>1, <2>2, <3>1 DEF InDocumentOrder
    <2> QED BY <2>3, <2>4 DEF x, y
  <1>5. \A n \in Nodes, k \in Keys : kind[n] = "scalar" => payload[n][k] = Nothing
    BY DEF Empty
  <1> QED BY <1>1, <1>3, <1>4, <1>5 DEF DocTree

LEMMA DocInitInv == DocInit => DocInv
  <1> SUFFICES ASSUME DocInit PROVE DocInv
    OBVIOUS
  <1>0. Size \in Nat \ {0} /\ Root \in Nodes /\ ContainerPaths \subseteq Seq(Keys) /\ Keys \subseteq Nat
    BY DocAssumption DEF Nodes, Root
  <1>1. PICK up \in [Nodes \ {Root} -> Nodes \X Keys] : InDocumentOrder(up) /\ payload = Filed(up)
    BY DEF DocInit
  <1>2. payload \in [Nodes -> [Keys -> 0 .. Size]] /\ DocTree
    BY <1>1, FiledIsTree DEF DocInit
  <1>3. path \in Seq(Keys) /\ pos \in 0 .. Len(path) /\ pos = 0
    BY <1>0 DEF DocInit
  <1>4. kids \in [Nodes -> [Keys -> Nat]]
    <2>1. kids = payload
      BY DEF DocInit
    <2>2. 0 .. Size \subseteq Nat
      OBVIOUS
    <2> QED BY <1>2, <2>1, <2>2
  <1>5. DocShape
    BY <1>0, <1>2, <1>3, <1>4 DEF DocInit, DocShape, Nothing
  <1>6. Located
    <2>1. Followed
      <3> DEFINE f == [i \in 0 .. 0 |-> Root]
      <3>1. f \in [0 .. pos -> Nodes] /\ f[0] = Root /\ f[pos] = at
        BY <1>0, <1>3 DEF DocInit
      <3> HIDE DEF f
      <3>2. ~(pos > 0) /\ 1 .. pos = {}
        BY <1>3
      <3> QED BY <3>1, <3>2 DEF Followed
    <2>2. \A f \in Ways(payload) : f[pos] = at
      BY <1>3 DEF DocInit, Ways
    <2> QED BY <1>3, <2>1, <2>2 DEF DocInit, Located
  <1>7. DocPhase
    BY DEF DocInit, DocPhase
  <1> QED BY <1>2, <1>5, <1>6, <1>7 DEF DocInv

LEMMA PayloadNode ==
  ASSUME DocShape, NEW n \in Nodes, NEW k \in Keys
  PROVE  /\ payload[n][k] \in 0 .. Size
         /\ payload[n][k] # Nothing <=> payload[n][k] \in Nodes
         /\ IsResolvent(payload, n, k) <=>
              kind[n] # "series" /\ payload[n][k] # Nothing /\ kind[payload[n][k]] = "resolvent"
  <1>0. Size \in Nat
    BY DocAssumption
  <1>1. payload[n][k] \in 0 .. Size
    BY DEF DocShape
  <1>2. payload[n][k] # Nothing <=> payload[n][k] \in Nodes
    BY <1>0, <1>1 DEF Nothing, Nodes
  <1> QED BY <1>1, <1>2 DEF IsResolvent, KindOf

\* Nothing is to be resolved where no way leads.
LEMMA MissedIsEmpty ==
  ASSUME DocShape, Located, pos < Len(path),
         ~(kind[at] \in ObjectTypes /\ payload[at][path[pos + 1]] # Nothing)
  PROVE  \A n \in Nodes, k \in Keys : ~ToResolve(payload, n, k)
  <1>1. SUFFICES ASSUME NEW f \in Ways(payload) PROVE FALSE
    BY DEF ToResolve
  <1>2. f[pos] = at
    BY DEF Located
  <1>3. pos + 1 \in 1 .. Len(path) /\ (pos + 1) - 1 = pos /\ pos + 1 \in 0 .. Len(path)
    BY DEF DocShape
  <1>4. kind[f[pos]] \in ObjectTypes /\ payload[f[pos]][path[pos + 1]] = f[pos + 1]
    BY <1>3 DEF Ways
  <1>5. f[pos + 1] # Nothing
    BY <1>3, DocAssumption DEF Ways, Nodes, Nothing
  <1> QED BY <1>2, <1>4, <1>5

\* The one way there is, when the container is reached.
LEMMA WayFound ==
  ASSUME DocShape, Located, pos = Len(path)
  PROVE  /\ \E f \in Ways(payload) : TRUE
         /\ \A f \in Ways(payload) : f[Len(path)] = at /\ (path # <<>> => f[Len(path) - 1] = parent)
         /\ path # <<>> <=> parent # Nothing
  <1>1. path # <<>> <=> pos > 0
    BY DEF DocShape
  <1>2. PICK f \in [0 .. pos -> Nodes] :
          /\ f[0] = Root
          /\ \A i \in 1 .. pos : kind[f[i - 1]] \in ObjectTypes /\ payload[f[i - 1]][path[i]] = f[i]
    BY DEF Located, Followed
  <1>3. f \in Ways(payload)
    BY <1>2 DEF Ways
  <1>4. path # <<>> <=> parent # Nothing
    BY <1>1 DEF Located, DocShape
  <1> QED BY <1>1, <1>3, <1>4 DEF Located

LEMMA ContainerIsSlot ==
  ASSUME DocShape, Located, pos = Len(path), parent # Nothing, kind[at] = "resolvent",
         NEW n \in Nodes, NEW k \in Keys
  PROVE  ToResolve(payload, n, k) <=> n = parent /\ k = path[pos]
  BY WayFound DEF ToResolve, Holds

LEMMA ContainerWalked ==
  ASSUME DocShape, Located, pos = Len(path), ~(parent # Nothing /\ kind[at] = "resolvent"),
         NEW n \in Nodes, NEW k \in Keys
  PROVE  ToResolve(payload, n, k) <=> IsResolvent(payload, n, k) /\ Opened(payload, at, n)
  BY WayFound DEF ToResolve, Holds

\* When no call has anything left, exactly what was to be found was reported.
LEMMA WalkIsComplete ==
  ASSUME DocShape, Located, WalkSound, frames = <<>>
  PROVE  FoundAll
  <1>1. PICK V : Seen(frames, slots, V)
    BY DEF WalkSound
  <1>2. \A n, k : ~Left(frames, n, k)
    BY DEF Left
  <1>3. Closed(payload, at, V)
    BY <1>1, <1>2 DEF Seen, Closed
  <1>4. ASSUME NEW n \in Nodes, Opened(payload, at, n) PROVE n \in V
    BY <1>1, <1>3, <1>4 DEF Seen, Opened
  <1>5. ASSUME NEW n \in Nodes, NEW k \in Keys
        PROVE  ToResolve(payload, n, k) <=> IsSlot(slots, n, k)
    <2>1. ToResolve(payload, n, k) <=> IsResolvent(payload, n, k) /\ Opened(payload, at, n)
      BY ContainerWalked DEF WalkSound
    <2>2. ASSUME ToResolve(payload, n, k) PROVE IsSlot(slots, n, k)
      BY <1>1, <1>2, <1>4, <2>1, <2>2 DEF Seen
    <2>3. ASSUME IsSlot(slots, n, k) PROVE ToResolve(payload, n, k)
      <3>1. PICK i \in 1 .. Len(slots) : slots[i].parent = n /\ slots[i].key = k
        BY <2>3 DEF IsSlot
      <3>2. n \in V /\ kind[n] # "series" /\ Opened(payload, at, n)
        BY <1>1, <3>1 DEF Seen
      <3>3. slots[i].object = payload[n][k] /\ kind[payload[n][k]] = "resolvent"
        BY <3>1 DEF WalkSound, FoundInOrder
      <3>4. slots[i] \in Slots
        BY <3>1, ElementOfSeq DEF DocShape
      <3>5. slots[i].object \in Nodes
        BY <3>4 DEF Slots
      <3> QED BY <2>1, <3>2, <3>3, <3>5, PayloadNode
    <2> QED BY <2>2, <2>3
  <1> QED BY <1>5 DEF FoundAll, IsSlot, WalkSound, FoundInOrder
-----------------------------------------------------------------------------
LEMMA ToResolveStays ==
  ASSUME DocShape, UNCHANGED <<kind, payload, path>>, NEW n \in Nodes, NEW k \in Keys
  PROVE  ToResolve(payload, n, k)' <=> ToResolve(payload, n, k)
  <1>1. IsResolvent(payload, n, k)' <=> IsResolvent(payload, n, k)
    BY PayloadNode DEF IsResolvent, KindOf
  <1>2. \A c : Opened(payload, c, n)' <=> Opened(payload, c, n)
    BY DEF Opened, Closed, Passable
  <1>3. Ways(payload)' = Ways(payload)
    BY DEF Ways
  <1>4. ASSUME NEW f PROVE Holds(payload, f, n, k)' <=> Holds(payload, f, n, k)
    BY <1>1, <1>2 DEF Holds
  <1> QED BY <1>3, <1>4 DEF ToResolve

LEMMA FoundStays ==
  ASSUME DocShape, FoundAll, UNCHANGED <<kind, payload, path, slots>>
  PROVE  FoundAll'
  <1>1. ASSUME NEW n \in Nodes, NEW k \in Keys
        PROVE  ToResolve(payload, n, k)' <=>
                 \E i \in 1 .. Len(slots) : slots[i].parent = n /\ slots[i].key = k
    BY ToResolveStays DEF FoundAll
  <1>2. /\ \A i \in 1 .. Len(slots) : slots[i].object = payload[slots[i].parent][slots[i].key]
        /\ \A i, j \in 1 .. Len(slots) : i < j => slots[i].object < slots[j].object
    BY DEF FoundAll
  <1> QED BY <1>1, <1>2 DEF FoundAll

LEMMA LocateKeeps == DocInv /\ Locate => DocInv'
  <1> SUFFICES ASSUME DocInv, Locate PROVE DocInv'
    OBVIOUS
  <1> USE DEF DocInv
  <1>0. /\ stage = "locate" /\ pos < Len(path) /\ kids = payload /\ bodies = <<>> /\ slots = <<>>
        /\ UNCHANGED <<kind, payload, path, attach, kids, frames, slots, bodies>>
        /\ pos \in Nat /\ Len(path) \in Nat /\ Size \in Nat
    BY DocAssumption DEF Locate, docGiven, DocPhase, DocShape
  <1>1. DocTree'
    BY <1>0 DEF DocTree
  <1> DEFINE key == path[pos + 1]
             x == payload[at][key]
  <1>2. key \in Keys
    <2>1. pos + 1 \in 1 .. Len(path)
      BY <1>0
    <2> QED BY <2>1, ElementOfSeq DEF DocShape
  <1>3. CASE kind[at] \in ObjectTypes /\ x # Nothing
    <2>1. at' = x /\ parent' = at /\ pos' = pos + 1 /\ stage' = "locate"
      BY <1>0, <1>3 DEF Locate
    <2>2. x \in Nodes
      BY <1>2, <1>3, PayloadNode DEF DocShape
    <2> HIDE DEF x
    <2>3. DocShape'
      <3>1. pos' \in 0 .. Len(path') /\ at' \in Nodes /\ parent' \in 0 .. Size
        BY <1>0, <2>1, <2>2 DEF DocShape, Nodes
      <3> QED BY <1>0, <2>1, <3>1 DEF DocShape
    <2>4. Followed'
      <3>1. PICK f \in [0 .. pos -> Nodes] :
              /\ f[0] = Root /\ f[pos] = at
              /\ \A i \in 1 .. pos : kind[f[i - 1]] \in ObjectTypes /\ payload[f[i - 1]][path[i]] = f[i]
        BY DEF Located, Followed
      <3> DEFINE g == [i \in 0 .. pos + 1 |-> IF i = pos + 1 THEN x ELSE f[i]]
      <3>2. g \in [0 .. pos' -> Nodes] /\ g[0] = Root /\ g[pos + 1] = x /\ g[pos] = at
        BY <1>0, <2>1, <2>2, <3>1
      <3>3. ASSUME NEW i \in 1 .. pos + 1
            PROVE  kind[g[i - 1]] \in ObjectTypes /\ payload[g[i - 1]][path[i]] = g[i]
        <4>1. CASE i = pos + 1
          <5>1. i - 1 = pos /\ g[i - 1] = at /\ g[i] = x
            BY <1>0, <3>2, <4>1
          <5> QED BY <1>3, <4>1, <5>1 DEF x
        <4>2. CASE i # pos + 1
          <5>1. i \in 1 .. pos /\ g[i - 1] = f[i - 1] /\ g[i] = f[i]
            BY <1>0, <4>2
          <5> QED BY <3>1, <5>1
        <4> QED BY <4>1, <4>2
      <3> HIDE DEF g
      <3>4. g[pos'] = at' /\ g[pos' - 1] = parent' /\ pos' = pos + 1
        BY <1>0, <2>1, <3>2
      <3> QED BY <1>0, <3>2, <3>3, <3>4 DEF Followed
    <2>5. ASSUME NEW f \in Ways(payload)' PROVE f[pos'] = at' /\ f[pos' - 1] = parent'
      <3>1. f \in Ways(payload) /\ f[pos] = at
        BY <1>0 DEF Ways, Located
      <3>2. pos + 1 \in 1 .. Len(path) /\ (pos + 1) - 1 = pos
        BY <1>0
      <3>3. payload[f[pos]][path[pos + 1]] = f[pos + 1]
        BY <3>1, <3>2 DEF Ways
      <3> QED BY <2>1, <3>1, <3>2, <3>3 DEF x
    <2>6. Located'
      BY <1>0, <2>1, <2>4, <2>5, DocAssumption DEF Located, DocShape, Nodes, Nothing
    <2>7. DocPhase'
      BY <1>0, <2>1 DEF DocPhase
    <2> QED BY <1>1, <2>3, <2>6, <2>7
  <1>4. CASE ~(kind[at] \in ObjectTypes /\ x # Nothing)
    <2>1. stage' = "substitute" /\ UNCHANGED <<pos, at, parent>>
      BY <1>0, <1>4 DEF Locate
    <2>2. DocShape' /\ Located'
      BY <1>0, <2>1 DEF DocShape, Located, Followed, Ways
    <2>3. \A n \in Nodes, k \in Keys : ~ToResolve(payload, n, k)
      BY <1>0, <1>4, MissedIsEmpty
    <2>4. FoundAll
      BY <1>0, <2>3 DEF FoundAll
    <2>5. FoundAll'
      BY <1>0, <2>4, FoundStays
    <2>6. FoundInOrder(slots)' /\ Spliced'
      BY <1>0 DEF FoundInOrder, Spliced
    <2>7. DocPhase'
      BY <2>1, <2>5, <2>6 DEF DocPhase
    <2> QED BY <1>1, <2>2, <2>7
  <1> QED BY <1>3, <1>4
-----------------------------------------------------------------------------
\* The calls F once the slot k of the last one is visited.
RestOf(F, k, R) ==
  /\ R \in Seq(Pending) /\ Len(R) = Len(F)
  /\ \A i \in 1 .. Len(F) : R[i].node = F[i].node
  /\ \A i \in 1 .. Len(F) : R[i].left = IF i = Len(F) THEN F[i].left \ {k} ELSE F[i].left

LEMMA RestIs ==
  ASSUME NEW F \in Seq(Pending), F # <<>>, NEW k
  PROVE  LET R == [F EXCEPT ![Len(F)].left = @ \ {k}] IN
         RestOf(F, k, R)
  <1> DEFINE e == [F[Len(F)] EXCEPT !.left = @ \ {k}]
             R == [F EXCEPT ![Len(F)] = e]
  <1>1. Len(F) \in Nat \ {0} /\ Len(F) \in 1 .. Len(F)
    OBVIOUS
  <1>2. \A i \in 1 .. Len(F) : F[i] \in Pending
    BY ElementOfSeq
  <1>3. F[Len(F)] \in Pending
    BY <1>1, <1>2
  <1>4. e \in Pending /\ e.node = F[Len(F)].node /\ e.left = F[Len(F)].left \ {k}
    BY <1>3 DEF Pending
  <1> HIDE DEF e
  <1>5. R \in Seq(Pending) /\ Len(R) = Len(F) /\ \A i \in 1 .. Len(F) : R[i] = IF i = Len(F) THEN e ELSE F[i]
    BY <1>1, <1>4, ExceptSeq
  <1>6. R = [F EXCEPT ![Len(F)].left = @ \ {k}]
    BY DEF e
  <1> HIDE DEF R
  <1>7. \A i \in 1 .. Len(F) : R[i].node = F[i].node
    BY <1>4, <1>5
  <1>8. \A i \in 1 .. Len(F) : R[i].left = IF i = Len(F) THEN F[i].left \ {k} ELSE F[i].left
    BY <1>4, <1>5
  <1> QED BY <1>5, <1>6, <1>7, <1>8 DEF RestOf

\* Fewer slots left, in the same calls or without the last ones.
LEMMA FewerLeft ==
  ASSUME NEW F \in Seq(Pending), NEW R \in Seq(Pending), NEW s \in Seq(Slots), Len(R) <= Len(F),
         \A i \in 1 .. Len(R) : R[i].node = F[i].node /\ R[i].left \subseteq F[i].left,
         CallsSound(F), Ahead(F, s)
  PROVE  CallsSound(R) /\ Ahead(R, s)
  <1>1. \A i \in 1 .. Len(R) : i \in 1 .. Len(F)
    OBVIOUS
  <1>2. ASSUME NEW i \in 1 .. Len(R), NEW k \in R[i].left
        PROVE  i \in 1 .. Len(F) /\ k \in F[i].left /\ R[i].node = F[i].node
    BY <1>1
  <1>3. CallsSound(R)
    BY <1>1, <1>2 DEF CallsSound
  <1>4. Ahead(R, s)
    BY <1>2 DEF Ahead
  <1> QED BY <1>3, <1>4

\* The slot a call visits next comes before all that any call has left.
LEMMA NextIsFirst ==
  ASSUME DocShape, DocTree, NEW F \in Seq(Pending), F # <<>>, CallsSound(F), F[Len(F)].left # {},
         NEW k, k = Min(F[Len(F)].left), NEW R, RestOf(F, k, R)
  PROVE  LET n == F[Len(F)].node
             x == payload[n][k]
         IN /\ k \in Keys /\ k \in F[Len(F)].left /\ n \in Nodes /\ x \in Nodes /\ n < x
            /\ \A i \in 1 .. Len(R) : R[i].node < x
            /\ \A i \in 1 .. Len(R) : \A j \in R[i].left : x < payload[R[i].node][j]
  <1> DEFINE l == Len(F)
             n == F[l].node
             x == payload[n][k]
  <1>0. l \in Nat \ {0} /\ l \in 1 .. l /\ \A j \in Keys : j \in Nat
    BY DocAssumption
  <1> USE DEF RestOf
  <1>1. \A i \in 1 .. l : F[i] \in Pending
    BY ElementOfSeq
  <1>2. \A i \in 1 .. l : F[i].node \in Nodes /\ F[i].left \subseteq Keys
    BY <1>1 DEF Pending
  <1>3. k \in F[l].left /\ \A j \in F[l].left : k <= j
    <2>1. F[l].left \subseteq Nat
      BY <1>0, <1>2
    <2>2. PICK y \in F[l].left : \A z \in F[l].left : y <= z
      BY <2>1, SmallestMember
    <2> QED BY <2>2 DEF Min
  <1>4. k \in Keys /\ n \in Nodes
    BY <1>0, <1>2, <1>3
  <1>5. x # Nothing /\ x \in Nodes /\ n < x
    <2>1. x # Nothing
      BY <1>0, <1>3 DEF CallsSound
    <2> QED BY <1>4, <2>1, PayloadNode DEF DocTree
  <1> HIDE DEF x
  <1>6. ASSUME NEW i \in 1 .. l PROVE R[i].node < x
    <2>1. CASE i = l
      BY <1>0, <1>5, <2>1
    <2>2. CASE i # l
      <3>1. F[i].node < n /\ F[i].node \in Nat /\ n \in Nat /\ x \in Nat
        BY <1>0, <1>2, <1>4, <1>5, <2>2 DEF CallsSound, Nodes
      <3> QED BY <1>5, <3>1
    <2> QED BY <2>1, <2>2
  <1>7. ASSUME NEW i \in 1 .. l, NEW j \in R[i].left PROVE x < payload[R[i].node][j]
    <2> DEFINE m == F[i].node
               y == payload[m][j]
    <2>1. j \in F[i].left /\ j \in Keys /\ m \in Nodes
      BY <1>2
    <2>2. y # Nothing /\ y \in Nodes
      <3>1. y # Nothing
        BY <2>1 DEF CallsSound
      <3> QED BY <2>1, <3>1, PayloadNode
    <2>3. ~(x = y /\ n = m /\ k = j)
      <3>1. CASE i = l
        BY <3>1
      <3>2. CASE i # l
        <4>1. m < n /\ m \in Nat /\ n \in Nat
          BY <1>0, <1>4, <2>1, <3>2 DEF CallsSound, Nodes
        <4> QED BY <4>1
      <3> QED BY <3>1, <3>2
    <2>4. x # y
      BY <1>4, <1>5, <2>1, <2>2, <2>3 DEF DocTree, x
    <2>5. x \in Nat /\ y \in Nat /\ m \in Nat /\ n \in Nat /\ k \in Nat /\ j \in Nat
      BY <1>0, <1>4, <1>5, <2>1, <2>2 DEF Nodes
    <2>6. ~(n >= y \/ n < m \/ (n = m /\ j < k))
      <3>1. CASE i = l
        <4>1. m = n /\ k <= j /\ n < y
          <5>1. n < y
            BY <2>1, <2>2, <3>1 DEF DocTree
          <5> QED BY <1>3, <2>1, <3>1, <5>1
        <4> QED BY <2>5, <4>1
      <3>2. CASE i # l
        <4>1. m < n /\ n < y
          BY <1>0, <2>1, <3>2 DEF CallsSound
        <4> QED BY <2>5, <4>1
      <3> QED BY <3>1, <3>2
    <2>7. y < x => n >= y \/ n < m \/ (n = m /\ j < k)
      BY <1>4, <1>5, <2>1, <2>2 DEF DocTree, x
    <2>8. x < y
      BY <2>4, <2>5, <2>6, <2>7
    <2> QED BY <2>8
  <1> QED BY <1>3, <1>4, <1>5, <1>6, <1>7 DEF x

\* What walk does with a node: one call, or none if there is nothing to visit.
IsCall(n, C) ==
  /\ C \in Seq(Pending) /\ (C = <<>> \/ Len(C) = 1)
  /\ C # <<>> =>
       /\ C[1].node = n /\ kind[n] # "series"
       /\ \A k \in Keys : k \in C[1].left <=> payload[n][k] # Nothing
  /\ C = <<>> => kind[n] = "series" \/ \A k \in Keys : payload[n][k] = Nothing

LEMMA CallIs ==
  ASSUME DocShape, DocTree, kids = payload, NEW n \in Nodes
  PROVE  IsCall(n, Call(n))
  <1> DEFINE e == [node |-> n, left |-> {k \in Keys : kids[n][k] # Nothing}]
  <1>1. e \in Pending /\ e.node = n /\ \A k \in Keys : k \in e.left <=> payload[n][k] # Nothing
    BY DEF Pending
  <1>2. Call(n) = IF Enters(kind[n]) THEN <<e>> ELSE <<>>
    BY DEF Call
  <1> HIDE DEF e
  <1>3. CASE Enters(kind[n])
    BY <1>1, <1>2, <1>3 DEF Enters, IsCall
  <1>4. CASE ~Enters(kind[n])
    BY <1>2, <1>4 DEF Enters, DocTree, IsCall
  <1> QED BY <1>3, <1>4

\* The walk where it is, and the slot it visits next.
WalkAt(F, s, V) ==
  /\ F \in Seq(Pending) /\ s \in Seq(Slots)
  /\ CallsSound(F) /\ FoundInOrder(s) /\ Ahead(F, s) /\ Seen(F, s, V)
VisitsNext(F, k, n, x, R) ==
  /\ F # <<>> /\ F[Len(F)].left # {} /\ k = Min(F[Len(F)].left) /\ RestOf(F, k, R)
  /\ n = F[Len(F)].node /\ x = payload[n][k]

\* The first call of walk.
LEMMA WalkBegins ==
  ASSUME DocShape, DocTree, kids = payload
  PROVE  LET F == Call(at) IN
         WalkAt(F, <<>>, {at})
  <1> DEFINE F == Call(at)
  <1>0. at \in Nodes
    BY DEF DocShape
  <1>1. /\ F \in Seq(Pending) /\ (F = <<>> \/ Len(F) = 1)
        /\ F # <<>> =>
             /\ F[1].node = at /\ kind[at] # "series"
             /\ \A k \in Keys : k \in F[1].left <=> payload[at][k] # Nothing
        /\ F = <<>> => kind[at] = "series" \/ \A k \in Keys : payload[at][k] = Nothing
    BY <1>0, CallIs DEF IsCall
  <1> HIDE DEF F
  <1>2. \A i \in 1 .. Len(F) : i = 1 /\ F # <<>> /\ F[1].node = at /\ kind[at] # "series" /\ F[1] \in Pending
    BY <1>1, ElementOfSeq
  <1>3. CallsSound(F)
    BY <1>1, <1>2 DEF CallsSound, Pending
  <1>4. FoundInOrder(<<>>) /\ Ahead(F, <<>>)
    BY DEF FoundInOrder, Ahead
  <1>5. Opened(payload, at, at)
    BY DEF Opened, Closed
  <1>6. ASSUME NEW k \in Keys, payload[at][k] # Nothing, kind[at] # "series" PROVE Left(F, at, k)
    <2>1. F # <<>> /\ 1 \in 1 .. Len(F) /\ F[1].node = at /\ k \in F[1].left
      BY <1>1, <1>6
    <2> QED BY <2>1 DEF Left
  <1>7. ASSUME NEW k \in Keys, Passable(payload, at, k) \/ IsResolvent(payload, at, k) PROVE Left(F, at, k)
    BY <1>0, <1>6, <1>7, PayloadNode DEF Passable, IsResolvent
  <1>8. Seen(F, <<>>, {at})
    BY <1>0, <1>2, <1>5, <1>7 DEF Seen
  <1> QED BY <1>1, <1>3, <1>4, <1>8 DEF F, WalkAt

LEMMA LeftInRest ==
  ASSUME NEW F \in Seq(Pending), F # <<>>, NEW k, NEW R, RestOf(F, k, R),
         NEW n, NEW j, Left(F, n, j)
  PROVE  Left(R, n, j) \/ (n = F[Len(F)].node /\ j = k)
  <1>1. PICK i \in 1 .. Len(F) : F[i].node = n /\ j \in F[i].left
    BY DEF Left
  <1>2. CASE j \in R[i].left
    BY <1>1, <1>2 DEF Left, RestOf
  <1>3. CASE j \notin R[i].left
    BY <1>1, <1>3 DEF RestOf
  <1> QED BY <1>2, <1>3

LEMMA FewerInRest ==
  ASSUME NEW F \in Seq(Pending), F # <<>>, NEW s \in Seq(Slots), NEW k, NEW R, RestOf(F, k, R),
         CallsSound(F), Ahead(F, s)
  PROVE  CallsSound(R) /\ Ahead(R, s)
  <1>1. /\ R \in Seq(Pending) /\ Len(R) <= Len(F)
        /\ \A i \in 1 .. Len(R) : R[i].node = F[i].node
    BY DEF RestOf
  <1>2. ASSUME NEW i \in 1 .. Len(R) PROVE R[i].left \subseteq F[i].left
    <2>1. R[i].left = IF i = Len(F) THEN F[i].left \ {k} ELSE F[i].left
      BY DEF RestOf
    <2> QED BY <2>1
  <1> QED BY <1>1, <1>2, FewerLeft

\* A resolvent is reported.
LEMMA WalkReports ==
  ASSUME DocShape, DocTree, NEW F, NEW s, NEW V, WalkAt(F, s, V),
         NEW k, NEW n, NEW x, NEW R, VisitsNext(F, k, n, x, R), kind[x] = "resolvent",
         NEW t, t = Append(s, [parent |-> n, key |-> k, object |-> x])
  PROVE  WalkAt(R, t, V)
  <1> USE DEF WalkAt, VisitsNext
  <1>0. Len(F) \in Nat /\ Len(F) \in 1 .. Len(F) /\ Len(s) \in Nat
    OBVIOUS
  <1>1. /\ R \in Seq(Pending) /\ k \in Keys /\ k \in F[Len(F)].left /\ n \in Nodes /\ x \in Nodes /\ n < x
        /\ \A i \in 1 .. Len(R) : \A j \in R[i].left : x < payload[R[i].node][j]
    BY NextIsFirst DEF RestOf
  <1> DEFINE e == [parent |-> n, key |-> k, object |-> x]
  <1>2. e \in Slots /\ e.parent = n /\ e.key = k /\ e.object = x
    BY <1>1 DEF Slots
  <1> HIDE DEF e
  <1>3. /\ t \in Seq(Slots) /\ Len(t) = Len(s) + 1 /\ t[Len(s) + 1] = e
        /\ \A i \in 1 .. Len(s) : t[i] = s[i]
    BY <1>2, AppendProperties DEF e
  <1>4. \A i \in 1 .. Len(t) : i \in 1 .. Len(s) \/ i = Len(s) + 1
    BY <1>0, <1>3
  <1>5. CallsSound(R) /\ Ahead(R, s)
    BY FewerInRest
  <1>6. \A i \in 1 .. Len(s) : s[i].object < x
    BY <1>0, <1>1 DEF Ahead
  <1>7. FoundInOrder(t)
    <2>1. ASSUME NEW i \in 1 .. Len(t)
          PROVE  t[i].object = payload[t[i].parent][t[i].key] /\ kind[t[i].object] = "resolvent"
      BY <1>2, <1>3, <1>4 DEF FoundInOrder
    <2>2. ASSUME NEW i \in 1 .. Len(t), NEW j \in 1 .. Len(t), i < j
          PROVE  t[i].object < t[j].object
      <3>1. i \in 1 .. Len(s)
        BY <1>0, <1>3, <2>2
      <3>2. CASE j = Len(s) + 1
        BY <1>2, <1>3, <1>6, <3>1, <3>2
      <3>3. CASE j \in 1 .. Len(s)
        BY <1>3, <2>2, <3>1, <3>3 DEF FoundInOrder
      <3> QED BY <1>4, <3>2, <3>3
    <2> QED BY <2>1, <2>2 DEF FoundInOrder
  <1>8. Ahead(R, t)
    <2>1. ASSUME NEW i \in 1 .. Len(R), NEW j \in 1 .. Len(t), NEW l \in R[i].left
          PROVE  t[j].object < payload[R[i].node][l]
      <3>1. CASE j = Len(s) + 1
        BY <1>1, <1>2, <1>3, <3>1
      <3>2. CASE j \in 1 .. Len(s)
        BY <1>3, <1>5, <3>2 DEF Ahead
      <3> QED BY <1>4, <3>1, <3>2
    <2> QED BY <2>1 DEF Ahead
  <1>9. \A m, j : IsSlot(s, m, j) => IsSlot(t, m, j)
    BY <1>0, <1>3 DEF IsSlot
  <1>10. IsSlot(t, n, k)
    BY <1>0, <1>2, <1>3 DEF IsSlot
  <1>11. ~Passable(payload, n, k)
    BY DEF Passable
  <1>12. Seen(R, t, V)
    <2>1. V \in SUBSET Nodes /\ at \in V /\ \A m \in V : Opened(payload, at, m)
      BY DEF Seen
    <2>2. \A i \in 1 .. Len(R) : R[i].node \in V /\ kind[R[i].node] # "series"
      BY DEF Seen, RestOf
    <2>3. \A i \in 1 .. Len(t) : t[i].parent \in V /\ kind[t[i].parent] # "series"
      BY <1>0, <1>2, <1>3, <1>4 DEF Seen
    <2>4. ASSUME NEW m \in V, NEW j \in Keys, Passable(payload, m, j)
          PROVE  payload[m][j] \in V \/ Left(R, m, j)
      <3>1. payload[m][j] \in V \/ Left(F, m, j)
        BY <2>4 DEF Seen
      <3>2. CASE Left(F, m, j)
        BY <1>11, <2>4, <3>2, LeftInRest
      <3> QED BY <3>1, <3>2
    <2>5. ASSUME NEW m \in V, NEW j \in Keys, IsResolvent(payload, m, j)
          PROVE  IsSlot(t, m, j) \/ Left(R, m, j)
      <3>1. IsSlot(s, m, j) \/ Left(F, m, j)
        BY <2>5 DEF Seen
      <3>2. CASE Left(F, m, j)
        BY <1>10, <3>2, LeftInRest
      <3> QED BY <1>9, <3>1, <3>2
    <2> QED BY <2>1, <2>2, <2>3, <2>4, <2>5 DEF Seen
  <1> QED BY <1>1, <1>3, <1>5, <1>7, <1>8, <1>12

\* The calls R with those of C, at most one, on top.
Pushed(R, C, G) ==
  /\ G \in Seq(Pending) /\ Len(R) \in Nat /\ Len(G) \in Nat /\ Len(R) <= Len(G) /\ Len(G) <= Len(R) + 1
  /\ \A i \in 1 .. Len(R) : G[i] = R[i]
  /\ \A i \in 1 .. Len(G) : i \in 1 .. Len(R) \/ (i = Len(R) + 1 /\ C # <<>> /\ G[i] = C[1])
  /\ C # <<>> => Len(R) + 1 \in 1 .. Len(G) /\ G[Len(R) + 1] = C[1]

LEMMA PushedIs ==
  ASSUME NEW R \in Seq(Pending), NEW C \in Seq(Pending), C = <<>> \/ Len(C) = 1
  PROVE  Pushed(R, C, R \o C)
  <1> DEFINE G == R \o C
  <1>1. CASE C = <<>>
    <2>1. G = R
      BY <1>1, ConcatEmptySeq
    <2>2. Pushed(R, C, R)
      BY <1>1 DEF Pushed
    <2> QED BY <2>1, <2>2
  <1>2. CASE Len(C) = 1
    <2>1. C # <<>> /\ C[1] \in Pending
      BY <1>2, ElementOfSeq
    <2>2. C = <<C[1]>>
      BY <1>2
    <2>3. G = Append(R, C[1])
      BY <2>1, <2>2, AppendIsConcat
    <2>4. /\ G \in Seq(Pending) /\ Len(G) = Len(R) + 1 /\ G[Len(R) + 1] = C[1]
          /\ \A i \in 1 .. Len(R) : G[i] = R[i]
      BY <2>1, <2>3, AppendProperties
    <2>5. Len(R) \in Nat
      OBVIOUS
    <2> HIDE DEF G
    <2>6. Pushed(R, C, G)
      BY <2>1, <2>4, <2>5 DEF Pushed
    <2> QED BY <2>6 DEF G
  <1> QED BY <1>1, <1>2

\* Anything else is walked: entered, or passed over if nothing is in it.
LEMMA WalkGoesOn ==
  ASSUME DocShape, DocTree, NEW F, NEW s, NEW V, WalkAt(F, s, V),
         NEW k, NEW n, NEW x, NEW R, VisitsNext(F, k, n, x, R), kind[x] # "resolvent",
         NEW C, IsCall(x, C), NEW G, Pushed(R, C, G)
  PROVE  WalkAt(G, s, V \cup {x})
  <1> USE DEF WalkAt, VisitsNext
  <1>0. /\ Len(F) \in Nat /\ Len(F) \in 1 .. Len(F) /\ Len(s) \in Nat
        /\ R \in Seq(Pending) /\ Len(R) = Len(F)
    BY DEF RestOf
  <1>1. /\ k \in Keys /\ k \in F[Len(F)].left /\ n \in Nodes /\ x \in Nodes /\ n < x
        /\ \A i \in 1 .. Len(R) : R[i].node < x
        /\ \A i \in 1 .. Len(R) : \A j \in R[i].left : x < payload[R[i].node][j]
    BY NextIsFirst
  <1>2. /\ C \in Seq(Pending) /\ (C = <<>> \/ Len(C) = 1)
        /\ C # <<>> =>
             /\ C[1].node = x /\ kind[x] # "series"
             /\ \A j \in Keys : j \in C[1].left <=> payload[x][j] # Nothing
        /\ C = <<>> => kind[x] = "series" \/ \A j \in Keys : payload[x][j] = Nothing
    BY DEF IsCall
  <1>3. CallsSound(R) /\ Ahead(R, s)
    BY FewerInRest
  <1>4. /\ G \in Seq(Pending) /\ Len(R) \in Nat /\ Len(G) \in Nat /\ Len(R) <= Len(G) /\ Len(G) <= Len(R) + 1
        /\ \A i \in 1 .. Len(R) : G[i] = R[i]
        /\ \A i \in 1 .. Len(G) : i \in 1 .. Len(R) \/ (i = Len(R) + 1 /\ C # <<>> /\ G[i] = C[1])
        /\ C # <<>> => Len(R) + 1 \in 1 .. Len(G) /\ G[Len(R) + 1] = C[1]
    BY DEF Pushed
  <1>5. \A i \in 1 .. Len(G) :
          \/ i \in 1 .. Len(R) /\ G[i] = R[i]
          \/ i = Len(R) + 1 /\ C # <<>> /\ G[i] = C[1]
    BY <1>4
  <1>6. ASSUME NEW i \in 1 .. Len(G), i = Len(R) + 1, C # <<>>, NEW j \in G[i].left
        PROVE  /\ G[i].node = x /\ j \in Keys /\ payload[x][j] # Nothing /\ x < payload[x][j]
               /\ payload[x][j] \in Nodes
    <2>1. G[i] = C[1] /\ G[i] \in Pending
      BY <1>0, <1>4, <1>5, <1>6, ElementOfSeq
    <2>2. j \in Keys
      BY <2>1 DEF Pending
    <2>3. payload[x][j] # Nothing
      BY <1>2, <1>6, <2>1, <2>2
    <2> QED BY <1>1, <1>2, <1>6, <2>1, <2>2, <2>3, PayloadNode DEF DocTree
  <1>7. CallsSound(G)
    <2>1. ASSUME NEW i \in 1 .. Len(G), NEW j \in G[i].left PROVE payload[G[i].node][j] # Nothing
      <3>1. CASE i \in 1 .. Len(R) /\ G[i] = R[i]
        BY <1>3, <3>1 DEF CallsSound
      <3>2. CASE i = Len(R) + 1 /\ C # <<>> /\ G[i] = C[1]
        BY <1>6, <3>2
      <3> QED BY <1>5, <3>1, <3>2
    <2>2. ASSUME NEW i \in 1 .. Len(G), NEW j \in 1 .. Len(G), i < j
          PROVE  G[i].node < G[j].node /\ \A l \in G[i].left : G[j].node < payload[G[i].node][l]
      <3>0. Len(R) \in Nat
        BY <1>0
      <3>1. i \in 1 .. Len(R) /\ G[i] = R[i]
        <4>1. i \in 1 .. Len(R)
          BY <1>4, <2>2, <3>0
        <4> QED BY <1>4, <4>1
      <3>2. CASE j \in 1 .. Len(R) /\ G[j] = R[j]
        BY <1>3, <2>2, <3>1, <3>2 DEF CallsSound
      <3>3. CASE j = Len(R) + 1 /\ C # <<>> /\ G[j] = C[1]
        <4>1. G[j].node = x
          BY <1>2, <3>3
        <4> QED BY <1>1, <3>1, <4>1
      <3> QED BY <1>5, <3>2, <3>3
    <2> QED BY <2>1, <2>2 DEF CallsSound
  <1>7a. \A i \in 1 .. Len(s) : s[i].object < x
    BY <1>0, <1>1 DEF Ahead
  <1>8. Ahead(G, s)
    <2>1. ASSUME NEW i \in 1 .. Len(G), NEW j \in 1 .. Len(s), NEW l \in G[i].left
          PROVE  s[j].object < payload[G[i].node][l]
      <3>1. CASE i \in 1 .. Len(R) /\ G[i] = R[i]
        BY <1>3, <3>1 DEF Ahead
      <3>2. CASE i = Len(R) + 1 /\ C # <<>> /\ G[i] = C[1]
        <4>1. s[j] \in Slots
          BY ElementOfSeq
        <4>2. s[j].object \in Nat
          BY <4>1 DEF Slots, Nodes
        <4>3. s[j].object < x
          BY <1>7a
        <4>4. x < payload[x][l] /\ payload[x][l] \in Nat /\ x \in Nat /\ G[i].node = x
          <5>1. G[i].node = x /\ x < payload[x][l] /\ payload[x][l] \in Nodes
            BY <1>6, <3>2
          <5>2. \A m \in Nodes : m \in Nat
            BY DEF Nodes
          <5>3. x \in Nat /\ payload[x][l] \in Nat
            BY <1>1, <5>1, <5>2
          <5> QED BY <5>1, <5>3
        <4> QED BY <4>2, <4>3, <4>4
      <3> QED BY <1>5, <3>1, <3>2
    <2> QED BY <2>1 DEF Ahead
  <1>9. Passable(payload, n, k) /\ n \in V /\ kind[n] # "series"
    BY <1>0, <1>1 DEF Passable, Seen
  <1>10. Opened(payload, at, x)
    BY <1>1, <1>9 DEF Seen, Opened, Closed
  <1>11. \A m, j : Left(R, m, j) => Left(G, m, j)
    <2>1. \A i \in 1 .. Len(R) : i \in 1 .. Len(G) /\ G[i] = R[i]
      BY <1>4
    <2> QED BY <2>1 DEF Left
  <1>12. ASSUME NEW j \in Keys, payload[x][j] # Nothing, kind[x] # "series" PROVE Left(G, x, j)
    <2>1. C # <<>> /\ Len(C) = 1 /\ j \in C[1].left /\ C[1].node = x
      BY <1>2, <1>12
    <2>2. Len(R) + 1 \in 1 .. Len(G) /\ G[Len(R) + 1] = C[1]
      BY <1>4, <2>1
    <2> QED BY <2>1, <2>2 DEF Left
  <1>13. ASSUME NEW j \in Keys, Passable(payload, x, j) \/ IsResolvent(payload, x, j)
         PROVE  Left(G, x, j)
    BY <1>1, <1>12, <1>13, PayloadNode DEF Passable, IsResolvent
  <1>14. Seen(G, s, V \cup {x})
    <2> DEFINE W == V \cup {x}
    <2>1. W \in SUBSET Nodes /\ at \in W /\ \A m \in W : Opened(payload, at, m)
      BY <1>1, <1>10 DEF Seen
    <2>2. ASSUME NEW i \in 1 .. Len(G) PROVE G[i].node \in W /\ kind[G[i].node] # "series"
      <3>1. CASE i \in 1 .. Len(R) /\ G[i] = R[i]
        <4>1. i \in 1 .. Len(F) /\ R[i].node = F[i].node
          BY <3>1 DEF RestOf
        <4> QED BY <3>1, <4>1 DEF Seen
      <3>2. CASE i = Len(R) + 1 /\ C # <<>> /\ G[i] = C[1]
        BY <1>2, <3>2
      <3> QED BY <1>5, <3>1, <3>2
    <2>3. \A i \in 1 .. Len(s) : s[i].parent \in W /\ kind[s[i].parent] # "series"
      BY DEF Seen
    <2>4. ASSUME NEW m \in W, NEW j \in Keys, Passable(payload, m, j)
          PROVE  payload[m][j] \in W \/ Left(G, m, j)
      <3>1. CASE m = x
        BY <1>13, <2>4, <3>1
      <3>2. CASE m \in V
        <4>1. payload[m][j] \in V \/ Left(F, m, j)
          BY <2>4, <3>2 DEF Seen
        <4>2. CASE Left(F, m, j)
          <5>1. Left(R, m, j) \/ (m = n /\ j = k)
            BY <4>2, LeftInRest
          <5> QED BY <1>11, <5>1
        <4> QED BY <4>1, <4>2
      <3> QED BY <3>1, <3>2
    <2>5. ASSUME NEW m \in W, NEW j \in Keys, IsResolvent(payload, m, j)
          PROVE  IsSlot(s, m, j) \/ Left(G, m, j)
      <3>1. CASE m = x
        BY <1>13, <2>5, <3>1
      <3>2. CASE m \in V
        <4>1. IsSlot(s, m, j) \/ Left(F, m, j)
          BY <2>5, <3>2 DEF Seen
        <4>2. CASE Left(F, m, j)
          <5>1. Left(R, m, j) \/ (m = n /\ j = k)
            BY <4>2, LeftInRest
          <5>2. ~(m = n /\ j = k)
            BY <1>1, <2>5, PayloadNode
          <5> QED BY <1>11, <5>1, <5>2
        <4> QED BY <4>1, <4>2
      <3> QED BY <3>1, <3>2
    <2> HIDE DEF W
    <2>6. Seen(G, s, W)
      BY <2>1, <2>2, <2>3, <2>4, <2>5 DEF Seen
    <2> QED BY <2>6 DEF W
  <1> QED BY <1>4, <1>7, <1>8, <1>14

\* A call of walk returns.
LEMMA WalkReturns ==
  ASSUME NEW F, NEW s, NEW V, WalkAt(F, s, V), F # <<>>, F[Len(F)].left = {},
         NEW R \in Seq(Pending), Len(R) = Len(F) - 1, \A i \in 1 .. Len(R) : R[i] = F[i]
  PROVE  WalkAt(R, s, V)
  <1> USE DEF WalkAt
  <1>0. Len(F) \in Nat /\ Len(R) <= Len(F) /\ \A i \in 1 .. Len(R) : i \in 1 .. Len(F)
    OBVIOUS
  <1>1. CallsSound(R) /\ Ahead(R, s)
    BY <1>0, FewerLeft
  <1>2. ASSUME NEW n, NEW k, Left(F, n, k) PROVE Left(R, n, k)
    <2>1. PICK i \in 1 .. Len(F) : F[i].node = n /\ k \in F[i].left
      BY <1>2 DEF Left
    <2>2. i \in 1 .. Len(R)
      BY <1>0, <2>1
    <2> QED BY <2>1, <2>2 DEF Left
  <1>3. \A i \in 1 .. Len(R) : R[i].node \in V /\ kind[R[i].node] # "series"
    BY <1>0 DEF Seen
  <1> QED BY <1>1, <1>2, <1>3 DEF Seen

\* What an action that leaves the document and the place in it alone keeps.
LEMMA PlaceStays ==
  ASSUME DocTree, Located, UNCHANGED <<kind, payload, path, pos, at, parent>>
  PROVE  DocTree' /\ Located'
  <1>1. DocTree'
    BY DEF DocTree
  <1>2. Followed' /\ Ways(payload)' = Ways(payload)
    BY DEF Located, Followed, Ways
  <1> QED BY <1>1, <1>2 DEF Located

LEMMA WalkSoundNext ==
  ASSUME DocShape, UNCHANGED <<kind, payload, path, pos, at, parent>>, NEW V,
         pos = Len(path), ~(parent # Nothing /\ kind[at] = "resolvent"),
         WalkAt(frames', slots', V)
  PROVE  WalkSound'
  <1> USE DEF WalkAt
  <1>1. CallsSound(frames)'
    BY DEF CallsSound
  <1>2. FoundInOrder(slots)'
    BY DEF FoundInOrder
  <1>3. Ahead(frames, slots)'
    BY DEF Ahead
  <1>4. Seen(frames, slots, V)'
    <2>1. V \in SUBSET Nodes
      BY DEF Seen
    <2>2. ASSUME NEW n \in V, NEW k \in Keys
          PROVE  /\ IsResolvent(payload, n, k)' <=> IsResolvent(payload, n, k)
                 /\ Passable(payload, n, k)' <=> Passable(payload, n, k)
      BY <2>1, PayloadNode DEF IsResolvent, KindOf, Passable
    <2>3. \A n : Opened(payload, at, n)' <=> Opened(payload, at, n)
      BY DEF Opened, Closed, Passable
    <2>4. /\ at' \in V
          /\ \A n \in V : Opened(payload, at, n)'
          /\ \A i \in 1 .. Len(frames') : frames'[i].node \in V /\ kind'[frames'[i].node] # "series"
          /\ \A i \in 1 .. Len(slots') : slots'[i].parent \in V /\ kind'[slots'[i].parent] # "series"
      BY <2>3 DEF Seen
    <2>5. ASSUME NEW n \in V, NEW k \in Keys, Passable(payload, n, k)'
          PROVE  payload'[n][k] \in V \/ Left(frames', n, k)
      BY <2>2, <2>5 DEF Seen
    <2>6. ASSUME NEW n \in V, NEW k \in Keys, IsResolvent(payload, n, k)'
          PROVE  IsSlot(slots', n, k) \/ Left(frames', n, k)
      BY <2>2, <2>6 DEF Seen
    <2>7. \A n, k : (Left(frames', n, k) <=> Left(frames, n, k)') /\ (IsSlot(slots', n, k) <=> IsSlot(slots, n, k)')
      BY DEF Left, IsSlot
    <2> QED BY <2>1, <2>4, <2>5, <2>6, <2>7 DEF Seen
  <1> QED BY <1>1, <1>2, <1>3, <1>4 DEF WalkSound

LEMMA ReportIs ==
  ASSUME DocShape, NEW n \in Nodes, NEW k \in Keys, kids = payload, payload[n][k] \in Nodes, NEW g,
         Report(n, k, g)
  PROVE  \/ stage' = "failed" /\ slots' = slots
         \/ stage' = g /\ slots' = Append(slots, [parent |-> n, key |-> k, object |-> payload[n][k]])
  BY DEF Report

LEMMA FindKeeps == DocInv /\ Find => DocInv'
  <1> SUFFICES ASSUME DocInv, Find PROVE DocInv'
    OBVIOUS
  <1> USE DEF DocInv
  <1>0. /\ stage = "locate" /\ pos = Len(path) /\ kids = payload /\ bodies = <<>> /\ slots = <<>>
        /\ UNCHANGED <<kind, payload, path, attach, kids, pos, at, parent, bodies>>
        /\ Size \in Nat
    BY DocAssumption DEF Find, docGiven, DocPhase
  <1>1. DocTree' /\ Located'
    BY <1>0, PlaceStays
  <1>2. CASE parent # Nothing /\ kind[at] = "resolvent"
    <2>1. Report(parent, path[pos], "substitute") /\ frames' = frames
      BY <1>0, <1>2 DEF Find
    <2>2. PICK f \in Ways(payload) : TRUE
      BY <1>0, WayFound
    <2>3. f[Len(path)] = at /\ f[Len(path) - 1] = parent /\ path # <<>>
      BY <1>0, <1>2, WayFound
    <2>4. Len(path) \in 1 .. Len(path) /\ pos \in Nat \ {0}
      BY <1>0, <2>3 DEF DocShape
    <2>5. parent \in Nodes /\ path[pos] \in Keys /\ payload[parent][path[pos]] = at
      <3>1. payload[f[Len(path) - 1]][path[Len(path)]] = f[Len(path)]
        BY <2>4 DEF Ways
      <3>2. parent \in Nodes
        BY <1>0, <1>2 DEF DocShape, Nodes, Nothing
      <3>3. path[Len(path)] \in Keys
        BY <2>4, ElementOfSeq DEF DocShape
      <3> QED BY <1>0, <2>3, <3>1, <3>2, <3>3
    <2> DEFINE e == [parent |-> parent, key |-> path[pos], object |-> at]
    <2>6. e \in Slots /\ e.parent = parent /\ e.key = path[pos] /\ e.object = at
      BY <2>5 DEF Slots, DocShape
    <2>7. CASE stage' = "failed" /\ slots' = slots
      <3>1. DocShape'
        BY <1>0, <2>1, <2>7 DEF DocShape
      <3>2. DocPhase'
        BY <2>7 DEF DocPhase
      <3> QED BY <1>1, <3>1, <3>2
    <2>8. CASE stage' = "substitute" /\ slots' = Append(slots, e)
      <3> HIDE DEF e
      <3>1. slots' = <<e>> /\ slots' \in Seq(Slots) /\ Len(slots') = 1 /\ slots'[1] = e
        BY <1>0, <2>6, <2>8
      <3>2. DocShape'
        BY <1>0, <2>1, <2>8, <3>1 DEF DocShape
      <3>3. \A i \in 1 .. Len(slots') : i = 1
        BY <3>1
      <3>4. FoundInOrder(slots)'
        BY <1>0, <1>2, <2>5, <2>6, <3>1, <3>3 DEF FoundInOrder
      <3>5. ASSUME NEW n \in Nodes, NEW k \in Keys
            PROVE  ToResolve(payload, n, k)' <=>
                     \E i \in 1 .. Len(slots') : slots'[i].parent = n /\ slots'[i].key = k
        <4>1. ToResolve(payload, n, k)' <=> n = parent /\ k = path[pos]
          BY <1>0, <1>2, ToResolveStays, ContainerIsSlot
        <4> QED BY <2>6, <3>1, <3>3, <4>1
      <3>6. FoundAll'
        BY <3>4, <3>5 DEF FoundAll, FoundInOrder
      <3>7. Spliced'
        BY <1>0, <3>1 DEF Spliced
      <3>8. DocPhase'
        BY <2>8, <3>4, <3>6, <3>7 DEF DocPhase
      <3> QED BY <1>1, <3>2, <3>8
    <2> QED BY <1>0, <2>1, <2>5, <2>7, <2>8, ReportIs DEF DocShape
  <1>3. CASE ~(parent # Nothing /\ kind[at] = "resolvent")
    <2>1. frames' = Call(at) /\ stage' = "walk" /\ slots' = slots /\ slots' = <<>>
      BY <1>0, <1>3 DEF Find
    <2>2. WalkAt(frames', slots', {at})
      BY <1>0, <2>1, WalkBegins
    <2>3. WalkSound'
      BY <1>0, <1>3, <2>2, WalkSoundNext
    <2>4. DocShape'
      BY <1>0, <2>1, <2>2 DEF DocShape, WalkAt
    <2>5. DocPhase'
      BY <1>0, <2>1, <2>3 DEF DocPhase
    <2> QED BY <1>1, <2>4, <2>5
  <1> QED BY <1>2, <1>3

LEMMA VisitKeeps == DocInv /\ Visit => DocInv'
  <1> SUFFICES ASSUME DocInv, Visit PROVE DocInv'
    OBVIOUS
  <1> USE DEF DocInv
  <1> DEFINE top == frames[Len(frames)]
             k == Min(top.left)
             R == [frames EXCEPT ![Len(frames)].left = @ \ {k}]
             n == top.node
             x == payload[n][k]
  <1>0. /\ stage = "walk" /\ frames # <<>> /\ top.left # {} /\ kids = payload /\ bodies = <<>>
        /\ UNCHANGED <<kind, payload, path, attach, kids, pos, at, parent, bodies>>
        /\ WalkSound
    BY DEF Visit, docGiven, DocPhase
  <1>1. DocTree' /\ Located'
    BY <1>0, PlaceStays
  <1>2. frames \in Seq(Pending) /\ slots \in Seq(Slots)
    BY DEF DocShape
  <1>3. RestOf(frames, k, R)
    BY <1>0, <1>2, RestIs
  <1>4. PICK V : WalkAt(frames, slots, V)
    BY <1>0, <1>2 DEF WalkSound, WalkAt
  <1>5. pos = Len(path) /\ ~(parent # Nothing /\ kind[at] = "resolvent")
    BY <1>0 DEF WalkSound
  <1>6. IF kind[x] = "resolvent" THEN Report(n, k, "walk") /\ frames' = R
        ELSE frames' = R \o Call(x) /\ slots' = slots /\ stage' = "walk"
    BY <1>0 DEF Visit
  <1>7. VisitsNext(frames, k, n, x, R) /\ R \in Seq(Pending) /\ x = payload[n][k]
    BY <1>0, <1>3 DEF VisitsNext, RestOf
  <1> HIDE DEF top, R, k, n, x
  <1>8. k \in Keys /\ n \in Nodes /\ x \in Nodes
    BY <1>2, <1>4, <1>7, NextIsFirst DEF VisitsNext, WalkAt
  <1>9. CASE kind[x] = "resolvent"
    <2>1. frames' = R /\ Report(n, k, "walk")
      BY <1>6, <1>9
    <2>2. \/ stage' = "failed" /\ slots' = slots
          \/ stage' = "walk" /\ slots' = Append(slots, [parent |-> n, key |-> k, object |-> x])
      BY <1>0, <1>7, <1>8, <2>1, ReportIs
    <2>3. CASE stage' = "failed" /\ slots' = slots
      <3>1. DocShape'
        BY <1>0, <1>7, <2>1, <2>3 DEF DocShape
      <3>2. DocPhase'
        BY <2>3 DEF DocPhase
      <3> QED BY <1>1, <3>1, <3>2
    <2>4. CASE stage' = "walk" /\ slots' = Append(slots, [parent |-> n, key |-> k, object |-> x])
      <3>1. WalkAt(R, slots', V)
        BY <1>4, <1>7, <1>9, <2>4, WalkReports
      <3>2. WalkSound'
        BY <1>0, <1>5, <2>1, <3>1, WalkSoundNext
      <3>3. DocShape'
        BY <1>0, <1>7, <2>1, <2>4, <3>1 DEF DocShape, WalkAt
      <3>4. DocPhase'
        BY <1>0, <2>4, <3>2 DEF DocPhase
      <3> QED BY <1>1, <3>3, <3>4
    <2> QED BY <2>2, <2>3, <2>4
  <1>10. CASE kind[x] # "resolvent"
    <2>1. frames' = R \o Call(x) /\ slots' = slots /\ stage' = "walk"
      BY <1>6, <1>10
    <2>2. IsCall(x, Call(x))
      BY <1>0, <1>8, CallIs
    <2>3. Pushed(R, Call(x), frames')
      BY <1>7, <2>1, <2>2, PushedIs DEF IsCall
    <2>4. WalkAt(frames', slots', V \cup {x})
      BY <1>4, <1>7, <1>10, <2>1, <2>2, <2>3, WalkGoesOn
    <2>5. WalkSound'
      BY <1>0, <1>5, <2>4, WalkSoundNext
    <2>6. DocShape'
      BY <1>0, <2>1, <2>4 DEF DocShape, WalkAt
    <2>7. DocPhase'
      BY <1>0, <2>1, <2>5 DEF DocPhase
    <2> QED BY <1>1, <2>6, <2>7
  <1> QED BY <1>9, <1>10

LEMMA LeaveKeeps == DocInv /\ Leave => DocInv'
  <1> SUFFICES ASSUME DocInv, Leave PROVE DocInv'
    OBVIOUS
  <1> USE DEF DocInv
  <1>0. /\ stage = "walk" /\ kids = payload /\ bodies = <<>> /\ WalkSound
        /\ UNCHANGED <<kind, payload, path, attach, kids, pos, at, parent, slots, bodies>>
    BY DEF Leave, docGiven, DocPhase
  <1>1. DocTree' /\ Located'
    BY <1>0, PlaceStays
  <1>2. CASE frames = <<>>
    <2>1. stage' = "substitute" /\ frames' = frames
      BY <1>2 DEF Leave
    <2>2. FoundAll'
      BY <1>0, <1>2, WalkIsComplete, FoundStays
    <2>3. FoundInOrder(slots)' /\ Spliced'
      BY <1>0 DEF WalkSound, FoundInOrder, Spliced, DocShape
    <2>4. DocShape'
      BY <1>0, <2>1 DEF DocShape
    <2>5. DocPhase'
      BY <2>1, <2>2, <2>3 DEF DocPhase
    <2> QED BY <1>1, <2>4, <2>5
  <1>3. CASE frames # <<>>
    <2>1. frames[Len(frames)].left = {} /\ frames' = Front(frames) /\ stage' = stage
      BY <1>3 DEF Leave
    <2>2. frames \in Seq(Pending) /\ slots \in Seq(Slots)
      BY DEF DocShape
    <2>3. frames' \in Seq(Pending) /\ Len(frames') = Len(frames) - 1 /\ \A i \in 1 .. Len(frames') : frames'[i] = frames[i]
      BY <1>3, <2>1, <2>2, FrontIs
    <2>4. PICK V : WalkAt(frames, slots, V)
      BY <1>0, <2>2 DEF WalkSound, WalkAt
    <2>5. pos = Len(path) /\ ~(parent # Nothing /\ kind[at] = "resolvent")
      BY <1>0 DEF WalkSound
    <2>6. WalkAt(frames', slots', V)
      BY <1>0, <1>3, <2>1, <2>3, <2>4, WalkReturns
    <2>7. WalkSound'
      BY <1>0, <2>5, <2>6, WalkSoundNext
    <2>8. DocShape'
      BY <1>0, <2>1, <2>3 DEF DocShape
    <2>9. DocPhase'
      BY <1>0, <2>1, <2>7 DEF DocPhase
    <2> QED BY <1>1, <2>8, <2>9
  <1> QED BY <1>2, <1>3

\* A body goes to a slot of its own.
LEMMA SpliceKeeps == DocInv /\ Splice => DocInv'
  <1> SUFFICES ASSUME DocInv, Splice PROVE DocInv'
    OBVIOUS
  <1> USE DEF DocInv
  <1> DEFINE i == Len(bodies) + 1
             f == slots[i]
  <1>0. /\ stage = "substitute" /\ Len(bodies) < Len(slots)
        /\ FoundAll /\ FoundInOrder(slots) /\ Spliced
        /\ UNCHANGED <<kind, payload, path, attach, pos, at, parent, frames, slots>>
        /\ Size \in Nat /\ Len(bodies) \in Nat /\ Len(slots) \in Nat
    BY DocAssumption DEF Splice, docGiven, DocPhase, DocShape
  <1>1. DocTree' /\ Located'
    BY <1>0, PlaceStays
  <1>2. i \in 1 .. Len(slots) /\ \A j \in 1 .. Len(bodies) : j \in 1 .. Len(slots) /\ j < i
    BY <1>0
  <1>3. f \in Slots
    BY <1>2, ElementOfSeq DEF DocShape
  <1>4. f.parent \in Nodes /\ f.key \in Keys /\ f.object \in Nodes
    BY <1>3 DEF Slots
  <1>5. FoundAll' /\ FoundInOrder(slots)'
    BY <1>0, FoundStays DEF FoundInOrder
  <1>6. CASE stage' = "failed" /\ bodies' = bodies /\ kids' = kids
    <2>1. DocShape'
      BY <1>0, <1>6 DEF DocShape
    <2>2. DocPhase'
      BY <1>6 DEF DocPhase
    <2> QED BY <1>1, <2>1, <2>2
  <1>7. ASSUME NEW type \in ObjectTypes,
               bodies' = Append(bodies, [kind |-> type, marker |-> IF attach THEN f.object ELSE Nothing]),
               kids' = [kids EXCEPT ![f.parent][f.key] = Size + Len(bodies) + 1], stage' = stage
        PROVE  DocInv'
    <2> DEFINE b == [kind |-> type, marker |-> IF attach THEN f.object ELSE Nothing]
               B == [kind : ObjectTypes, marker : 0 .. Size]
    <2>1. b \in B /\ b.marker = IF attach THEN f.object ELSE Nothing
      BY <1>0, <1>4 DEF Nodes, Nothing, DocShape
    <2>2. bodies \in Seq(B)
      BY DEF DocShape
    <2> HIDE DEF b, B
    <2>3. /\ bodies' \in Seq(B) /\ Len(bodies') = i /\ bodies'[i] = b
          /\ \A j \in 1 .. Len(bodies) : bodies'[j] = bodies[j]
      BY <1>7, <2>1, <2>2, AppendProperties DEF b
    <2>4. kids \in [Nodes -> [Keys -> Nat]]
      BY DEF DocShape
    <2> HIDE DEF f
    <2>5. /\ kids' \in [Nodes -> [Keys -> Nat]] /\ kids'[f.parent][f.key] = Size + i
          /\ \A n \in Nodes, k \in Keys : ~(n = f.parent /\ k = f.key) => kids'[n][k] = kids[n][k]
      BY <1>0, <1>4, <1>7, <2>4
    <2> HIDE DEF i
    <2>6. DocShape'
      BY <1>0, <1>7, <2>3, <2>5 DEF DocShape, B
    <2>7. \A j \in 1 .. Len(bodies') : j \in 1 .. Len(bodies) \/ j = i
      BY <1>0, <2>3 DEF i
    <2>8. ASSUME NEW j \in 1 .. Len(bodies)
          PROVE  /\ j \in 1 .. Len(slots) /\ slots[j].parent \in Nodes /\ slots[j].key \in Keys
                 /\ ~(slots[j].parent = f.parent /\ slots[j].key = f.key)
      <3>1. j \in 1 .. Len(slots) /\ j < i
        BY <1>2
      <3>2. slots[j] \in Slots
        BY <3>1, ElementOfSeq DEF DocShape
      <3>3. slots[j].parent \in Nodes /\ slots[j].key \in Keys /\ slots[j].object \in Nodes
        BY <3>2 DEF Slots
      <3>4. slots[j].object < slots[i].object
        BY <1>0, <1>2, <3>1 DEF FoundInOrder
      <3>5. /\ slots[j].object = payload[slots[j].parent][slots[j].key]
            /\ slots[i].object = payload[slots[i].parent][slots[i].key]
        BY <1>0, <1>2, <3>1 DEF FoundInOrder
      <3>6. slots[j].object # slots[i].object
        BY <1>4, <3>3, <3>4 DEF Nodes, f
      <3> QED BY <3>1, <3>3, <3>5, <3>6 DEF f
    <2>9. ASSUME NEW n \in Nodes, NEW k \in Keys,
                 \A j \in 1 .. Len(bodies') : ~(slots[j].parent = n /\ slots[j].key = k)
          PROVE  kids'[n][k] = payload[n][k]
      <3>1. i \in 1 .. Len(bodies') /\ \A j \in 1 .. Len(bodies) : j \in 1 .. Len(bodies')
        BY <1>0, <2>3 DEF i
      <3>2. kids[n][k] = payload[n][k]
        BY <1>0, <2>9, <3>1 DEF Spliced
      <3>3. ~(n = f.parent /\ k = f.key)
        BY <2>9, <3>1 DEF f
      <3> QED BY <2>5, <3>2, <3>3
    <2>10. ASSUME NEW j \in 1 .. Len(bodies')
           PROVE  /\ kids'[slots[j].parent][slots[j].key] = Size + j
                  /\ bodies'[j].marker = IF attach THEN slots[j].object ELSE Nothing
      <3>1. CASE j = i
        BY <2>1, <2>3, <2>5, <3>1 DEF f
      <3>2. CASE j \in 1 .. Len(bodies)
        <4>1. /\ kids[slots[j].parent][slots[j].key] = Size + j
              /\ bodies[j].marker = IF attach THEN slots[j].object ELSE Nothing
          BY <1>0, <3>2 DEF Spliced
        <4> QED BY <2>3, <2>5, <2>8, <3>2, <4>1
      <3> QED BY <2>7, <3>1, <3>2
    <2>11. Spliced'
      <3>1. Len(bodies') <= Len(slots)
        BY <1>0, <1>2, <2>3
      <3> QED BY <1>0, <2>9, <2>10, <3>1 DEF Spliced
    <2>12. DocPhase'
      BY <1>0, <1>5, <1>7, <2>11 DEF DocPhase
    <2> QED BY <1>1, <2>6, <2>12
  <1> QED BY <1>6, <1>7 DEF Splice

LEMMA EncodeKeeps == DocInv /\ Encode => DocInv'
  <1> SUFFICES ASSUME DocInv, Encode PROVE DocInv'
    OBVIOUS
  <1> USE DEF DocInv
  <1>0. /\ stage = "substitute" /\ Len(bodies) = Len(slots) /\ stage' \in {"done", "failed"}
        /\ FoundAll /\ FoundInOrder(slots) /\ Spliced
        /\ UNCHANGED <<kind, payload, path, attach, kids, pos, at, parent, frames, slots, bodies>>
    BY DEF Encode, docGiven, DocPhase
  <1>1. DocTree' /\ Located'
    BY <1>0, PlaceStays
  <1>2. DocShape'
    BY <1>0 DEF DocShape
  <1>3. FoundAll' /\ FoundInOrder(slots)' /\ Spliced'
    BY <1>0, FoundStays DEF FoundInOrder, Spliced
  <1>4. DocPhase'
    BY <1>0, <1>3 DEF DocPhase
  <1> QED BY <1>1, <1>2, <1>4

LEMMA DocStutter == DocInv /\ UNCHANGED docVars => DocInv'
  <1> SUFFICES ASSUME DocInv, UNCHANGED docVars PROVE DocInv'
    OBVIOUS
  <1> USE DEF DocInv
  <1>0. UNCHANGED <<kind, payload, path, attach, kids, stage, pos, at, parent, frames, slots, bodies>>
    BY DEF docVars, docGiven
  <1>1. DocTree' /\ Located'
    BY <1>0, PlaceStays
  <1>2. DocShape'
    BY <1>0 DEF DocShape
  <1>3. ASSUME stage \in {"substitute", "done"} PROVE FoundAll' /\ FoundInOrder(slots)' /\ Spliced'
    BY <1>0, <1>3, FoundStays DEF FoundInOrder, Spliced, DocPhase
  <1>4. ASSUME stage = "walk" PROVE WalkSound'
    <2>1. /\ WalkSound /\ frames' \in Seq(Pending) /\ slots' \in Seq(Slots)
          /\ frames' = frames /\ slots' = slots
      BY <1>0, <1>4 DEF DocPhase, DocShape
    <2>2. PICK V : WalkAt(frames', slots', V)
      BY <2>1 DEF WalkSound, WalkAt
    <2> QED BY <1>0, <2>1, <2>2, WalkSoundNext DEF WalkSound
  <1>5. DocPhase'
    BY <1>0, <1>3, <1>4 DEF DocPhase
  <1> QED BY <1>1, <1>2, <1>5
-----------------------------------------------------------------------------
(* The document when all is substituted.                                   *)

LEMMA PathIs ==
  ASSUME DocShape
  PROVE  /\ Len(path) \in Nat
         /\ path # <<>> => Len(path) # 0 /\ Len(path) - 1 \in 0 .. Len(path)
         /\ \A j \in 1 .. Len(path) : path[j] \in Keys /\ j - 1 \in 0 .. Len(path) /\ j \in 0 .. Len(path)
  <1>1. path \in Seq(Keys)
    BY DEF DocShape
  <1>2. Len(path) \in Nat /\ (path # <<>> => Len(path) # 0) /\ \A j \in 1 .. Len(path) : path[j] \in Keys
    BY <1>1, ElementOfSeq
  <1> QED BY <1>2

LEMMA WayNodes ==
  ASSUME NEW t, NEW f \in Ways(t), NEW j \in 0 .. Len(path)
  PROVE  f[j] \in Nodes /\ f[j] \in Nat /\ f[j] # Nothing
  <1>1. f \in [0 .. Len(path) -> Nodes]
    BY DEF Ways
  <1>2. f[j] \in Nodes
    BY <1>1
  <1> QED BY <1>2, DocAssumption DEF Nodes, Nothing

LEMMA WayRises ==
  ASSUME DocShape, DocTree, NEW f \in Ways(payload), NEW i \in 0 .. Len(path), NEW j \in 0 .. Len(path), i < j
  PROVE  f[i] < f[j]
  <1> DEFINE Bad == {l \in i + 1 .. Len(path) : ~(f[i] < f[l])}
  <1>0. Len(path) \in Nat /\ \A l \in 0 .. Len(path) : f[l] \in Nodes /\ f[l] \in Nat
    BY PathIs, WayNodes
  <1>1. ASSUME NEW l \in 1 .. Len(path) PROVE f[l - 1] < f[l] /\ l - 1 \in 0 .. Len(path)
    <2>1. l - 1 \in 0 .. Len(path) /\ l \in 0 .. Len(path)
      BY <1>0
    <2>2. path[l] \in Keys
      BY ElementOfSeq DEF DocShape
    <2>3. payload[f[l - 1]][path[l]] = f[l] /\ f[l] # Nothing
      BY <1>0, <2>1 DEF Ways, Nodes, Nothing
    <2> QED BY <1>0, <2>1, <2>2, <2>3 DEF DocTree
  <1>2. CASE Bad = {}
    BY <1>0, <1>2
  <1>3. CASE Bad # {}
    <2>1. Bad \subseteq Nat
      BY <1>0
    <2>2. PICK l \in Bad : \A y \in Bad : l <= y
      BY <1>3, <2>1, SmallestMember
    <2>3. l \in 1 .. Len(path) /\ l \in i + 1 .. Len(path) /\ ~(f[i] < f[l])
      BY <1>0, <2>2
    <2>4. l - 1 \notin Bad
      BY <1>0, <2>2, <2>3
    <2>5. l - 1 = i \/ f[i] < f[l - 1]
      BY <1>0, <2>3, <2>4
    <2>6. f[l - 1] < f[l] /\ f[l - 1] \in Nat /\ f[l] \in Nat /\ f[i] \in Nat
      BY <1>0, <1>1, <2>3
    <2> QED BY <2>3, <2>5, <2>6
  <1> QED BY <1>2, <1>3

LEMMA WaysAgree ==
  ASSUME DocShape, NEW f \in Ways(payload), NEW g \in Ways(payload), NEW i \in 0 .. Len(path)
  PROVE  f[i] = g[i]
  <1> DEFINE Bad == {l \in 0 .. Len(path) : f[l] # g[l]}
  <1>0. Len(path) \in Nat
    BY DEF DocShape
  <1>1. CASE Bad = {}
    BY <1>1
  <1>2. CASE Bad # {}
    <2>1. Bad \subseteq Nat
      BY <1>0
    <2>2. PICK l \in Bad : \A y \in Bad : l <= y
      BY <1>2, <2>1, SmallestMember
    <2>3. f[0] = g[0]
      BY DEF Ways
    <2>4. l \in 1 .. Len(path) /\ l - 1 \in 0 .. Len(path) /\ f[l] # g[l]
      BY <1>0, <2>2, <2>3
    <2>5. f[l - 1] = g[l - 1]
      BY <1>0, <2>2, <2>4
    <2>6. payload[f[l - 1]][path[l]] = f[l] /\ payload[g[l - 1]][path[l]] = g[l]
      BY <2>4 DEF Ways
    <2> QED BY <2>4, <2>5, <2>6
  <1> QED BY <1>1, <1>2

\* What is closed under the document as it is now holds a way's nodes as far
\* as its slots are as they were.
WithRoot(S) ==
  S \in SUBSET Nodes /\ Root \in S /\ \A m \in S, k \in Keys : kids[m][k] \in Nodes => kids[m][k] \in S

LEMMA WayKept ==
  ASSUME DocShape, NEW f \in Ways(payload), NEW S, WithRoot(S), NEW l \in 0 .. Len(path),
         \A j \in 1 .. l : kids[f[j - 1]][path[j]] = payload[f[j - 1]][path[j]]
  PROVE  f[l] \in S
  <1> DEFINE Bad == {j \in 0 .. l : f[j] \notin S}
  <1>0. Len(path) \in Nat /\ \A j \in 0 .. l : f[j] \in Nodes /\ j \in Nat
    BY PathIs, WayNodes
  <1>1. CASE Bad = {}
    BY <1>0, <1>1
  <1>2. CASE Bad # {}
    <2>1. Bad \subseteq Nat
      BY <1>0
    <2>2. PICK j \in Bad : \A y \in Bad : j <= y
      BY <1>2, <2>1, SmallestMember
    <2>3. f[0] = Root /\ Root \in S
      BY DEF Ways, WithRoot
    <2>4. j \in 1 .. l /\ j - 1 \in 0 .. l /\ f[j] \notin S /\ f[j] \in Nodes
      BY <1>0, <2>2, <2>3
    <2>5. f[j - 1] \in S
      BY <1>0, <2>2, <2>4
    <2>6. path[j] \in Keys /\ payload[f[j - 1]][path[j]] = f[j]
      <3>1. j \in 1 .. Len(path)
        BY <1>0, <2>4
      <3> QED BY <3>1, ElementOfSeq DEF DocShape, Ways
    <2>7. kids[f[j - 1]][path[j]] = f[j]
      BY <2>4, <2>6
    <2> QED BY <2>4, <2>5, <2>6, <2>7 DEF WithRoot
  <1> QED BY <1>1, <1>2

\* A slot holds its body if it was to be resolved, and what it held if not.
LEMMA Overwritten ==
  ASSUME DocInv, stage = "done", NEW n \in Nodes, NEW k \in Keys
  PROVE  /\ ~ToResolve(payload, n, k) => kids[n][k] = payload[n][k]
         /\ ToResolve(payload, n, k) =>
              \E i \in 1 .. Len(bodies) : kids[n][k] = Size + i /\ kids[n][k] \notin Nodes
         /\ kids[n][k] \in Nodes => kids[n][k] = payload[n][k] /\ ~ToResolve(payload, n, k)
  <1>0. FoundAll /\ Spliced /\ Len(bodies) = Len(slots) /\ Size \in Nat /\ Len(bodies) \in Nat
    BY DocAssumption DEF DocInv, DocPhase, DocShape
  <1>1. ASSUME ~ToResolve(payload, n, k) PROVE kids[n][k] = payload[n][k]
    BY <1>0, <1>1 DEF FoundAll, Spliced
  <1>2. ASSUME ToResolve(payload, n, k)
        PROVE  \E i \in 1 .. Len(bodies) : kids[n][k] = Size + i /\ kids[n][k] \notin Nodes
    <2>1. PICK i \in 1 .. Len(slots) : slots[i].parent = n /\ slots[i].key = k
      BY <1>0, <1>2 DEF FoundAll
    <2>2. i \in 1 .. Len(bodies) /\ kids[n][k] = Size + i
      BY <1>0, <2>1 DEF Spliced
    <2>3. kids[n][k] \notin Nodes
      BY <1>0, <2>2 DEF Nodes
    <2> QED BY <2>2, <2>3
  <1> QED BY <1>1, <1>2

LEMMA OpenedIsAfter ==
  ASSUME DocShape, DocTree, NEW c \in Nodes, NEW n \in Nodes, Opened(payload, c, n)
  PROVE  c <= n
  <1> DEFINE S == {m \in Nodes : c <= m}
  <1>0. \A m \in Nodes : m \in Nat
    BY DEF DocShape, Nodes
  <1>1. Closed(payload, c, S)
    <2>1. c \in S
      BY <1>0
    <2>2. ASSUME NEW m \in S, NEW k \in Keys, Passable(payload, m, k) PROVE payload[m][k] \in S
      <3>1. m \in Nodes /\ payload[m][k] \in Nodes /\ c <= m
        BY <2>2 DEF Passable
      <3>2. m < payload[m][k]
        BY <3>1, PayloadNode DEF DocTree
      <3> QED BY <1>0, <3>1, <3>2
    <2> HIDE DEF S
    <2> QED BY <2>1, <2>2 DEF Closed
  <1>2. S \in SUBSET Nodes
    OBVIOUS
  <1> HIDE DEF S
  <1>3. n \in S
    BY <1>1, <1>2 DEF Opened
  <1> QED BY <1>3 DEF S

\* Every slot that was to be resolved is in a node still in the document.
LEMMA SlotsAttached ==
  ASSUME DocInv, stage = "done", NEW n \in Nodes, NEW k \in Keys, ToResolve(payload, n, k),
         NEW S, WithRoot(S)
  PROVE  n \in S
  <1> USE DEF DocInv
  <1>1. PICK f \in Ways(payload) : Holds(payload, f, n, k)
    BY DEF ToResolve
  <1>2. Len(path) \in Nat /\ \A j \in 0 .. Len(path) : f[j] \in Nodes /\ f[j] \in Nat
    BY PathIs, WayNodes
  <1>3. \A j \in 1 .. Len(path) : path[j] \in Keys /\ j - 1 \in 0 .. Len(path) /\ j \in 0 .. Len(path)
    BY PathIs
  <1> DEFINE l == Len(path)
  <1>4. l \in 0 .. l /\ f[l] \in Nodes
    BY <1>2
  <1>5. ASSUME NEW m \in Nodes, NEW j \in Keys, ToResolve(payload, m, j)
        PROVE  IF path # <<>> /\ kind[f[l]] = "resolvent" THEN m = f[l - 1]
               ELSE IsResolvent(payload, m, j) /\ Opened(payload, f[l], m)
    <2>1. PICK g \in Ways(payload) : Holds(payload, g, m, j)
      BY <1>5 DEF ToResolve
    <2>2. g[l] = f[l]
      BY <1>4, WaysAgree
    <2>3. path # <<>> => g[l - 1] = f[l - 1]
      <3>1. ASSUME path # <<>> PROVE l - 1 \in 0 .. l
        BY <3>1, PathIs
      <3> QED BY <3>1, WaysAgree
    <2> QED BY <2>1, <2>2, <2>3 DEF Holds
  <1>6. CASE path # <<>> /\ kind[f[l]] = "resolvent"
    <2>0. l \in Nat \ {0} /\ l - 1 \in 0 .. l
      BY <1>6, PathIs
    <2>1. n = f[l - 1]
      BY <1>5, <1>6
    <2>2. ASSUME NEW j \in 1 .. l - 1
          PROVE  kids[f[j - 1]][path[j]] = payload[f[j - 1]][path[j]]
      <3>1. j \in 1 .. l /\ j - 1 \in 0 .. l /\ j - 1 < l - 1
        BY <1>2
      <3>2. f[j - 1] < n
        BY <2>0, <2>1, <3>1, WayRises
      <3>3. f[j - 1] # n /\ f[j - 1] \in Nodes /\ path[j] \in Keys
        BY <1>2, <1>3, <2>0, <2>1, <3>1, <3>2
      <3>4. ~ToResolve(payload, f[j - 1], path[j])
        BY <1>5, <1>6, <2>1, <3>3
      <3> QED BY <3>3, <3>4, Overwritten
    <2>3. f[l - 1] \in S
      BY <2>0, <2>2, WayKept
    <2> QED BY <2>1, <2>3
  <1>7. CASE ~(path # <<>> /\ kind[f[l]] = "resolvent")
    <2> DEFINE c == f[l]
    <2>1. Opened(payload, c, n)
      BY <1>5, <1>7
    <2>2. ASSUME NEW j \in 1 .. l PROVE kids[f[j - 1]][path[j]] = payload[f[j - 1]][path[j]]
      <3>1. j - 1 \in 0 .. l /\ j - 1 < l /\ path[j] \in Keys
        BY <1>2, <1>3
      <3>2. f[j - 1] < c /\ f[j - 1] \in Nodes /\ f[j - 1] \in Nat /\ c \in Nat
        BY <1>2, <1>4, <3>1, WayRises
      <3>3. ~Opened(payload, c, f[j - 1])
        BY <1>4, <3>2, OpenedIsAfter
      <3>4. ~ToResolve(payload, f[j - 1], path[j])
        BY <1>5, <1>7, <3>1, <3>2, <3>3
      <3> QED BY <3>1, <3>2, <3>4, Overwritten
    <2>3. c \in S
      BY <1>4, <2>2, WayKept
    <2> DEFINE T == {m \in Nodes : m \in S /\ Opened(payload, c, m)}
    <2> HIDE DEF c
    <2>4. c \in T
      BY <1>4, <2>3 DEF Opened, Closed, c
    <2>5. ASSUME NEW m \in T, NEW j \in Keys, Passable(payload, m, j) PROVE payload[m][j] \in T
      <3>1. m \in Nodes /\ m \in S /\ Opened(payload, c, m) /\ payload[m][j] \in Nodes
        BY <2>5 DEF Passable
      <3>2. ~IsResolvent(payload, m, j)
        BY <2>5, <3>1, PayloadNode DEF Passable
      <3>3. kids[m][j] = payload[m][j]
        <4>1. ~ToResolve(payload, m, j)
          BY <1>5, <1>7, <3>1, <3>2
        <4> QED BY <3>1, <4>1, Overwritten
      <3>4. payload[m][j] \in S
        BY <3>1, <3>3 DEF WithRoot
      <3>5. Opened(payload, c, payload[m][j])
        BY <2>5, <3>1 DEF Opened, Closed
      <3> QED BY <3>1, <3>4, <3>5
    <2>6. T \in SUBSET Nodes
      OBVIOUS
    <2> HIDE DEF T
    <2>7. Closed(payload, c, T)
      BY <2>4, <2>5 DEF Closed
    <2>8. n \in T
      BY <2>1, <2>6, <2>7 DEF Opened, c
    <2> QED BY <2>8 DEF T
  <1> QED BY <1>6, <1>7

\* With a genuine series in every slot, there is nothing to find any more.
LEMMA NoneLeft ==
  ASSUME DocInv, stage = "done", \A i \in 1 .. Len(bodies) : bodies[i].kind = "series",
         NEW n \in Nodes, NEW k \in Keys
  PROVE  ~ToResolve(kids, n, k)
  <1> USE DEF DocInv
  <1> SUFFICES ASSUME NEW f \in Ways(kids), Holds(kids, f, n, k) PROVE FALSE
    BY DEF ToResolve
  <1> DEFINE l == Len(path)
  <1>0. l \in Nat /\ Size \in Nat /\ \A j \in 0 .. l : f[j] \in Nodes
    BY DocAssumption, PathIs, WayNodes
  <1>1. ASSUME NEW j \in 1 .. l
        PROVE  /\ kind[f[j - 1]] \in ObjectTypes /\ payload[f[j - 1]][path[j]] = f[j]
               /\ ~ToResolve(payload, f[j - 1], path[j])
    <2>1. j - 1 \in 0 .. l /\ j \in 0 .. l /\ path[j] \in Keys
      BY PathIs
    <2>2. kind[f[j - 1]] \in ObjectTypes /\ kids[f[j - 1]][path[j]] = f[j]
      BY DEF Ways
    <2> QED BY <1>0, <2>1, <2>2, Overwritten
  <1>2. f \in Ways(payload)
    BY <1>1 DEF Ways
  <1>3. CASE path # <<>> /\ kind[f[l]] = "resolvent"
    <2>1. l \in 1 .. l
      BY <1>0, <1>3 DEF DocShape
    <2>2. Holds(payload, f, f[l - 1], path[l])
      BY <1>3 DEF Holds
    <2>3. ToResolve(payload, f[l - 1], path[l])
      BY <1>2, <2>2 DEF ToResolve
    <2> QED BY <1>1, <2>1, <2>3
  <1>4. CASE ~(path # <<>> /\ kind[f[l]] = "resolvent")
    <2>1. IsResolvent(kids, n, k) /\ Opened(kids, f[l], n)
      BY <1>4 DEF Holds
    <2>2. Opened(payload, f[l], n)
      <3>1. ASSUME NEW S \in SUBSET Nodes, Closed(payload, f[l], S) PROVE Closed(kids, f[l], S)
        <4>1. ASSUME NEW m \in S, NEW j \in Keys, Passable(kids, m, j) PROVE kids[m][j] \in S
          <5>1. kids[m][j] \in Nodes /\ m \in Nodes
            BY <4>1 DEF Passable
          <5>2. kids[m][j] = payload[m][j]
            BY <5>1, Overwritten
          <5>3. Passable(payload, m, j)
            BY <4>1, <5>2 DEF Passable
          <5> QED BY <3>1, <5>2, <5>3 DEF Closed
        <4> QED BY <3>1, <4>1 DEF Closed
      <3> QED BY <2>1, <3>1 DEF Opened
    <2>3. CASE kids[n][k] \in Nodes
      <3>1. kids[n][k] = payload[n][k] /\ ~ToResolve(payload, n, k)
        BY <2>3, Overwritten
      <3>2. IsResolvent(payload, n, k)
        BY <2>1, <3>1 DEF IsResolvent
      <3>3. Holds(payload, f, n, k)
        BY <1>4, <2>2, <3>2 DEF Holds
      <3> QED BY <1>2, <3>1, <3>3 DEF ToResolve
    <2>4. CASE kids[n][k] \notin Nodes
      <3>1. kids[n][k] # Nothing /\ KindOf(kids[n][k]) = "resolvent"
        BY <2>1 DEF IsResolvent
      <3>2. kids[n][k] # payload[n][k]
        BY <2>4, <3>1, PayloadNode
      <3>3. PICK i \in 1 .. Len(bodies) : kids[n][k] = Size + i
        BY <3>2, Overwritten
      <3>4. kids[n][k] - Size = i
        BY <1>0, <3>3
      <3>5. KindOf(kids[n][k]) = bodies[i].kind
        BY <2>4, <3>4 DEF KindOf
      <3> QED BY <3>1, <3>3, <3>5
    <2> QED BY <2>3, <2>4
  <1> QED BY <1>3, <1>4

\* Spec implies the inductive invariant: what locateContainer, walk and
\* Substitute have done so far, whatever the document.
THEOREM DocumentInvariant == DocSpec => []DocInv
  <1>1. DocInit => DocInv
    BY DocInitInv
  <1>2. DocInv /\ [DocNext]_docVars => DocInv'
    BY LocateKeeps, FindKeeps, VisitKeeps, LeaveKeeps, SpliceKeeps, EncodeKeeps, DocStutter DEF DocNext
  <1> QED BY <1>1, <1>2, PTL DEF DocSpec

\* For every document of any size, any keys and any path: exactly the
\* resolvents in the container are found, once and in document order, each one
\* is replaced by its own series where it stands, and nothing else changes.
THEOREM FoundAndReplaced == DocSpec => []FoundAllReplaced
  <1>1. ASSUME DocInv, stage \in {"substitute", "done"} PROVE FoundAll
    BY <1>1 DEF DocInv, DocPhase
  <1>2. ASSUME DocInv, stage = "done" PROVE ReplacedThem
    <2>0. FoundAll /\ Spliced /\ Len(bodies) = Len(slots)
      BY <1>2 DEF DocInv, DocPhase
    <2>1. \A n \in Nodes, k \in Keys : ~ToResolve(payload, n, k) => kids[n][k] = payload[n][k]
      BY <1>2, Overwritten
    <2>2. ASSUME NEW i \in 1 .. Len(slots)
          PROVE  /\ kids[slots[i].parent][slots[i].key] = Size + i /\ Attached(slots[i].parent)
                 /\ bodies[i].marker = IF attach THEN payload[slots[i].parent][slots[i].key] ELSE Nothing
      <3>1. slots[i] \in Slots
        BY <1>2, ElementOfSeq DEF DocInv, DocShape
      <3>2. slots[i].parent \in Nodes /\ slots[i].key \in Keys
        BY <3>1 DEF Slots
      <3>3. ToResolve(payload, slots[i].parent, slots[i].key)
        BY <2>0, <3>2 DEF FoundAll
      <3>4. Attached(slots[i].parent)
        BY <1>2, <3>2, <3>3, SlotsAttached DEF Attached, WithRoot
      <3>5. /\ kids[slots[i].parent][slots[i].key] = Size + i
            /\ bodies[i].marker = IF attach THEN slots[i].object ELSE Nothing
        BY <2>0 DEF Spliced
      <3>6. slots[i].object = payload[slots[i].parent][slots[i].key]
        BY <2>0 DEF FoundAll
      <3> QED BY <3>4, <3>5, <3>6
    <2> QED BY <2>1, <2>2 DEF ReplacedThem
  <1>3. ASSUME DocInv, stage = "done" PROVE LeftNone
    BY <1>3, NoneLeft DEF LeftNone
  <1>4. DocInv => FoundAllReplaced
    BY <1>1, <1>2, <1>3 DEF FoundAllReplaced
  <1> QED BY <1>4, DocumentInvariant, PTL
-----------------------------------------------------------------------------
(* Finding and substituting end, on every document.                        *)

\* What walk may still visit: the nodes from the next slot on.
ToWalk(F) == {x \in Nodes : \E i \in 1 .. Len(F) : \E k \in F[i].left : payload[F[i].node][k] <= x}

\* The steps left, at most.
DocStepsLeft ==
  IF stage = "locate" THEN Len(path) - pos + 3 * Size + 4
  ELSE IF stage = "walk" THEN 2 * Cardinality(ToWalk(frames)) + Len(frames) + Size + 1
  ELSE IF stage = "substitute" THEN Len(slots) - Len(bodies) + 1
  ELSE 0

\* A rising sequence is no longer than its range.
Rises(f, l, a, b) ==
  /\ a \in Nat /\ b \in Nat /\ a <= b + 1 /\ l \in Nat /\ f \in [1 .. l -> a .. b]
  /\ \A i, j \in 1 .. l : i < j => f[i] < f[j]
LEMMA RisingFits ==
  ASSUME NEW f, NEW l, NEW a, NEW b, Rises(f, l, a, b)
  PROVE  l <= b - a + 1
  <1> USE DEF Rises
  <1>1. IsFiniteSet(a .. b) /\ Cardinality(a .. b) = b - a + 1
    <2>1. a \in Int /\ b \in Int
      OBVIOUS
    <2>2. IsFiniteSet(a .. b) /\ Cardinality(a .. b) = IF a > b THEN 0 ELSE b - a + 1
      BY <2>1, FS_Interval
    <2> QED BY <2>2
  <1>2. IsFiniteSet(1 .. l) /\ Cardinality(1 .. l) = l
    BY FS_Interval
  <1>3. f \in Injection(1 .. l, a .. b)
    <2>1. \A i, j \in 1 .. l : f[i] = f[j] => i = j
      <3>1. ASSUME NEW i \in 1 .. l, NEW j \in 1 .. l, i # j PROVE f[i] # f[j]
        <4>1. f[i] \in Int /\ f[j] \in Int /\ (i < j \/ j < i)
          BY <3>1
        <4> QED BY <4>1
      <3> QED BY <3>1
    <2> QED BY <2>1 DEF Injection, IsInjective
  <1> QED BY <1>1, <1>2, <1>3, FS_Injection

\* Each call of walk is at another node, each resolvent found another object,
\* and none is the root.
LEMMA CallsFit ==
  ASSUME DocShape, CallsSound(frames)
  PROVE  Len(frames) <= Size
  <1> DEFINE f == [i \in 1 .. Len(frames) |-> frames[i].node]
  <1>1. Len(frames) \in Nat /\ Size \in Nat
    BY DocAssumption DEF DocShape
  <1>2. \A i \in 1 .. Len(frames) : frames[i] \in Pending
    BY ElementOfSeq DEF DocShape
  <1>3. f \in [1 .. Len(frames) -> 1 .. Size]
    BY <1>2 DEF Pending, Nodes
  <1>4. \A i, j \in 1 .. Len(frames) : i < j => f[i] < f[j]
    BY DEF CallsSound
  <1> HIDE DEF f
  <1>5. Rises(f, Len(frames), 1, Size)
    BY <1>1, <1>3, <1>4 DEF Rises
  <1>6. Len(frames) <= Size - 1 + 1
    BY <1>5, RisingFits
  <1> QED BY <1>1, <1>6

LEMMA SlotsFit ==
  ASSUME DocShape, DocTree, FoundInOrder(slots)
  PROVE  Len(slots) < Size
  <1> DEFINE f == [i \in 1 .. Len(slots) |-> slots[i].object]
  <1>1. Len(slots) \in Nat /\ Size \in Nat \ {0}
    BY DocAssumption DEF DocShape
  <1>2. ASSUME NEW i \in 1 .. Len(slots) PROVE f[i] \in 2 .. Size
    <2>1. slots[i] \in Slots
      BY ElementOfSeq DEF DocShape
    <2>2. /\ slots[i].parent \in Nodes /\ slots[i].key \in Keys /\ slots[i].object \in Nodes
          /\ slots[i].object = payload[slots[i].parent][slots[i].key]
      BY <2>1 DEF Slots, FoundInOrder
    <2>3. slots[i].object # Nothing
      BY <2>2 DEF Nodes, Nothing
    <2>4. slots[i].parent < slots[i].object
      BY <2>2, <2>3 DEF DocTree
    <2> QED BY <1>1, <2>2, <2>4 DEF Nodes
  <1>3. f \in [1 .. Len(slots) -> 2 .. Size]
    BY <1>2
  <1>4. \A i, j \in 1 .. Len(slots) : i < j => f[i] < f[j]
    BY DEF FoundInOrder
  <1> HIDE DEF f
  <1>5. Rises(f, Len(slots), 2, Size)
    BY <1>1, <1>3, <1>4 DEF Rises
  <1>6. Len(slots) <= Size - 2 + 1
    BY <1>5, RisingFits
  <1> QED BY <1>1, <1>6

LEMMA ToWalkCounted ==
  ASSUME NEW F
  PROVE  /\ IsFiniteSet(ToWalk(F)) /\ Cardinality(ToWalk(F)) \in Nat
         /\ Cardinality(ToWalk(F)) <= Size
  <1>1. Size \in Nat
    BY DocAssumption
  <1>2. IsFiniteSet(Nodes) /\ Cardinality(Nodes) = Size
    BY <1>1, FS_Interval DEF Nodes
  <1>3. ToWalk(F) \in SUBSET Nodes
    BY DEF ToWalk
  <1> QED BY <1>2, <1>3, FS_Subset, FS_CardinalityType

\* Visiting a slot leaves only later ones.
LEMMA ToWalkShrinks ==
  ASSUME DocShape, NEW F \in Seq(Pending), NEW G \in Seq(Pending), F # <<>>,
         NEW k, k \in F[Len(F)].left, NEW x \in Nodes, x = payload[F[Len(F)].node][k],
         \A i \in 1 .. Len(G) : \A j \in G[i].left : x < payload[G[i].node][j]
  PROVE  Cardinality(ToWalk(G)) < Cardinality(ToWalk(F))
  <1>1. Len(F) \in 1 .. Len(F)
    OBVIOUS
  <1>2. \A m \in Nodes : m \in Nat
    BY DocAssumption DEF Nodes
  <1>3. x \in ToWalk(F)
    BY <1>1, <1>2 DEF ToWalk
  <1>4. ASSUME NEW m \in ToWalk(G) PROVE m \in ToWalk(F) \ {x}
    <2>1. PICK i \in 1 .. Len(G) : \E j \in G[i].left : payload[G[i].node][j] <= m
      BY DEF ToWalk
    <2>2. PICK j \in G[i].left : payload[G[i].node][j] <= m
      BY <2>1
    <2>3. G[i] \in Pending
      BY ElementOfSeq
    <2>4. G[i].node \in Nodes /\ j \in Keys
      BY <2>3 DEF Pending
    <2>5. payload[G[i].node][j] \in Nat
      <3>1. payload[G[i].node][j] \in 0 .. Size
        BY <2>4 DEF DocShape
      <3> QED BY <3>1, DocAssumption
    <2>6. x < payload[G[i].node][j]
      BY <2>2
    <2>7. m \in Nodes /\ m \in Nat /\ x \in Nat
      BY <1>2 DEF ToWalk
    <2>8. x < m /\ payload[F[Len(F)].node][k] <= m
      BY <2>2, <2>5, <2>6, <2>7
    <2>9. m \in ToWalk(F)
      BY <1>1, <2>7, <2>8 DEF ToWalk
    <2> QED BY <2>7, <2>8, <2>9
  <1>5. ToWalk(G) \in SUBSET (ToWalk(F) \ {x})
    BY <1>4
  <1>6. /\ IsFiniteSet(ToWalk(F) \ {x})
        /\ Cardinality(ToWalk(F) \ {x}) = Cardinality(ToWalk(F)) - 1
    <2>1. IsFiniteSet(ToWalk(F))
      BY ToWalkCounted
    <2> QED BY <1>3, <2>1, FS_RemoveElement
  <1>7. Cardinality(ToWalk(G)) <= Cardinality(ToWalk(F) \ {x})
    BY <1>5, <1>6, FS_Subset
  <1> QED BY <1>6, <1>7, ToWalkCounted

\* Returning from a call leaves as much.
LEMMA ToWalkReturns ==
  ASSUME NEW F \in Seq(Pending), NEW G \in Seq(Pending), Len(G) <= Len(F),
         \A i \in 1 .. Len(G) : G[i] = F[i]
  PROVE  Cardinality(ToWalk(G)) <= Cardinality(ToWalk(F))
  <1>1. \A i \in 1 .. Len(G) : i \in 1 .. Len(F)
    OBVIOUS
  <1>2. ToWalk(G) \in SUBSET ToWalk(F)
    BY <1>1 DEF ToWalk
  <1> QED BY <1>2, ToWalkCounted, FS_Subset

\* The counts of DocStepsLeft.
LEMMA DocCounts ==
  ASSUME DocInv
  PROVE  /\ Size \in Nat \ {0} /\ Len(path) \in Nat /\ pos \in Nat /\ pos <= Len(path)
         /\ Len(frames) \in Nat /\ Len(slots) \in Nat /\ Len(bodies) \in Nat
         /\ Cardinality(ToWalk(frames)) \in Nat
         /\ stage = "walk" => Len(frames) <= Size
         /\ stage \in {"walk", "substitute"} => Len(slots) < Size
         /\ stage = "substitute" => Len(bodies) <= Len(slots)
         /\ stage \in {"locate", "walk"} => Len(bodies) = 0
         /\ stage = "locate" => Len(slots) = 0
  <1>1. DocShape /\ DocTree /\ DocPhase
    BY DEF DocInv
  <1>2. /\ Size \in Nat \ {0} /\ Len(path) \in Nat /\ pos \in Nat /\ pos <= Len(path)
        /\ Len(frames) \in Nat /\ Len(slots) \in Nat /\ Len(bodies) \in Nat
    BY <1>1, DocAssumption DEF DocShape
  <1>3. stage = "walk" => CallsSound(frames)
    BY <1>1 DEF DocPhase, WalkSound
  <1>4. stage \in {"walk", "substitute"} => FoundInOrder(slots)
    BY <1>1 DEF DocPhase, WalkSound
  <1>5. stage = "substitute" => Len(bodies) <= Len(slots)
    BY <1>1 DEF DocPhase, Spliced
  <1>6. /\ stage \in {"locate", "walk"} => Len(bodies) = 0
        /\ stage = "locate" => Len(slots) = 0
    BY <1>1 DEF DocPhase
  <1> QED BY <1>1, <1>2, <1>3, <1>4, <1>5, <1>6, CallsFit, SlotsFit, ToWalkCounted

LEMMA VisitShrinks ==
  ASSUME DocInv, Visit, stage' = "walk"
  PROVE  /\ Cardinality(ToWalk(frames')) < Cardinality(ToWalk(frames))
         /\ Len(frames') <= Len(frames) + 1
  <1> USE DEF DocInv
  <1> DEFINE top == frames[Len(frames)]
             k == Min(top.left)
             R == [frames EXCEPT ![Len(frames)].left = @ \ {k}]
             n == top.node
             x == payload[n][k]
  <1>0. /\ stage = "walk" /\ frames # <<>> /\ top.left # {} /\ kids = payload /\ WalkSound
    BY DEF Visit, docGiven, DocPhase
  <1>1. frames \in Seq(Pending) /\ CallsSound(frames) /\ Len(frames) \in Nat
    BY <1>0 DEF DocShape, WalkSound
  <1>2. RestOf(frames, k, R)
    BY <1>0, <1>1, RestIs
  <1>3. frames' = R \/ frames' = R \o Call(x)
    BY <1>0 DEF Visit
  <1>4. R \in Seq(Pending) /\ Len(R) = Len(frames)
    BY <1>2 DEF RestOf
  <1> HIDE DEF R, k
  <1>5. /\ k \in Keys /\ k \in top.left /\ n \in Nodes /\ x \in Nodes /\ n < x
        /\ \A i \in 1 .. Len(R) : \A j \in R[i].left : x < payload[R[i].node][j]
    BY <1>0, <1>1, <1>2, NextIsFirst DEF k
  <1> HIDE DEF top, n, x
  <1>6. k \in frames[Len(frames)].left /\ x = payload[frames[Len(frames)].node][k]
    BY <1>5 DEF top, n, x
  <1>7. CASE frames' = R
    BY <1>0, <1>1, <1>4, <1>5, <1>6, <1>7, ToWalkShrinks
  <1>8. CASE frames' = R \o Call(x)
    <2> DEFINE C == Call(x)
    <2>1. IsCall(x, C)
      BY <1>0, <1>5, CallIs
    <2>2. Pushed(R, C, frames')
      BY <1>4, <1>8, <2>1, PushedIs DEF IsCall
    <2>3. frames' \in Seq(Pending) /\ Len(frames') <= Len(frames) + 1
      BY <1>4, <2>2 DEF Pushed
    <2> HIDE DEF C
    <2>4. ASSUME C # <<>>, NEW j \in C[1].left PROVE x < payload[C[1].node][j]
      <3>1. C[1] \in Pending
        BY <2>1, <2>4, ElementOfSeq DEF IsCall
      <3>2. j \in Keys /\ C[1].node = x /\ payload[x][j] # Nothing
        BY <2>1, <2>4, <3>1 DEF IsCall, Pending
      <3> QED BY <1>5, <3>2 DEF DocTree
    <2>5. ASSUME NEW i \in 1 .. Len(frames'), NEW j \in frames'[i].left
          PROVE  x < payload[frames'[i].node][j]
      <3>1. CASE i \in 1 .. Len(R)
        <4>1. frames'[i] = R[i]
          BY <2>2, <3>1 DEF Pushed
        <4> QED BY <1>5, <3>1, <4>1
      <3>2. CASE C # <<>> /\ frames'[i] = C[1]
        BY <2>4, <3>2
      <3> QED BY <2>2, <3>1, <3>2 DEF Pushed
    <2>6. Cardinality(ToWalk(frames')) < Cardinality(ToWalk(frames))
      BY <1>0, <1>1, <1>5, <1>6, <2>3, <2>5, ToWalkShrinks
    <2> QED BY <2>3, <2>6
  <1> QED BY <1>3, <1>7, <1>8

LEMMA DocShrinks == DocInv /\ DocInv' /\ DocNext => DocStepsLeft' < DocStepsLeft
  <1> SUFFICES ASSUME DocInv, DocInv', DocNext PROVE DocStepsLeft' < DocStepsLeft
    OBVIOUS
  <1>1. /\ Size \in Nat \ {0} /\ Len(path) \in Nat /\ pos \in Nat /\ pos <= Len(path)
        /\ Len(frames) \in Nat /\ Len(slots) \in Nat /\ Len(bodies) \in Nat
        /\ Cardinality(ToWalk(frames)) \in Nat
        /\ stage = "walk" => Len(frames) <= Size
        /\ stage \in {"walk", "substitute"} => Len(slots) < Size
        /\ stage = "substitute" => Len(bodies) <= Len(slots)
        /\ stage \in {"locate", "walk"} => Len(bodies) = 0
        /\ stage = "locate" => Len(slots) = 0
    BY DocCounts
  <1>2. path' = path /\ payload' = payload
    BY DEF DocNext, Locate, Find, Visit, Leave, Splice, Encode, docGiven
  <1>3. ToWalk(frames)' = ToWalk(frames')
    BY <1>2 DEF ToWalk
  <1>4. /\ Cardinality(ToWalk(frames')) \in Nat /\ Cardinality(ToWalk(frames')) <= Size
        /\ Cardinality(ToWalk(frames)) <= Size
    BY ToWalkCounted
  <1>5. stage' = "failed" => DocStepsLeft' = 0
    BY DEF DocStepsLeft
  <1>6. /\ stage = "locate" => DocStepsLeft = Len(path) - pos + 3 * Size + 4
        /\ stage = "walk" => DocStepsLeft = 2 * Cardinality(ToWalk(frames)) + Len(frames) + Size + 1
        /\ stage = "substitute" => DocStepsLeft = Len(slots) - Len(bodies) + 1
    BY DEF DocStepsLeft
  <1>7. /\ stage' = "locate" => DocStepsLeft' = Len(path) - pos' + 3 * Size + 4
        /\ stage' = "walk" => DocStepsLeft' = 2 * Cardinality(ToWalk(frames')) + Len(frames') + Size + 1
        /\ stage' = "substitute" => DocStepsLeft' = Len(slots') - Len(bodies') + 1
        /\ stage' \in {"done", "failed"} => DocStepsLeft' = 0
    BY <1>2, <1>3 DEF DocStepsLeft
  <1>8. CASE Locate
    <2>1. /\ stage = "locate" /\ pos < Len(path) /\ slots' = slots /\ bodies' = bodies
          /\ (stage' = stage /\ pos' = pos + 1) \/ stage' = "substitute"
      BY <1>8 DEF Locate
    <2>2. CASE stage' = stage /\ pos' = pos + 1
      BY <1>1, <1>6, <1>7, <2>1, <2>2
    <2>3. CASE stage' = "substitute"
      BY <1>1, <1>6, <1>7, <2>1, <2>3
    <2> QED BY <2>1, <2>2, <2>3
  <1>9. CASE Find
    <2>1. stage = "locate" /\ pos = Len(path) /\ bodies' = bodies
      BY <1>9 DEF Find
    <2>2. \/ stage' = "failed"
          \/ stage' = "substitute" /\ \E s : slots' = Append(slots, s)
          \/ stage' = "walk" /\ frames' = Call(at)
      BY <1>9 DEF Find, Report
    <2>3. CASE stage' = "failed"
      BY <1>1, <1>6, <1>7, <2>1, <2>3
    <2>4. CASE stage' = "substitute" /\ \E s : slots' = Append(slots, s)
      <3>1. slots' \in Seq(Slots) /\ slots \in Seq(Slots)
        BY DEF DocInv, DocShape
      <3>2. Len(slots') = 1
        BY <1>1, <2>1, <2>4, <3>1
      <3> QED BY <1>1, <1>6, <1>7, <2>1, <2>4, <3>2
    <2>5. CASE stage' = "walk" /\ frames' = Call(at)
      <3>1. DocShape /\ DocTree /\ kids = payload /\ at \in Nodes
        BY <2>1 DEF DocInv, DocPhase, DocShape
      <3>2. Len(frames') = 0 \/ Len(frames') = 1
        <4>1. IsCall(at, Call(at))
          BY <3>1, CallIs
        <4>2. Call(at) = <<>> \/ Len(Call(at)) = 1
          BY <4>1 DEF IsCall
        <4> QED BY <2>5, <4>2
      <3>3. /\ DocStepsLeft = Len(path) - pos + 3 * Size + 4
            /\ DocStepsLeft' = 2 * Cardinality(ToWalk(frames')) + Len(frames') + Size + 1
        BY <1>6, <1>7, <2>1, <2>5
      <3>4. DocStepsLeft = 3 * Size + 4
        BY <1>1, <2>1, <3>3
      <3>5. Len(frames') \in Nat /\ Len(frames') <= 1
        <4>1. Len(frames') \in Nat
          BY DEF DocInv, DocShape
        <4> QED BY <3>2, <4>1
      <3> QED BY <1>1, <1>4, <3>3, <3>4, <3>5
    <2> QED BY <2>2, <2>3, <2>4, <2>5
  <1>10. CASE Visit
    <2>1. stage = "walk" /\ stage' \in {"walk", "failed"}
      BY <1>10 DEF Visit, Report
    <2>2. CASE stage' = "walk"
      <3>1. /\ Cardinality(ToWalk(frames')) < Cardinality(ToWalk(frames))
            /\ Len(frames') <= Len(frames) + 1
        BY <1>10, <2>2, VisitShrinks
      <3>2. Len(frames') \in Nat
        BY DEF DocInv, DocShape
      <3> QED BY <1>1, <1>4, <1>6, <1>7, <2>1, <2>2, <3>1, <3>2
    <2>3. CASE stage' = "failed"
      BY <1>1, <1>6, <1>7, <2>1, <2>3
    <2> QED BY <2>1, <2>2, <2>3
  <1>11. CASE Leave
    <2>1. stage = "walk" /\ slots' = slots /\ bodies' = bodies
      BY <1>11 DEF Leave
    <2>2. CASE frames = <<>>
      <3>1. stage' = "substitute"
        BY <1>11, <2>2 DEF Leave
      <3> QED BY <1>1, <1>6, <1>7, <2>1, <3>1
    <2>3. CASE frames # <<>>
      <3>1. frames' = Front(frames) /\ stage' = "walk" /\ frames \in Seq(Pending)
        BY <1>11, <2>1, <2>3 DEF Leave, DocInv, DocShape
      <3>2. frames' \in Seq(Pending) /\ Len(frames') = Len(frames) - 1 /\ \A i \in 1 .. Len(frames') : frames'[i] = frames[i]
        BY <2>3, <3>1, FrontIs
      <3>3. Cardinality(ToWalk(frames')) <= Cardinality(ToWalk(frames))
        BY <1>1, <3>1, <3>2, ToWalkReturns
      <3> QED BY <1>1, <1>4, <1>6, <1>7, <2>1, <3>1, <3>2, <3>3
    <2> QED BY <2>2, <2>3
  <1>12. CASE Splice
    <2>1. /\ stage = "substitute" /\ Len(bodies) < Len(slots) /\ slots' = slots
          /\ stage' = "failed" \/ (stage' = stage /\ \E b : bodies' = Append(bodies, b))
      BY <1>12 DEF Splice
    <2>2. CASE stage' = "failed"
      BY <1>1, <1>6, <1>7, <2>1, <2>2
    <2>3. CASE stage' = stage /\ \E b : bodies' = Append(bodies, b)
      <3>1. \E S : bodies \in Seq(S)
        BY DEF DocInv, DocShape
      <3>2. Len(bodies') = Len(bodies) + 1
        BY <2>3, <3>1
      <3> QED BY <1>1, <1>6, <1>7, <2>1, <2>3, <3>2
    <2> QED BY <2>1, <2>2, <2>3
  <1>13. CASE Encode
    BY <1>1, <1>6, <1>7, <1>13 DEF Encode
  <1> QED BY <1>8, <1>9, <1>10, <1>11, <1>12, <1>13 DEF DocNext

\* Find and substitute end on every document: walk's calls are never deeper
\* than the document, no more resolvents are found than it has objects below
\* the root, and every step brings the end nearer (walk, Find, substitute).
THEOREM DocumentsEnd ==
  DocSpec => /\ [](stage = "walk" => Len(frames) <= Size /\ Len(slots) < Size)
             /\ [](DocStepsLeft \in Nat)
             /\ [][DocStepsLeft' < DocStepsLeft]_docVars
  <1>1. DocInv => (stage = "walk" => Len(frames) <= Size /\ Len(slots) < Size)
    BY DocCounts
  <1>2. ASSUME DocInv PROVE DocStepsLeft \in Nat
    <2>1. Size \in Nat /\ Len(path) \in Nat /\ pos \in Nat /\ pos <= Len(path)
      BY <1>2, DocCounts
    <2>2. /\ Len(frames) \in Nat /\ Len(slots) \in Nat /\ Len(bodies) \in Nat
          /\ Cardinality(ToWalk(frames)) \in Nat
          /\ stage = "substitute" => Len(bodies) <= Len(slots)
      BY <1>2, DocCounts
    <2>3. /\ \A a, b, c \in Nat : b <= a => a - b + 3 * c + 4 \in Nat /\ a - b + 1 \in Nat
          /\ \A a, b, c \in Nat : 2 * a + b + c + 1 \in Nat
      OBVIOUS
    <2>4. /\ Len(path) - pos + 3 * Size + 4 \in Nat
          /\ 2 * Cardinality(ToWalk(frames)) + Len(frames) + Size + 1 \in Nat
          /\ stage = "substitute" => Len(slots) - Len(bodies) + 1 \in Nat
      BY <2>1, <2>2, <2>3, Zenon
    <2> QED BY <2>4 DEF DocStepsLeft
  <1>3. DocInv /\ DocInv' /\ [DocNext]_docVars => [DocStepsLeft' < DocStepsLeft]_docVars
    BY DocShrinks
  <1> QED BY <1>1, <1>2, <1>3, DocumentInvariant, PTL DEF DocSpec
=============================================================================
