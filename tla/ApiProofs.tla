----------------------------- MODULE ApiProofs ------------------------------
(***************************************************************************)
(* Proofs about accepting requests, for every set of concurrent calls,     *)
(* every assignment of keys and bodies, every cap and every number of      *)
(* attempts; and, at the end, about listing them, for every number of      *)
(* requests and every page size.                                           *)
(***************************************************************************)
EXTENDS Submission, Paging, SequenceTheorems, FiniteSetTheorems, TLAPS
-----------------------------------------------------------------------------
(* The inductive invariant.                                                *)

\* The partial unique index: one stored row per idempotency key.
KeysUnique ==
  \A c, d \in Stored : KeyOf[c] = KeyOf[d] /\ KeyOf[c] # NoKey => c = d

\* An accepted call names a job that was stored, with its own body and its
\* own key.
AcceptedJob(c) ==
  call[c].pc = "accepted" =>
    /\ call[c].id \in Calls
    /\ row[call[c].id] # "none"
    /\ BodyOf[call[c].id] = BodyOf[c]
    /\ KeyOf[call[c].id] = KeyOf[c]

SubmissionInv == /\ TypeOK /\ CapHolds /\ KeysUnique
                 /\ \A c \in Calls : AcceptedJob(c)
-----------------------------------------------------------------------------
USE DEF MkCall, Answered

LEMMA InitInv == Init => SubmissionInv
  <1> SUFFICES ASSUME Init PROVE SubmissionInv
    OBVIOUS
  <1> USE SubmissionAssumption
  <1>1. TypeOK
    BY DEF Init, TypeOK
  <1>2. Stored = {} /\ Queued \ Scheduled = {}
    BY DEF Init, Stored, Queued
  <1>3. CapHolds
    BY <1>2, FS_EmptySet DEF CapHolds
  <1>4. KeysUnique /\ \A c \in Calls : AcceptedJob(c)
    BY <1>2 DEF Init, KeysUnique, AcceptedJob
  <1> QED BY <1>1, <1>3, <1>4 DEF SubmissionInv

\* A row that is not inserted now stays as it is or leaves the queue: neither
\* the cap nor the index can be hurt.
LEMMA RowsOnlyLeave ==
  ASSUME SubmissionInv, TypeOK',
         \A c \in Calls : \/ row'[c] = row[c]
                          \/ row[c] = "live" /\ row'[c] = "ended"
                          \/ row[c] = "ended" /\ row'[c] = "gone"
  PROVE  CapHolds' /\ KeysUnique'
  <1>1. Stored' \subseteq Stored /\ Queued' \subseteq Queued
    BY DEF Stored, Queued
  <1>2. KeysUnique'
    BY <1>1 DEF SubmissionInv, KeysUnique
  <1>3. IsFiniteSet(Queued \ Scheduled)
    BY SubmissionAssumption, FS_Subset DEF Queued
  <1>4. /\ Cardinality(Queued' \ Scheduled) \in Nat
        /\ Cardinality(Queued' \ Scheduled) <= Cardinality(Queued \ Scheduled)
        /\ Cardinality(Queued \ Scheduled) \in Nat
    BY <1>1, <1>3, FS_Subset, FS_CardinalityType
  <1>5. CapHolds'
    BY <1>4, SubmissionAssumption DEF SubmissionInv, CapHolds
  <1> QED BY <1>2, <1>5

\* createJobOnce inserts: it counted and looked the key up in the same
\* transaction.
LEMMA InsertInv ==
  ASSUME SubmissionInv, NEW c \in Calls, ~OverCap(c), SameKey(c) = {},
         row' = [row EXCEPT ![c] = "live"], To(c, "accepted", c), UNCHANGED faults
  PROVE  SubmissionInv'
  <1> USE SubmissionAssumption
  <1>1. TypeOK'
    BY DEF SubmissionInv, TypeOK, To
  <1>2. /\ Queued' = Queued \cup {c} /\ Stored' = Stored \cup {c}
        /\ Queued \subseteq Calls /\ Scheduled \subseteq Calls
    BY DEF SubmissionInv, TypeOK, Queued, Stored
  <1>3. CapHolds'
    <2> SUFFICES ASSUME Cap > 0 PROVE Cardinality(Queued' \ Scheduled) <= Cap
      BY DEF CapHolds
    <2>0. IsFiniteSet(Queued) /\ IsFiniteSet(Queued \ Scheduled)
      BY <1>2, FS_Subset
    <2>1. CASE c \in Scheduled
      <3>1. Queued' \ Scheduled = Queued \ Scheduled
        BY <1>2, <2>1
      <3> QED BY <3>1 DEF SubmissionInv, CapHolds
    <2>2. CASE c \notin Scheduled
      <3>1. Cardinality(Queued) < Cap /\ Cardinality(Queued) \in Nat
        BY <2>0, <2>2, FS_CardinalityType DEF OverCap, CapOf
      <3>2. /\ Cardinality(Queued \cup {c}) \in Nat /\ IsFiniteSet(Queued \cup {c})
            /\ Cardinality(Queued \cup {c}) <= Cardinality(Queued) + 1
        BY <2>0, FS_AddElement, FS_CardinalityType
      <3>3. /\ Cardinality(Queued' \ Scheduled) \in Nat
            /\ Cardinality(Queued' \ Scheduled) <= Cardinality(Queued \cup {c})
        BY <1>2, <3>2, FS_Subset, FS_CardinalityType
      <3> QED BY <3>1, <3>2, <3>3
    <2> QED BY <2>1, <2>2
  <1>4. KeysUnique'
    BY <1>2 DEF SubmissionInv, KeysUnique, SameKey, Stored
  <1>5. ASSUME NEW d \in Calls PROVE AcceptedJob(d)'
    <2>1. CASE d = c
      BY <2>1 DEF SubmissionInv, TypeOK, AcceptedJob, To
    <2>2. CASE d # c
      <3>1. call'[d] = call[d] /\ AcceptedJob(d)
        BY <2>2 DEF SubmissionInv, TypeOK, To
      <3> QED BY <3>1 DEF SubmissionInv, TypeOK, AcceptedJob
    <2> QED BY <2>1, <2>2
  <1> QED BY <1>1, <1>3, <1>4, <1>5 DEF SubmissionInv

\* A step that changes one call's answer and no row.
LEMMA AnswerInv ==
  ASSUME SubmissionInv, NEW c \in Calls, row' = row, faults' \in Nat,
         NEW pc \in Answered \cup {"new", "creating", "replaying", "lost"},
         NEW try \in 1 .. Tries, NEW id \in Calls \cup {NoJob},
         call' = [call EXCEPT ![c] = MkCall(pc, try, id)],
         IF pc = "accepted"
         THEN id \in Stored /\ BodyOf[id] = BodyOf[c] /\ KeyOf[id] = KeyOf[c]
         ELSE id = NoJob
  PROVE  SubmissionInv'
  <1>1. TypeOK'
    BY DEF SubmissionInv, TypeOK, Stored
  <1>2. CapHolds' /\ KeysUnique'
    BY <1>1, RowsOnlyLeave
  <1>3. ASSUME NEW d \in Calls PROVE AcceptedJob(d)'
    <2>1. CASE d = c
      BY <2>1 DEF SubmissionInv, TypeOK, AcceptedJob, Stored
    <2>2. CASE d # c
      BY <2>2 DEF SubmissionInv, TypeOK, AcceptedJob
    <2> QED BY <2>1, <2>2
  <1> QED BY <1>1, <1>2, <1>3 DEF SubmissionInv

LEMMA SubmissionInductive == SubmissionInv /\ [Next]_vars => SubmissionInv'
  <1> SUFFICES ASSUME SubmissionInv, [Next]_vars PROVE SubmissionInv'
    OBVIOUS
  <1> USE SubmissionAssumption
  <1>1. CASE UNCHANGED vars
    BY <1>1 DEF vars, SubmissionInv, TypeOK, CapHolds, KeysUnique, AcceptedJob, Queued, Stored
  <1>2. ASSUME NEW c \in Calls, Submit(c) \/ Lost(c)
        PROVE  SubmissionInv'
    <2>1. call[c].try \in 1 .. Tries /\ faults' \in Nat /\ row' = row
      BY <1>2 DEF Submit, Lost, SubmissionInv, TypeOK
    <2>2. PICK pc \in {"refused", "creating", "lost"} :
            call' = [call EXCEPT ![c] = MkCall(pc, call[c].try, NoJob)]
      BY <1>2 DEF Submit, Lost, To
    <2> QED BY <2>1, <2>2, AnswerInv
  <1>3. ASSUME NEW c \in Calls, CreateJobOnce(c)
        PROVE  SubmissionInv'
    <2>1. call[c].try \in 1 .. Tries
      BY DEF SubmissionInv, TypeOK
    <2>2. CASE /\ ~OverCap(c) /\ SameKey(c) = {}
               /\ row' = [row EXCEPT ![c] = "live"] /\ To(c, "accepted", c)
               /\ UNCHANGED faults
      BY <2>2, InsertInv
    <2>3. CASE /\ row' = row /\ faults' \in Nat
               /\ \E pc \in {"queue_full", "replaying", "error"} : To(c, pc, NoJob)
      <3>1. PICK pc \in {"queue_full", "replaying", "error"} :
              call' = [call EXCEPT ![c] = MkCall(pc, call[c].try, NoJob)]
        BY <2>3 DEF To
      <3> QED BY <2>1, <2>3, <3>1, AnswerInv
    <2>4. Fault => faults' \in Nat
      BY DEF Fault, SubmissionInv, TypeOK
    <2> QED BY <1>3, <2>2, <2>3, <2>4 DEF CreateJobOnce, SubmissionInv, TypeOK
  <1>4. ASSUME NEW c \in Calls, ReplayIdempotent(c)
        PROVE  SubmissionInv'
    <2>1. call[c].try \in 1 .. Tries /\ row' = row /\ faults' \in Nat
      BY <1>4 DEF ReplayIdempotent, Fault, SubmissionInv, TypeOK
    <2>2. ASSUME NEW d \in SameKey(c), Replays(c, d), To(c, "accepted", d)
          PROVE  SubmissionInv'
      <3>1. d \in Stored /\ d \in Calls /\ BodyOf[d] = BodyOf[c] /\ KeyOf[d] = KeyOf[c]
        BY <2>2 DEF SameKey, Stored, Replays
      <3> QED BY <2>1, <2>2, <3>1, AnswerInv DEF To
    <2>3. CASE To(c, "conflict", NoJob) \/ To(c, "error", NoJob)
      <3>1. PICK pc \in {"conflict", "error"} :
              call' = [call EXCEPT ![c] = MkCall(pc, call[c].try, NoJob)]
        BY <2>3 DEF To
      <3> QED BY <2>1, <3>1, AnswerInv
    <2>4. CASE Vanished(c)
      <3>1. CASE call[c].try < Tries
        <4>1. call[c].try + 1 \in 1 .. Tries
          BY <2>1, <3>1
        <4>2. call' = [call EXCEPT ![c] = MkCall("creating", call[c].try + 1, NoJob)]
          BY <2>4, <3>1 DEF Vanished
        <4> QED BY <2>1, <4>1, <4>2, AnswerInv
      <3>2. CASE ~(call[c].try < Tries)
        <4>1. call' = [call EXCEPT ![c] = MkCall("unsettled", call[c].try, NoJob)]
          BY <2>4, <3>2 DEF Vanished
        <4> QED BY <2>1, <4>1, AnswerInv
      <3> QED BY <3>1, <3>2
    <2> QED BY <1>4, <2>2, <2>3, <2>4 DEF ReplayIdempotent
  <1>5. ASSUME NEW c \in Calls, JobEnds(c) \/ Prune(c)
        PROVE  SubmissionInv'
    <2>1. /\ call' = call /\ faults' = faults
          /\ \A d \in Calls : \/ row'[d] = row[d]
                              \/ row[d] = "live" /\ row'[d] = "ended"
                              \/ row[d] = "ended" /\ row'[d] = "gone"
      BY <1>5 DEF JobEnds, Prune, SubmissionInv, TypeOK
    <2>2. \A d \in Calls : row[d] # "none" => row'[d] # "none"
      BY <2>1
    <2>3. row' \in [Calls -> {"none", "live", "ended", "gone"}]
      BY <1>5 DEF JobEnds, Prune, SubmissionInv, TypeOK
    <2>4. \A d \in Calls : AcceptedJob(d)'
      BY <2>1, <2>2 DEF SubmissionInv, AcceptedJob
    <2>5. TypeOK'
      BY <2>1, <2>2, <2>3 DEF SubmissionInv, TypeOK, AcceptedJob
    <2> QED BY <2>1, <2>4, <2>5, RowsOnlyLeave DEF SubmissionInv
  <1> QED BY <1>1, <1>2, <1>3, <1>4, <1>5 DEF Next

\* What every interleaving of calls, ends and prunes maintains.
THEOREM SubmissionInvariant == Spec => []SubmissionInv
  BY InitInv, SubmissionInductive, PTL DEF Spec

\* max_queued is never overshot, however many submissions run at once
\* (createJobOnce).
THEOREM CapNeverExceeded == Spec => []CapHolds
  <1>1. SubmissionInv => CapHolds
    BY DEF SubmissionInv
  <1> QED BY <1>1, SubmissionInvariant, PTL

\* An accepted call names its own request's job, and one key leads to one
\* job while it is kept (replayIdempotent, the unique index).
THEOREM RightJobAccepted == Spec => []AcceptedRightJob
  <1>1. SubmissionInv => AcceptedRightJob
    <2> SUFFICES ASSUME SubmissionInv PROVE AcceptedRightJob
      OBVIOUS
    <2>1. \A c \in Calls : call[c].pc = "accepted" => BodyOf[call[c].id] = BodyOf[c]
      BY DEF SubmissionInv, AcceptedJob
    <2>2. ASSUME NEW c \in Calls, NEW d \in Calls,
                 call[c].pc = "accepted", call[d].pc = "accepted",
                 KeyOf[c] = KeyOf[d], KeyOf[c] # NoKey,
                 row[call[c].id] # "gone", row[call[d].id] # "gone"
          PROVE  call[c].id = call[d].id
      <3>1. AcceptedJob(c) /\ AcceptedJob(d)
        BY DEF SubmissionInv
      <3>2. call[c].id \in Stored /\ call[d].id \in Stored
        BY <2>2, <3>1 DEF SubmissionInv, TypeOK, AcceptedJob, Stored
      <3> QED BY <2>2, <3>1, <3>2 DEF SubmissionInv, AcceptedJob, KeysUnique
    <2> QED BY <2>1, <2>2 DEF AcceptedRightJob
  <1> QED BY <1>1, SubmissionInvariant, PTL
-----------------------------------------------------------------------------
(* Listing what was submitted, page by page (module Paging).               *)

\* The inductive invariant.  Rows have distinct rowids and jobs.
Row == [job : Jobs, at : 1 .. Times, seq : Nat, state : {"live", "ended"}]
TableOfRows ==
  /\ rows \subseteq Row /\ IsFiniteSet(rows) /\ fresh \subseteq Jobs /\ steady \subseteq Jobs
  /\ \A r \in rows : r.job \notin fresh
  /\ \A r, s \in rows : r.seq = s.seq \/ r.job = s.job => r = s
  /\ \E m \in Nat : \A r \in rows : r.seq <= m
ReaderShape ==
  /\ reader \in [pc : {"paging", "done"}, cursor : [at : 1 .. Times + 1, seq : Nat], got : Seq(Jobs)]
  /\ \A i \in 1 .. Len(reader.got) : reader.got[i] \notin fresh

\* No job was listed twice, and none that was listed is ahead of the reader.
Got == {reader.got[i] : i \in 1 .. Len(reader.got)}
ListedOnce ==
  /\ \A i, j \in 1 .. Len(reader.got) : reader.got[i] = reader.got[j] => i = j
  /\ reader.pc = "paging" => \A r \in rows : r.job \in Got => ~After(r, reader.cursor)

\* A job that has matched all along was listed, or is ahead of the reader.
StillComing ==
  \A j \in steady : \/ j \in Got
                    \/ /\ reader.pc = "paging"
                       /\ \E r \in rows : r.job = j /\ Matches(r) /\ After(r, reader.cursor)

ListingInv == TableOfRows /\ ReaderShape /\ ListedOnce /\ StillComing
-----------------------------------------------------------------------------
(* What ListJobs returns.                                                  *)

\* Rows with distinct rowids are totally ordered, newest first.
Distinct(S) == S \subseteq Row /\ \A r, s \in S : r.seq = s.seq => r = s

LEMMA NewerOrders ==
  ASSUME NEW S, Distinct(S), NEW r \in S, NEW s \in S, NEW t \in S
  PROVE  /\ ~Newer(r, r)
         /\ r # s => Newer(r, s) \/ Newer(s, r)
         /\ Newer(r, s) /\ Newer(s, t) => Newer(r, t)
         /\ Newer(r, s) <=> After(s, r)
  <1>1. r.at \in Int /\ s.at \in Int /\ t.at \in Int /\ r.seq \in Nat /\ s.seq \in Nat /\ t.seq \in Nat
    BY DEF Distinct, Row
  <1>2. r # s => r.seq # s.seq
    BY DEF Distinct
  <1> QED BY <1>1, <1>2 DEF Newer, After

\* Every row has its own place in the order, and the order is kept.
LEMMA OrderedIs ==
  ASSUME NEW S, Distinct(S), IsFiniteSet(S)
  PROVE  /\ Cardinality(S) \in Nat
         /\ Ordered(S) \in Seq(S) /\ Len(Ordered(S)) = Cardinality(S)
         /\ \A r \in S : \E k \in 1 .. Cardinality(S) : Ordered(S)[k] = r
         /\ \A k, m \in 1 .. Cardinality(S) :
              k < m => Newer(Ordered(S)[k], Ordered(S)[m])
  <1> DEFINE ahead(r) == Ahead(S, r)
             place == [r \in S |-> 1 + Cardinality(ahead(r))]
             C == Cardinality(S)
             nth(k) == CHOOSE r \in S : Cardinality(ahead(r)) = k - 1
  <1>1. C \in Nat /\ IsFiniteSet(1 .. C) /\ Cardinality(1 .. C) = C
    <2>1. C \in Nat
      BY FS_CardinalityType
    <2> HIDE DEF C
    <2> QED BY <2>1, FS_Interval
  <1>2. ASSUME NEW r \in S
        PROVE  IsFiniteSet(ahead(r)) /\ Cardinality(ahead(r)) \in Nat /\ 1 + Cardinality(ahead(r)) \in 1 .. C
    <2>1. ahead(r) \in SUBSET S /\ r \notin ahead(r)
      BY NewerOrders DEF Ahead
    <2> HIDE DEF ahead
    <2>2. IsFiniteSet(ahead(r)) /\ Cardinality(ahead(r)) <= C /\ Cardinality(ahead(r)) # C
      BY <2>1, FS_Subset
    <2>3. Cardinality(ahead(r)) \in Nat
      BY <2>2, FS_CardinalityType
    <2> HIDE DEF C
    <2> QED BY <1>1, <2>2, <2>3
  <1>3. ASSUME NEW r \in S, NEW s \in S, Newer(r, s)
        PROVE  Cardinality(ahead(r)) < Cardinality(ahead(s))
    <2>1. ahead(r) \in SUBSET ahead(s) /\ r \in ahead(s) /\ r \notin ahead(r)
      <3>1. \A t \in S : Newer(t, r) => Newer(t, s)
        BY <1>3, NewerOrders
      <3>2. ~Newer(r, r)
        BY NewerOrders
      <3> QED BY <1>3, <3>1, <3>2 DEF Ahead
    <2>2. IsFiniteSet(ahead(s)) /\ Cardinality(ahead(s)) \in Nat /\ Cardinality(ahead(r)) \in Nat
      BY <1>2
    <2> HIDE DEF ahead
    <2>3. Cardinality(ahead(r)) <= Cardinality(ahead(s)) /\ Cardinality(ahead(r)) # Cardinality(ahead(s))
      BY <2>1, <2>2, FS_Subset
    <2> QED BY <2>2, <2>3
  <1>4. place \in Injection(S, 1 .. C)
    <2>1. place \in [S -> 1 .. C]
      <3> HIDE DEF ahead, C
      <3> QED BY <1>2
    <2>2. ASSUME NEW r \in S, NEW s \in S, place[r] = place[s] PROVE r = s
      <3>1. Cardinality(ahead(r)) = Cardinality(ahead(s))
        <4>1. Cardinality(ahead(r)) \in Nat /\ Cardinality(ahead(s)) \in Nat
          BY <1>2
        <4> HIDE DEF ahead
        <4> QED BY <2>2, <4>1
      <3>2. ~Newer(r, s) /\ ~Newer(s, r)
        <4>1. Cardinality(ahead(r)) \in Nat /\ Cardinality(ahead(s)) \in Nat
          BY <1>2
        <4> HIDE DEF ahead
        <4> QED BY <1>3, <3>1, <4>1
      <3> QED BY <3>2, NewerOrders
    <2> HIDE DEF place, C
    <2> QED BY <2>1, <2>2 DEF Injection, IsInjective
  <1>5. place \in Surjection(S, 1 .. C)
    <2>1. Cardinality(S) = Cardinality(1 .. C)
      BY <1>1
    <2> HIDE DEF place, C
    <2> QED BY <1>1, <1>4, <2>1, FS_Injection
  <1>6. ASSUME NEW k \in 1 .. C PROVE nth(k) \in S /\ Cardinality(ahead(nth(k))) = k - 1
    <2>1. \E r \in S : place[r] = k
      <3> HIDE DEF place, C
      <3> QED BY <1>5 DEF Surjection
    <2>2. \E r \in S : Cardinality(ahead(r)) = k - 1
      <3>1. PICK r \in S : place[r] = k
        BY <2>1
      <3>2. Cardinality(ahead(r)) \in Nat /\ k = 1 + Cardinality(ahead(r))
        BY <1>2, <3>1
      <3> HIDE DEF ahead
      <3> QED BY <3>2
    <2> HIDE DEF ahead
    <2> QED BY <2>2
  <1>7. Ordered(S) = [k \in 1 .. C |-> nth(k)]
    BY DEF Ordered
  <1>8. Ordered(S) \in Seq(S) /\ Len(Ordered(S)) = C
        /\ \A k \in 1 .. C : Ordered(S)[k] = nth(k)
    <2> HIDE DEF nth, C
    <2> QED BY <1>1, <1>6, <1>7, IsASeq
  <1>9. ASSUME NEW r \in S PROVE \E k \in 1 .. C : Ordered(S)[k] = r
    <2> DEFINE k == 1 + Cardinality(ahead(r))
    <2>1. k \in 1 .. C /\ k - 1 = Cardinality(ahead(r))
      <3>1. Cardinality(ahead(r)) \in Nat /\ 1 + Cardinality(ahead(r)) \in 1 .. C
        BY <1>2
      <3> HIDE DEF ahead, C
      <3> QED BY <3>1
    <2> HIDE DEF k
    <2>2. nth(k) \in S /\ Cardinality(ahead(nth(k))) = Cardinality(ahead(r))
      BY <1>6, <2>1
    <2>3. ~Newer(r, nth(k)) /\ ~Newer(nth(k), r)
      <3>1. Cardinality(ahead(r)) \in Nat /\ Cardinality(ahead(nth(k))) \in Nat
        BY <1>2, <2>2
      <3> HIDE DEF ahead, nth
      <3> QED BY <1>3, <2>2, <3>1
    <2>4. nth(k) = r
      <3> HIDE DEF nth
      <3> QED BY <2>2, <2>3, NewerOrders
    <2> HIDE DEF nth, C
    <2> QED BY <1>8, <2>1, <2>4
  <1>10. ASSUME NEW k \in 1 .. C, NEW m \in 1 .. C, k < m PROVE Newer(nth(k), nth(m))
    <2>1. nth(k) \in S /\ nth(m) \in S /\ Cardinality(ahead(nth(k))) = k - 1
          /\ Cardinality(ahead(nth(m))) = m - 1
      BY <1>6
    <2>2. k \in Int /\ m \in Int /\ k - 1 # m - 1 /\ ~(m - 1 < k - 1)
      BY <1>1, <1>10
    <2> HIDE DEF nth, ahead
    <2>3. nth(k) # nth(m)
      BY <2>1, <2>2
    <2>4. ~Newer(nth(m), nth(k))
      BY <1>3, <2>1, <2>2
    <2> QED BY <2>1, <2>3, <2>4, NewerOrders
  <1> HIDE DEF C, nth
  <1> QED BY <1>1, <1>8, <1>9, <1>10 DEF C

LEMMA UptoIs ==
  ASSUME NEW S, NEW s \in Seq(S), NEW n \in Nat
  PROVE  /\ Upto(s, n) \in Seq(S)
         /\ Len(Upto(s, n)) = IF n < Len(s) THEN n ELSE Len(s)
         /\ \A k \in 1 .. Len(Upto(s, n)) : Upto(s, n)[k] = s[k]
  <1> DEFINE b == IF n < Len(s) THEN n ELSE Len(s)
  <1>1. Len(s) \in Nat /\ \A i \in 1 .. Len(s) : s[i] \in S
    BY ElementOfSeq
  <1>2. b \in Nat /\ b \in Int /\ 1 \in Int /\ \A i \in 1 .. b : s[i] \in S
    BY <1>1
  <1>3. Upto(s, n) = SubSeq(s, 1, b)
    BY DEF Upto
  <1> HIDE DEF b
  <1>4. /\ SubSeq(s, 1, b) \in Seq(S)
        /\ Len(SubSeq(s, 1, b)) = IF 1 <= b THEN b - 1 + 1 ELSE 0
        /\ \A i \in 1 .. b - 1 + 1 : SubSeq(s, 1, b)[i] = s[1 + i - 1]
    BY <1>2, SubSeqProperties
  <1>5. /\ Len(SubSeq(s, 1, b)) = b
        /\ \A i \in 1 .. b : SubSeq(s, 1, b)[i] = s[i]
    BY <1>2, <1>4
  <1> QED BY <1>3, <1>4, <1>5 DEF b

\* What is ahead of the reader.
Due == {r \in rows : Matches(r) /\ After(r, reader.cursor)}

\* One page: rows that are due, in order, and all of them or the ones before
\* the cursor it leaves.
IsPage(it) ==
  /\ it \in Seq(Due)
  /\ \A k, m \in 1 .. Len(it) : k < m => Newer(it[k], it[m])
  /\ \/ /\ reader' = MkReader("done", reader.cursor, reader.got \o IdsOf(it))
        /\ \A r \in Due : \E k \in 1 .. Len(it) : it[k] = r
     \/ /\ Len(it) > 0
        /\ reader' = MkReader("paging", [at |-> it[Len(it)].at, seq |-> it[Len(it)].seq],
                                   reader.got \o IdsOf(it))
        /\ \A r \in Due : \/ \E k \in 1 .. Len(it) : it[k] = r
                          \/ After(r, it[Len(it)])

LEMMA PageIs ==
  ASSUME TableOfRows, Page
  PROVE  \E it : IsPage(it)
  <1> DEFINE L == Ordered(Due)
             page == Upto(L, Limit + 1)
             items == Upto(page, Limit)
             n == Cardinality(Due)
  <1>1. Limit \in Nat /\ Limit > 0 /\ Limit + 1 \in Nat
    BY PagingAssumption
  <1>2. Due \subseteq rows /\ Distinct(Due) /\ IsFiniteSet(Due)
    <2>1. Due \in SUBSET rows
      BY DEF Due
    <2>2. IsFiniteSet(Due)
      BY <2>1, FS_Subset DEF TableOfRows
    <2> QED BY <2>1, <2>2 DEF Distinct, TableOfRows
  <1>3. /\ n \in Nat /\ L \in Seq(Due) /\ Len(L) = n
        /\ \A r \in Due : \E k \in 1 .. n : L[k] = r
        /\ \A k, m \in 1 .. n : k < m => Newer(L[k], L[m])
    BY <1>2, OrderedIs
  <1>4. reader' = IF HasMore(page)
                  THEN MkReader("paging", CursorOf(items), reader.got \o IdsOf(items))
                  ELSE MkReader("done", reader.cursor, reader.got \o IdsOf(items))
    BY DEF Page, ListJobs, Due
  <1> HIDE DEF L, n
  <1>5. /\ page \in Seq(Due) /\ Len(page) = (IF Limit + 1 < n THEN Limit + 1 ELSE n)
        /\ \A k \in 1 .. Len(page) : page[k] = L[k]
    BY <1>1, <1>3, UptoIs
  <1> HIDE DEF page
  <1>6. /\ items \in Seq(Due) /\ Len(items) = (IF Limit < Len(page) THEN Limit ELSE Len(page))
        /\ \A k \in 1 .. Len(items) : items[k] = page[k]
    BY <1>1, <1>5, UptoIs
  <1> HIDE DEF items
  <1>7. /\ Len(items) = (IF Limit < n THEN Limit ELSE n)
        /\ \A k \in 1 .. Len(items) : items[k] = L[k]
        /\ HasMore(page) <=> Limit < n
    <2>1. Len(items) = (IF Limit < n THEN Limit ELSE n) /\ (HasMore(page) <=> Limit < n)
      BY <1>1, <1>3, <1>5, <1>6 DEF HasMore
    <2>2. \A k \in 1 .. Len(items) : k \in 1 .. Len(page)
      BY <1>1, <1>3, <1>5, <1>6
    <2> QED BY <1>5, <1>6, <2>1, <2>2
  <1>8. /\ \A k \in 1 .. Len(items) : k \in 1 .. n
        /\ \A k, m \in 1 .. Len(items) : k < m => Newer(items[k], items[m])
    <2>1. \A k \in 1 .. Len(items) : k \in 1 .. n
      BY <1>1, <1>3, <1>7
    <2> QED BY <1>3, <1>7, <2>1
  <1>9. CASE ~(Limit < n)
    <2>1. reader' = MkReader("done", reader.cursor, reader.got \o IdsOf(items))
      BY <1>4, <1>7, <1>9
    <2>2. \A r \in Due : \E k \in 1 .. Len(items) : items[k] = r
      BY <1>3, <1>7, <1>9
    <2> QED BY <1>6, <1>8, <2>1, <2>2 DEF IsPage
  <1>10. CASE Limit < n
    <2>1. Len(items) = Limit /\ Limit \in 1 .. n /\ items[Limit] = L[Limit] /\ Limit \in 1 .. Len(items)
      BY <1>1, <1>3, <1>7, <1>10
    <2>2. reader' = MkReader("paging", [at |-> items[Len(items)].at, seq |-> items[Len(items)].seq],
                                  reader.got \o IdsOf(items))
      BY <1>4, <1>7, <1>10 DEF CursorOf, Last
    <2>3. ASSUME NEW r \in Due
          PROVE  (\E k \in 1 .. Len(items) : items[k] = r) \/ After(r, items[Len(items)])
      <3>1. PICK k \in 1 .. n : L[k] = r
        BY <1>3
      <3>2. CASE k <= Limit
        <4>1. k \in 1 .. Len(items)
          BY <1>3, <2>1, <3>2
        <4> QED BY <1>7, <3>1, <4>1
      <3>3. CASE ~(k <= Limit)
        <4>1. Limit < k
          BY <1>1, <1>3, <3>3
        <4>2. Newer(L[Limit], L[k])
          BY <1>3, <2>1, <4>1
        <4>3. L[Limit] \in Due
          BY <1>6, <2>1
        <4>4. After(r, L[Limit])
          BY <1>2, <3>1, <4>2, <4>3, NewerOrders
        <4> QED BY <2>1, <4>4
      <3> QED BY <3>2, <3>3
    <2>4. Len(items) > 0
      BY <1>1, <2>1
    <2> QED BY <1>6, <1>8, <2>2, <2>3, <2>4 DEF IsPage
  <1> QED BY <1>9, <1>10
-----------------------------------------------------------------------------
(* The steps.                                                              *)

\* Rows after a row that is due are due, but for the row itself.
LEMMA AfterGoesOn ==
  ASSUME TableOfRows, ReaderShape, NEW r \in rows, NEW s \in rows,
         After(r, s), After(s, reader.cursor)
  PROVE  After(r, reader.cursor)
  <1>1. /\ r.at \in Int /\ s.at \in Int /\ reader.cursor.at \in Int
        /\ r.seq \in Nat /\ s.seq \in Nat /\ reader.cursor.seq \in Nat
    <2>1. r \in Row /\ s \in Row
      BY DEF TableOfRows
    <2>2. reader.cursor \in [at : 1 .. Times + 1, seq : Nat]
      BY DEF ReaderShape
    <2> QED BY <2>1, <2>2 DEF Row
  <1> QED BY <1>1 DEF After

\* A page appends the jobs of its rows.
LEMMA PageAppends ==
  ASSUME TableOfRows, ReaderShape, NEW it, IsPage(it)
  PROVE  /\ Len(it) \in Nat /\ \A k \in 1 .. Len(it) : it[k] \in Due /\ it[k] \in rows /\ it[k].job \in Jobs
         /\ reader'.got \in Seq(Jobs) /\ Len(reader'.got) = Len(reader.got) + Len(it)
         /\ \A i \in 1 .. Len(reader'.got) :
              \/ i \in 1 .. Len(reader.got) /\ reader'.got[i] = reader.got[i]
              \/ i - Len(reader.got) \in 1 .. Len(it) /\ reader'.got[i] = it[i - Len(reader.got)].job
         /\ Got' = Got \cup {it[k].job : k \in 1 .. Len(it)}
  <1> DEFINE g == Len(reader.got)
             ids == IdsOf(it)
  <1>1. reader.got \in Seq(Jobs) /\ g \in Nat
    BY DEF ReaderShape
  <1>2. it \in Seq(Due) /\ Len(it) \in Nat /\ DOMAIN it = 1 .. Len(it)
    BY DEF IsPage
  <1>3. \A k \in 1 .. Len(it) : it[k] \in Due /\ it[k] \in rows /\ it[k].job \in Jobs
    <2>1. \A k \in 1 .. Len(it) : it[k] \in Due
      BY <1>2, ElementOfSeq
    <2> QED BY <2>1 DEF Due, TableOfRows, Row
  <1>4. ids = [k \in 1 .. Len(it) |-> it[k].job]
    BY <1>2 DEF IdsOf
  <1>5. ids \in Seq(Jobs) /\ Len(ids) = Len(it) /\ \A k \in 1 .. Len(it) : ids[k] = it[k].job
    <2> HIDE DEF ids
    <2> QED BY <1>2, <1>3, <1>4, IsASeq
  <1>6. reader'.got = reader.got \o ids
    BY DEF IsPage, MkReader
  <1> HIDE DEF ids
  <1>7. /\ reader.got \o ids \in Seq(Jobs) /\ Len(reader.got \o ids) = g + Len(ids)
        /\ \A i \in 1 .. g + Len(ids) : (reader.got \o ids)[i] = IF i <= g THEN reader.got[i] ELSE ids[i - g]
    <2>1. ASSUME NEW s \in Seq(Jobs), NEW t \in Seq(Jobs)
          PROVE  /\ s \o t \in Seq(Jobs) /\ Len(s \o t) = Len(s) + Len(t)
                 /\ \A i \in 1 .. Len(s) + Len(t) :
                      (s \o t)[i] = IF i <= Len(s) THEN s[i] ELSE t[i - Len(s)]
      BY ConcatProperties
    <2> QED BY <1>1, <1>5, <2>1
  <1>8. ASSUME NEW i \in 1 .. g + Len(it)
        PROVE  \/ i \in 1 .. g /\ reader'.got[i] = reader.got[i]
               \/ i - g \in 1 .. Len(it) /\ reader'.got[i] = it[i - g].job
    <2> HIDE DEF g
    <2>1. CASE i <= g
      BY <1>1, <1>2, <1>5, <1>6, <1>7, <2>1
    <2>2. CASE ~(i <= g)
      <3>1. i - g \in 1 .. Len(it)
        BY <1>1, <1>2, <2>2
      <3> QED BY <1>5, <1>6, <1>7, <2>2, <3>1
    <2> QED BY <2>1, <2>2
  <1>9. reader'.got \in Seq(Jobs) /\ Len(reader'.got) = g + Len(it)
    BY <1>5, <1>6, <1>7
  <1>10. Got' = {reader'.got[i] : i \in 1 .. g + Len(it)}
    BY <1>9 DEF Got
  <1>11. ASSUME NEW x \in Got' PROVE x \in Got \cup {it[k].job : k \in 1 .. Len(it)}
    <2>1. PICK i \in 1 .. g + Len(it) : x = reader'.got[i]
      BY <1>10, <1>11
    <2> QED BY <1>8, <2>1 DEF Got
  <1>12. ASSUME NEW x \in Got PROVE x \in Got'
    <2>1. PICK i \in 1 .. g : x = reader.got[i]
      BY <1>12 DEF Got
    <2>2. i \in 1 .. g + Len(it) /\ ~(i - g \in 1 .. Len(it))
      BY <1>1, <1>2
    <2>3. reader'.got[i] = x
      BY <1>8, <2>1, <2>2
    <2> QED BY <1>10, <2>2, <2>3
  <1>13. ASSUME NEW k \in 1 .. Len(it) PROVE it[k].job \in Got'
    <2>1. g + k \in 1 .. g + Len(it) /\ ~(g + k \in 1 .. g) /\ (g + k) - g = k
      BY <1>1, <1>2
    <2>2. reader'.got[g + k] = it[k].job
      <3> HIDE DEF g
      <3> QED BY <1>8, <2>1
    <2> QED BY <1>10, <2>1, <2>2
  <1>14. Got' = Got \cup {it[k].job : k \in 1 .. Len(it)}
    BY <1>11, <1>12, <1>13
  <1> HIDE DEF g
  <1>15. \A i \in 1 .. Len(reader'.got) :
              \/ i \in 1 .. g /\ reader'.got[i] = reader.got[i]
              \/ i - g \in 1 .. Len(it) /\ reader'.got[i] = it[i - g].job
    BY <1>8, <1>9
  <1> QED BY <1>2, <1>3, <1>9, <1>14, <1>15 DEF g

LEMMA PageKeeps ==
  ASSUME ListingInv, Page
  PROVE  ListingInv'
  <1>1. TableOfRows /\ ReaderShape /\ ListedOnce /\ StillComing
    BY DEF ListingInv
  <1>2. PICK it : IsPage(it)
    BY <1>1, PageIs
  <1>3. /\ Len(it) \in Nat /\ \A k \in 1 .. Len(it) : it[k] \in Due /\ it[k] \in rows /\ it[k].job \in Jobs
        /\ reader'.got \in Seq(Jobs) /\ Len(reader'.got) = Len(reader.got) + Len(it)
        /\ Got' = Got \cup {it[k].job : k \in 1 .. Len(it)}
    BY <1>1, <1>2, PageAppends
  <1>4. \A i \in 1 .. Len(reader'.got) :
              \/ i \in 1 .. Len(reader.got) /\ reader'.got[i] = reader.got[i]
              \/ i - Len(reader.got) \in 1 .. Len(it) /\ reader'.got[i] = it[i - Len(reader.got)].job
    BY <1>1, <1>2, PageAppends
  <1>5. rows' = rows /\ fresh' = fresh /\ states' = states /\ reader.pc = "paging"
        /\ steady' = IF reader.cursor = Top THEN Still ELSE steady
    BY DEF Page
  <1>6. \A k, m \in 1 .. Len(it) : k < m => Newer(it[k], it[m])
    BY <1>2 DEF IsPage
  <1>7. Distinct(rows) /\ \A r, s \in rows : r.job = s.job => r = s
    BY <1>1 DEF TableOfRows, Distinct
  <1>8. ASSUME NEW k \in 1 .. Len(it) PROVE it[k].job \notin Got
    <2>1. it[k] \in rows /\ After(it[k], reader.cursor)
      BY <1>3 DEF Due
    <2> QED BY <1>1, <1>5, <2>1 DEF ListedOnce
  <1>9. ASSUME NEW k \in 1 .. Len(it), NEW m \in 1 .. Len(it), it[k].job = it[m].job PROVE k = m
    <2>1. it[k] = it[m] /\ it[k] \in rows
      BY <1>3, <1>7, <1>9
    <2>2. ~Newer(it[k], it[k])
      BY <1>7, <2>1, NewerOrders
    <2>3. ~(k < m) /\ ~(m < k)
      BY <1>6, <2>1, <2>2
    <2> QED BY <1>3, <2>3
  <1>10. \A i, j \in 1 .. Len(reader'.got) : reader'.got[i] = reader'.got[j] => i = j
    <2>1. ASSUME NEW i \in 1 .. Len(reader'.got), NEW j \in 1 .. Len(reader'.got),
                 reader'.got[i] = reader'.got[j]
          PROVE  i = j
      <3> DEFINE g == Len(reader.got)
      <3>1. g \in Nat /\ i \in Int /\ j \in Int
        BY <1>1, <1>3 DEF ReaderShape
      <3>2. CASE i \in 1 .. g /\ reader'.got[i] = reader.got[i]
        <4>1. reader'.got[i] \in Got
          BY <3>2 DEF Got
        <4>2. CASE j \in 1 .. g /\ reader'.got[j] = reader.got[j]
          BY <1>1, <2>1, <3>2, <4>2 DEF ListedOnce
        <4>3. CASE j - g \in 1 .. Len(it) /\ reader'.got[j] = it[j - g].job
          BY <1>8, <2>1, <4>1, <4>3
        <4> QED BY <1>4, <4>2, <4>3
      <3>3. CASE i - g \in 1 .. Len(it) /\ reader'.got[i] = it[i - g].job
        <4>1. reader'.got[i] \notin Got
          BY <1>8, <3>3
        <4>2. CASE j \in 1 .. g /\ reader'.got[j] = reader.got[j]
          BY <2>1, <4>1, <4>2 DEF Got
        <4>3. CASE j - g \in 1 .. Len(it) /\ reader'.got[j] = it[j - g].job
          <5>1. i - g = j - g
            BY <1>9, <2>1, <3>3, <4>3
          <5> HIDE DEF g
          <5> QED BY <3>1, <5>1
        <4> QED BY <1>4, <4>2, <4>3
      <3> QED BY <1>4, <3>2, <3>3
    <2> QED BY <2>1
  <1>11. TableOfRows'
    <2>1. Still \subseteq Jobs
      BY <1>1 DEF Still, TableOfRows, Row
    <2>2. steady' \subseteq Jobs
      BY <1>1, <1>5, <2>1 DEF TableOfRows
    <2> QED BY <1>1, <1>5, <2>2 DEF TableOfRows
  <1>12. \A i \in 1 .. Len(reader'.got) : reader'.got[i] \notin fresh'
    <2>1. \A k \in 1 .. Len(it) : it[k].job \notin fresh
      BY <1>1, <1>3 DEF TableOfRows
    <2> QED BY <1>1, <1>4, <1>5, <2>1 DEF ReaderShape
  <1>13. ASSUME NEW j \in steady' PROVE j \in Got \/ \E r \in Due : r.job = j
    <2>1. CASE reader.cursor = Top
      <3>1. PICK r \in rows : Matches(r) /\ r.job = j
        BY <1>5, <1>13, <2>1 DEF Still
      <3>2. r.at \in 1 .. Times /\ Times \in Nat
        BY <1>1, PagingAssumption DEF TableOfRows, Row
      <3>3. After(r, reader.cursor)
        BY <2>1, <3>2 DEF After, Top
      <3> QED BY <3>1, <3>3 DEF Due
    <2>2. CASE reader.cursor # Top
      <3>1. j \in steady
        BY <1>5, <1>13, <2>2
      <3> QED BY <1>1, <3>1 DEF StillComing, Due
    <2> QED BY <2>1, <2>2
  <1>14. CASE /\ reader' = MkReader("done", reader.cursor, reader.got \o IdsOf(it))
              /\ \A r \in Due : \E k \in 1 .. Len(it) : it[k] = r
    <2>1. reader'.pc = "done" /\ reader' = [pc |-> "done", cursor |-> reader.cursor, got |-> reader'.got]
      BY <1>14 DEF MkReader
    <2>2. ReaderShape'
      BY <1>1, <1>3, <1>12, <2>1 DEF ReaderShape
    <2>3. ListedOnce'
      BY <1>10, <2>1 DEF ListedOnce
    <2>4. \A j \in steady' : j \in Got'
      BY <1>3, <1>13, <1>14
    <2> QED BY <1>11, <2>2, <2>3, <2>4 DEF ListingInv, StillComing
  <1>15. CASE /\ Len(it) > 0
              /\ reader' = MkReader("paging", [at |-> it[Len(it)].at, seq |-> it[Len(it)].seq],
                                         reader.got \o IdsOf(it))
              /\ \A r \in Due : \/ \E k \in 1 .. Len(it) : it[k] = r
                                \/ After(r, it[Len(it)])
    <2> DEFINE l == it[Len(it)]
               c == [at |-> l.at, seq |-> l.seq]
    <2>1. /\ reader'.pc = "paging" /\ reader'.cursor = c
          /\ reader' = [pc |-> "paging", cursor |-> c, got |-> reader'.got]
      BY <1>15 DEF MkReader
    <2>2. Len(it) \in 1 .. Len(it) /\ l \in Due /\ l \in rows
      BY <1>3, <1>15
    <2>3. l.at \in 1 .. Times /\ l.seq \in Nat /\ Times \in Nat
      BY <1>1, <2>2, PagingAssumption DEF TableOfRows, Row
    <2>4. \A r : After(r, reader'.cursor) <=> After(r, l)
      BY <2>1 DEF After
    <2>5. ReaderShape'
      <3>1. c \in [at : 1 .. Times + 1, seq : Nat]
        BY <2>3
      <3> HIDE DEF c
      <3> QED BY <1>3, <1>12, <2>1, <3>1 DEF ReaderShape
    <2> HIDE DEF l, c
    <2>6. ASSUME NEW r \in rows, r.job \in Got' PROVE ~After(r, l)
      <3>1. CASE r.job \in Got
        <4>1. ~After(r, reader.cursor)
          BY <1>1, <1>5, <3>1 DEF ListedOnce
        <4>2. After(l, reader.cursor)
          BY <2>2 DEF Due
        <4> QED BY <1>1, <2>2, <4>1, <4>2, AfterGoesOn
      <3>2. CASE r.job \notin Got
        <4>1. PICK k \in 1 .. Len(it) : r.job = it[k].job
          BY <1>3, <2>6, <3>2
        <4>2. r = it[k]
          BY <1>3, <1>7, <4>1
        <4>3. CASE k = Len(it)
          <5>1. r = l
            BY <4>2, <4>3 DEF l
          <5> QED BY <1>7, <5>1, NewerOrders
        <4>4. CASE k # Len(it)
          <5>1. k < Len(it)
            BY <1>3, <4>4
          <5>2. Newer(r, l)
            BY <1>6, <2>2, <4>2, <5>1 DEF l
          <5>3. ~Newer(l, r)
            <6>1. Newer(l, r) => Newer(r, r)
              BY <1>7, <2>2, <5>2, NewerOrders
            <6>2. ~Newer(r, r)
              BY <1>7, NewerOrders
            <6> QED BY <6>1, <6>2
          <5> QED BY <1>7, <2>2, <5>3, NewerOrders
        <4> QED BY <4>3, <4>4
      <3> QED BY <3>1, <3>2
    <2>7. ListedOnce'
      <3>1. \A r \in rows' : r.job \in Got' => ~After(r, reader'.cursor)
        BY <1>5, <2>4, <2>6
      <3> QED BY <1>10, <3>1 DEF ListedOnce, After
    <2>8. StillComing'
      <3>1. ASSUME NEW j \in steady'
            PROVE  j \in Got' \/ \E r \in rows' : r.job = j /\ Matches(r)' /\ After(r, reader'.cursor)
        <4>1. CASE j \in Got
          BY <1>3, <4>1
        <4>2. CASE \E r \in Due : r.job = j
          <5>1. PICK r \in Due : r.job = j
            BY <4>2
          <5>2. CASE \E k \in 1 .. Len(it) : it[k] = r
            BY <1>3, <5>1, <5>2
          <5>3. CASE After(r, l)
            <6>1. r \in rows' /\ Matches(r)'
              BY <1>5, <5>1 DEF Due, Matches
            <6> QED BY <2>4, <5>1, <5>3, <6>1
          <5> QED BY <1>15, <5>2, <5>3 DEF l
        <4> QED BY <1>13, <4>1, <4>2
      <3> QED BY <2>1, <3>1 DEF StillComing, After, Matches
    <2> QED BY <1>11, <2>5, <2>7, <2>8 DEF ListingInv
  <1> QED BY <1>2, <1>14, <1>15 DEF IsPage

\* A bounded set of numbers has a largest.
LEMMA Largest ==
  ASSUME NEW m \in Nat, NEW S, S \subseteq 0 .. m, S # {}
  PROVE  Max(S) \in S /\ \A y \in S : y <= Max(S)
  <1> DEFINE T == {m - x : x \in S}
  <1>0. \A x \in S : x \in Nat /\ m - x \in Nat
    OBVIOUS
  <1>1. T \subseteq Nat /\ T # {}
    BY <1>0
  <1>2. PICK t \in T : \A u \in T : ~(u < t)
    <2>1. \A x, y \in Nat : x < y => <<x, y>> \in OpToRel(<, Nat)
      BY DEF OpToRel
    <2> HIDE DEF T
    <2>2. PICK t \in T : \A u \in T : ~(<<u, t>> \in OpToRel(<, Nat))
      BY <1>1, NatLessThanWellFounded, WFMin
    <2> QED BY <1>1, <2>1, <2>2, Zenon
  <1>3. PICK x \in S : t = m - x
    BY <1>2
  <1>4. ASSUME NEW y \in S PROVE x >= y
    <2>1. m - y \in T
      OBVIOUS
    <2> QED BY <1>0, <1>2, <1>3, <2>1
  <1>5. Max(S) \in S /\ \A y \in S : Max(S) >= y
    <2>1. \E z \in S : \A y \in S : z >= y
      BY <1>3, <1>4
    <2> QED BY <2>1 DEF Max
  <1> QED BY <1>0, <1>5

\* A new row has a rowid of its own, one that a pruned row may have had.
LEMMA InsertKeeps ==
  ASSUME ListingInv, NEW j \in Jobs, NEW at \in 1 .. Times, Insert(j, at)
  PROVE  ListingInv'
  <1> DEFINE S == {0} \cup {r.seq : r \in rows}
             new == [job |-> j, at |-> at, seq |-> NextSeq, state |-> "live"]
  <1>1. TableOfRows /\ ReaderShape /\ ListedOnce /\ StillComing
    BY DEF ListingInv
  <1>2. /\ j \in fresh /\ fresh' = fresh \ {j} /\ rows' = rows \cup {new}
        /\ states' = states /\ reader' = reader /\ steady' = steady
    BY DEF Insert, MkRow
  <1>3. \A r \in rows : r \in Row /\ r.seq \in Nat /\ r.job \notin fresh
    BY <1>1 DEF TableOfRows, Row
  <1>4. PICK m \in Nat : \A r \in rows : r.seq <= m
    BY <1>1 DEF TableOfRows
  <1>5. /\ NextSeq \in Nat /\ \A r \in rows : r.seq < NextSeq
    <2>1. S \subseteq 0 .. m /\ S # {}
      BY <1>3, <1>4
    <2>2. Max(S) \in S /\ \A y \in S : y <= Max(S)
      <3> HIDE DEF S
      <3> QED BY <2>1, Largest
    <2>3. Max(S) \in Nat /\ \A r \in rows : r.seq <= Max(S)
      <3>1. \A r \in rows : r.seq \in S
        OBVIOUS
      <3>2. S \subseteq Nat
        BY <1>3
      <3> HIDE DEF S
      <3> QED BY <2>2, <3>1, <3>2
    <2>4. NextSeq = 1 + Max(S)
      BY DEF NextSeq
    <2> HIDE DEF S
    <2> QED BY <1>3, <2>3, <2>4
  <1>6. new \in Row /\ new.job = j /\ new.seq = NextSeq
    BY <1>5 DEF Row
  <1> HIDE DEF new
  <1>7. TableOfRows'
    <2>1. rows' \subseteq Row /\ IsFiniteSet(rows') /\ fresh' \subseteq Jobs /\ steady' \subseteq Jobs
      BY <1>1, <1>2, <1>6, FS_AddElement DEF TableOfRows
    <2>2. \A r \in rows' : r.job \notin fresh'
      BY <1>2, <1>3, <1>6
    <2>3. \A r, s \in rows' : r.seq = s.seq \/ r.job = s.job => r = s
      <3>1. \A r \in rows : r.seq # new.seq /\ r.job # new.job
        BY <1>2, <1>3, <1>5, <1>6
      <3> QED BY <1>1, <1>2, <3>1 DEF TableOfRows
    <2>4. \A r \in rows' : r.seq <= NextSeq
      BY <1>2, <1>3, <1>5, <1>6
    <2> QED BY <1>5, <2>1, <2>2, <2>3, <2>4 DEF TableOfRows
  <1>8. ReaderShape'
    BY <1>1, <1>2 DEF ReaderShape
  <1>9. Got' = Got /\ j \notin Got
    <2>1. j \notin Got
      BY <1>1, <1>2 DEF ReaderShape, Got
    <2> QED BY <1>2, <2>1 DEF Got
  <1>10. ListedOnce'
    BY <1>1, <1>2, <1>6, <1>9 DEF ListedOnce, After
  <1>11. StillComing'
    BY <1>1, <1>2, <1>9 DEF StillComing, After, Matches
  <1> QED BY <1>7, <1>8, <1>10, <1>11 DEF ListingInv

\* A job that ends keeps its row's place.
LEMMA EndKeeps ==
  ASSUME ListingInv, NEW r \in rows, RowEnds(r)
  PROVE  ListingInv'
  <1> DEFINE new == [r EXCEPT !.state = "ended"]
  <1>1. TableOfRows /\ ReaderShape /\ ListedOnce /\ StillComing
    BY DEF ListingInv
  <1>2. /\ rows' = (rows \ {r}) \cup {new} /\ fresh' = fresh /\ states' = states /\ reader' = reader
        /\ steady' = IF "ended" \in states THEN steady ELSE steady \ {r.job}
    BY DEF RowEnds
  <1>3. r \in Row
    BY <1>1 DEF TableOfRows
  <1>4. new \in Row /\ new.job = r.job /\ new.seq = r.seq /\ new.at = r.at /\ new.state = "ended"
    BY <1>3 DEF Row
  <1> HIDE DEF new
  <1>5. TableOfRows'
    <2>1. IsFiniteSet(rows')
      BY <1>1, <1>2, FS_AddElement, FS_RemoveElement DEF TableOfRows
    <2>2. rows' \subseteq Row /\ fresh' \subseteq Jobs /\ steady' \subseteq Jobs
      BY <1>1, <1>2, <1>4 DEF TableOfRows
    <2>3. \A s \in rows' : s.job \notin fresh'
      BY <1>1, <1>2, <1>4 DEF TableOfRows
    <2>4. \A s, t \in rows' : s.seq = t.seq \/ s.job = t.job => s = t
      <3>1. \A s \in rows \ {r} : s.seq # new.seq /\ s.job # new.job
        BY <1>1, <1>4 DEF TableOfRows
      <3> QED BY <1>1, <1>2, <3>1 DEF TableOfRows
    <2>5. \E m \in Nat : \A s \in rows' : s.seq <= m
      BY <1>1, <1>2, <1>4 DEF TableOfRows
    <2> QED BY <2>1, <2>2, <2>3, <2>4, <2>5 DEF TableOfRows
  <1>6. ReaderShape' /\ Got' = Got
    BY <1>1, <1>2 DEF ReaderShape, Got
  <1>7. ListedOnce'
    <2>1. \A s \in rows' : \E t \in rows : s.job = t.job /\ s.at = t.at /\ s.seq = t.seq
      BY <1>2, <1>4
    <2> QED BY <1>1, <1>2, <1>6, <2>1 DEF ListedOnce, After
  <1>8. StillComing'
    <2>1. ASSUME NEW j \in steady', j \notin Got,
                 NEW s \in rows, s.job = j, Matches(s), After(s, reader.cursor)
          PROVE  \E t \in rows' : t.job = j /\ Matches(t)' /\ After(t, reader.cursor)
      <3>1. CASE s # r
        BY <1>2, <2>1, <3>1 DEF Matches
      <3>2. CASE s = r
        <4>1. "ended" \in states
          BY <1>2, <2>1, <3>2
        <4> QED BY <1>2, <1>4, <2>1, <3>2, <4>1 DEF Matches, After
      <3> QED BY <3>1, <3>2
    <2>2. steady' \subseteq steady
      BY <1>2
    <2> QED BY <1>1, <1>2, <1>6, <2>1, <2>2 DEF StillComing, After, Matches
  <1> QED BY <1>5, <1>6, <1>7, <1>8 DEF ListingInv

LEMMA PruneKeeps ==
  ASSUME ListingInv, NEW r \in rows, PruneRow(r)
  PROVE  ListingInv'
  <1>1. TableOfRows /\ ReaderShape /\ ListedOnce /\ StillComing
    BY DEF ListingInv
  <1>2. /\ rows' = rows \ {r} /\ fresh' = fresh /\ states' = states /\ reader' = reader
        /\ steady' = steady \ {r.job}
    BY DEF PruneRow
  <1>3. TableOfRows'
    <2>1. IsFiniteSet(rows')
      BY <1>1, <1>2, FS_RemoveElement DEF TableOfRows
    <2> QED BY <1>1, <1>2, <2>1 DEF TableOfRows
  <1>4. ReaderShape' /\ Got' = Got
    BY <1>1, <1>2 DEF ReaderShape, Got
  <1>5. ListedOnce'
    BY <1>1, <1>2, <1>4 DEF ListedOnce, After
  <1>6. StillComing'
    BY <1>1, <1>2, <1>4 DEF StillComing, After, Matches
  <1> QED BY <1>3, <1>4, <1>5, <1>6 DEF ListingInv

\* The inductive invariant of a client that pages through a changing table.
THEOREM ListingInvariant == PagingSpec => []ListingInv
  <1>1. PagingInit => ListingInv
    <2> SUFFICES ASSUME PagingInit PROVE ListingInv
      OBVIOUS
    <2>1. TableOfRows
      BY FS_EmptySet DEF PagingInit, TableOfRows
    <2>2. Times + 1 \in 1 .. Times + 1
      BY PagingAssumption
    <2>3. reader = [pc |-> "paging", cursor |-> [at |-> Times + 1, seq |-> 0], got |-> <<>>]
      BY DEF PagingInit, MkReader, Top
    <2>4. <<>> \in Seq(Jobs) /\ Len(<<>>) = 0
      OBVIOUS
    <2>5. ReaderShape
      BY <2>2, <2>3, <2>4 DEF ReaderShape
    <2>6. ListedOnce /\ StillComing
      BY <2>3, <2>4 DEF ListedOnce, StillComing, PagingInit
    <2> QED BY <2>1, <2>5, <2>6 DEF ListingInv
  <1>2. ListingInv /\ [PagingNext]_(listingVars) => ListingInv'
    <2> SUFFICES ASSUME ListingInv, [PagingNext]_(listingVars) PROVE ListingInv'
      OBVIOUS
    <2>1. CASE Page
      BY <2>1, PageKeeps
    <2>2. CASE \E j \in Jobs, at \in 1 .. Times : Insert(j, at)
      BY <2>2, InsertKeeps
    <2>3. CASE \E r \in rows : RowEnds(r) \/ PruneRow(r)
      BY <2>3, EndKeeps, PruneKeeps
    <2>4. CASE UNCHANGED listingVars
      <3>1. rows' = rows /\ fresh' = fresh /\ states' = states /\ reader' = reader /\ steady' = steady
        BY <2>4 DEF listingVars
      <3> QED BY <3>1 DEF ListingInv, TableOfRows, ReaderShape, ListedOnce, StillComing, Got,
                          After, Matches
    <2> QED BY <2>1, <2>2, <2>3, <2>4 DEF PagingNext
  <1> QED BY <1>1, <1>2, PTL DEF PagingSpec

\* docs/api.md: following next_cursor lists no request twice and skips none
\* that matched all along, for any number of requests and any page size,
\* while requests come, end and are pruned, created_at stands still or steps
\* back and rowids are used again (ListJobs, writeJobPage).
THEOREM PagesNeverRepeatOrSkip == PagingSpec => []ListedExactlyOnce
  <1>1. ListingInv => ListedExactlyOnce
    <2> SUFFICES ASSUME ListingInv PROVE ListedExactlyOnce
      OBVIOUS
    <2>1. DOMAIN reader.got = 1 .. Len(reader.got)
      BY DEF ListingInv, ReaderShape
    <2>2. IsInjective(reader.got)
      BY <2>1 DEF ListingInv, ListedOnce, IsInjective
    <2>3. ToSet(reader.got) = Got
      BY <2>1 DEF ToSet, Got
    <2>4. reader.pc = "done" => steady \subseteq Got
      BY DEF ListingInv, StillComing
    <2> QED BY <2>2, <2>3, <2>4 DEF ListedExactlyOnce
  <1> QED BY <1>1, ListingInvariant, PTL
=============================================================================
