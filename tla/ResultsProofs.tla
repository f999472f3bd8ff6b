---------------------------- MODULE ResultsProofs ---------------------------
(***************************************************************************)
(* Proofs about result files, for every set of workers and paths, every    *)
(* size of a result and every budget of crashes and failing operations.    *)
(***************************************************************************)
EXTENDS Results, TLAPS
-----------------------------------------------------------------------------
(* The inductive invariant.                                                *)

WorkerStates ==
  [pc : {"idle", "fetching", "downloading", "spooled", "placed", "dropping"},
   path : Paths \cup {NoPath}, n : Nat, past : BOOLEAN]

\* Every value has its type; what is in a file is a whole result.
TypeOK ==
  /\ row \in [state : Ends \cup {"live", "gone"}, path : Paths \cup {NoPath}]
  /\ file \in [Paths -> {size, NoFile}]
  /\ temp \subseteq Workers
  /\ worker \in [Workers -> WorkerStates]
  /\ size \in Sizes /\ late \in BOOLEAN
  /\ reader \in [pc : {"none", "opening", "served", "pruned"},
                 path : Paths \cup {NoPath}, n : Nat]
  /\ sweep \in {"idle", "unlink", "delete"}
  /\ stops \in 0 .. MaxStops /\ faults \in 0 .. MaxFaults
  /\ unlinked \in BOOLEAN /\ overtaken \subseteq Paths /\ told \in Nat

\* A worker past the spool has the whole result, and the file it has placed
\* is still there while the row is open.
WorkerSound(w) ==
  /\ worker[w].pc # "idle" => worker[w].path \in Paths
  /\ worker[w].pc = "fetching" => worker[w].n = 0
  /\ worker[w].pc = "downloading" => worker[w].n <= Readable
  /\ worker[w].pc \in {"spooled", "placed", "dropping"}
       => worker[w].n = size /\ size <= MaxResult
  /\ worker[w].past => late
  /\ worker[w].pc = "placed" /\ row.state = "live" => file[worker[w].path] # NoFile
  /\ worker[w].pc = "dropping" => row.state # "live"

\* What the row says of its result is true.
RowSound ==
  /\ row.state = "completed" => told = size /\ size <= MaxResult
  /\ row.path # NoPath => row.state \in {"completed", "gone"}
  /\ row.state = "failed" /\ faults = MaxFaults => size > MaxResult \/ late
  /\ row.state = "completed" /\ row.path # NoPath /\ ~unlinked => file[row.path] # NoFile
  /\ row.state = "gone" => unlinked
  /\ FileGoesBeforeRow

\* A request for the result has read the row's path.
ReaderSound ==
  /\ reader.pc = "opening" => /\ reader.path \in Paths /\ row.path = reader.path
                              /\ row.state \in {"completed", "gone"}
  /\ reader.pc = "pruned" => unlinked
  /\ reader.pc = "served" => reader.n = size

\* The sweep works on an ended request, and deletes the row only after its
\* file, which only a download it overtook may put back. From then on every
\* download under way is one of those.
SweepSound ==
  /\ sweep # "idle" => row.state \in Ends
  /\ sweep = "delete" =>
       /\ unlinked
       /\ row.path \notin overtaken \cup {NoPath} /\ faults = MaxFaults => file[row.path] = NoFile
  /\ sweep = "delete" \/ row.state = "gone" => \A w \in Busy : worker[w].path \in overtaken

\* Without faults every file belongs to the row, to a worker, or to a download
\* that retention overtook.
Accounted ==
  Smooth =>
    /\ \A w \in temp : worker[w].pc \in {"downloading", "spooled"}
    /\ \A p \in Paths \ overtaken : file[p] # NoFile =>
         \/ row = MkRow("completed", p)
         \/ \E w \in Workers : worker[w].pc \in {"placed", "dropping"} /\ worker[w].path = p

ResultsInv == /\ TypeOK /\ (\A w \in Workers : WorkerSound(w)) /\ RowSound
              /\ ReaderSound /\ SweepSound /\ Accounted
-----------------------------------------------------------------------------
USE DEF MkRow, MkWorker, MkReader, Idle, Ends, NoReader

LEMMA MinPair ==
  ASSUME NEW a \in Nat, NEW b \in Nat
  PROVE  Min({a, b}) = IF a <= b THEN a ELSE b
  BY DEF Min

\* The copy is bounded by the result and by one chunk past the limit.
LEMMA ReadableIs ==
  ASSUME size \in Sizes
  PROVE  /\ Readable \in Nat /\ Readable <= size
         /\ Readable <= MaxResult => Readable = size
         /\ Readable > MaxResult => size > MaxResult
  BY ResultsAssumption, MinPair DEF Readable

LEMMA InitInv == Init => ResultsInv
  <1> SUFFICES ASSUME Init PROVE ResultsInv
    OBVIOUS
  <1> USE ResultsAssumption
  <1>1. TypeOK
    <2>1. Idle \in WorkerStates
      BY DEF WorkerStates
    <2>2. worker \in [Workers -> WorkerStates] /\ file \in [Paths -> {size, NoFile}]
      BY <2>1 DEF Init
    <2>3. late \in BOOLEAN /\ unlinked \in BOOLEAN
      BY DEF Init
    <2>4. /\ row \in [state : Ends \cup {"live", "gone"}, path : Paths \cup {NoPath}]
          /\ reader \in [pc : {"none", "opening", "served", "pruned"},
                         path : Paths \cup {NoPath}, n : Nat]
          /\ temp \subseteq Workers /\ size \in Sizes /\ sweep \in {"idle", "unlink", "delete"}
          /\ stops \in 0 .. MaxStops /\ faults \in 0 .. MaxFaults /\ told \in Nat
          /\ overtaken \subseteq Paths
      BY DEF Init
    <2> QED BY <2>2, <2>3, <2>4 DEF TypeOK
  <1>2. \A w \in Workers : WorkerSound(w)
    BY DEF Init, WorkerSound
  <1>3. RowSound /\ ReaderSound /\ SweepSound /\ Accounted
    BY DEF Init, RowSound, ReaderSound, SweepSound, Accounted, FileGoesBeforeRow
  <1> QED BY <1>1, <1>2, <1>3 DEF ResultsInv

\* While the row is open no sweep runs; and a worker at work when the row is
\* gone, or about to be, is one that retention overtook.
LEMMA LiveOrOvertaken ==
  ASSUME ResultsInv, NEW w \in Workers
  PROVE  /\ row.state = "live" => sweep = "idle"
         /\ worker[w].pc # "idle" /\ (sweep = "delete" \/ row.state = "gone")
              => worker[w].path \in overtaken
  BY DEF ResultsInv, SweepSound, Busy

\* One worker moves, and may end the request; no file changes.
LEMMA WorkerMoves ==
  ASSUME ResultsInv, NEW w \in Workers, NEW k \in WorkerStates,
         worker' = [worker EXCEPT ![w] = k],
         file' = file, size' = size, late' = late, reader' = reader,
         sweep' = sweep, stops' = stops, unlinked' = unlinked, overtaken' = overtaken,
         faults' = faults \/ (faults' = faults - 1 /\ faults > 0),
         row' \in [state : Ends \cup {"live", "gone"}, path : Paths \cup {NoPath}],
         told' \in Nat,
         WorkerSound(w)',
         k.pc # "idle" => \/ row.state = "live"
                          \/ worker[w].pc # "idle" /\ k.path = worker[w].path,
         \/ row' = row /\ told' = told
         \/ row.state = "live" /\ row'.state \in Ends,
         row' # row =>
           /\ row'.path # NoPath => row'.state = "completed" /\ file[row'.path] # NoFile
           /\ row'.state = "completed" => told' = size /\ size <= MaxResult
           /\ row'.state = "failed" /\ faults' = MaxFaults => size > MaxResult \/ late,
         temp' \subseteq temp \cup {w},
         w \in temp' /\ Smooth => k.pc \in {"downloading", "spooled"},
         worker[w].pc \in {"placed", "dropping"} =>
           \/ k.pc \in {"placed", "dropping"} /\ k.path = worker[w].path
           \/ row' = MkRow("completed", worker[w].path)
           \/ worker[w].path \in overtaken
           \/ faults' # faults
  PROVE  ResultsInv'
  <1> USE ResultsAssumption
  <1>1. /\ faults \in Nat /\ MaxFaults \in Nat /\ faults <= MaxFaults
        /\ faults' \in 0 .. MaxFaults
        /\ faults' = MaxFaults => faults = MaxFaults /\ faults' = faults
    BY DEF ResultsInv, TypeOK
  <1>2. TypeOK'
    <2>1. worker' \in [Workers -> WorkerStates] /\ temp' \subseteq Workers
      BY DEF ResultsInv, TypeOK
    <2> QED BY <1>1, <2>1 DEF ResultsInv, TypeOK
  <1>3. \A v \in Workers \ {w} : worker'[v] = worker[v]
    BY DEF ResultsInv, TypeOK
  <1>4. worker'[w] = k
    BY DEF ResultsInv, TypeOK
  <1>5. ASSUME NEW v \in Workers PROVE WorkerSound(v)'
    <2>1. CASE v = w
      BY <2>1
    <2>2. CASE v # w
      <3>1. worker'[v] = worker[v] /\ WorkerSound(v) /\ Readable' = Readable
        BY <1>3, <2>2 DEF ResultsInv, Readable
      <3>2. row'.state = "live" => row.state = "live"
        OBVIOUS
      <3>3. row.state # "live" => row'.state # "live"
        BY <3>2
      <3> QED BY <3>1, <3>2, <3>3 DEF WorkerSound
    <2> QED BY <2>1, <2>2
  <1>6. RowSound'
    <2>1. CASE row' = row /\ told' = told
      BY <1>1, <2>1 DEF ResultsInv, RowSound, FileGoesBeforeRow
    <2>2. CASE row.state = "live" /\ row'.state \in Ends
      <3>1. row' # row /\ row'.state # "gone"
        BY <2>2
      <3> QED BY <1>1, <3>1 DEF RowSound, FileGoesBeforeRow
    <2> QED BY <2>1, <2>2
  <1>7. ReaderSound'
    BY DEF ResultsInv, ReaderSound, RowSound
  <1>8. SweepSound'
    <2>1. row' = row \/ (row.state = "live" /\ row'.state \in Ends /\ sweep = "idle")
      BY LiveOrOvertaken
    <2>2. CASE row' = row
      <3>1. ASSUME sweep = "delete" \/ row.state = "gone", NEW v \in Workers,
                   worker'[v].pc # "idle"
            PROVE  worker'[v].path \in overtaken
        <4>1. row.state # "live"
          BY <3>1, LiveOrOvertaken
        <4>2. CASE v = w
          BY <1>4, <3>1, <4>1, <4>2, LiveOrOvertaken
        <4>3. CASE v # w
          BY <1>3, <3>1, <4>3, LiveOrOvertaken
        <4> QED BY <4>2, <4>3
      <3>2. /\ sweep' # "idle" => row'.state \in Ends
            /\ sweep' = "delete" =>
                 /\ unlinked'
                 /\ row'.path \notin overtaken' \cup {NoPath} /\ faults' = MaxFaults
                      => file'[row'.path] = NoFile
        BY <1>1, <2>2 DEF ResultsInv, SweepSound
      <3> QED BY <2>2, <3>1, <3>2 DEF SweepSound, Busy
    <2>3. CASE row.state = "live" /\ row'.state \in Ends /\ sweep = "idle"
      BY <2>3 DEF SweepSound
    <2> QED BY <2>1, <2>2, <2>3
  <1>9. Accounted'
    <2> SUFFICES ASSUME Smooth' PROVE /\ \A v \in temp' : worker'[v].pc \in {"downloading", "spooled"}
                                      /\ \A p \in Paths \ overtaken : file[p] # NoFile =>
                                           \/ row' = MkRow("completed", p)
                                           \/ \E v \in Workers : /\ worker'[v].pc \in {"placed", "dropping"}
                                                                 /\ worker'[v].path = p
      BY DEF Accounted
    <2>1. Smooth /\ faults' = faults
      BY <1>1 DEF Smooth
    <2>2. \A v \in temp' : worker'[v].pc \in {"downloading", "spooled"}
      BY <1>3, <1>4, <2>1 DEF ResultsInv, TypeOK, Accounted
    <2>3. ASSUME NEW p \in Paths \ overtaken, file[p] # NoFile
          PROVE  \/ row' = MkRow("completed", p)
                 \/ \E v \in Workers : worker'[v].pc \in {"placed", "dropping"} /\ worker'[v].path = p
      <3>1. CASE row = MkRow("completed", p)
        BY <3>1
      <3>2. ASSUME NEW v \in Workers, worker[v].pc \in {"placed", "dropping"}, worker[v].path = p
            PROVE  \/ row' = MkRow("completed", p)
                   \/ \E u \in Workers : worker'[u].pc \in {"placed", "dropping"} /\ worker'[u].path = p
        <4>1. CASE v = w
          BY <1>4, <2>1, <3>2, <4>1
        <4>2. CASE v # w
          BY <1>3, <3>2, <4>2
        <4> QED BY <4>1, <4>2
      <3> QED BY <2>1, <2>3, <3>1, <3>2 DEF ResultsInv, Accounted
    <2> QED BY <2>2, <2>3
  <1> QED BY <1>2, <1>5, <1>6, <1>7, <1>8, <1>9 DEF ResultsInv

LEMMA StateTypes ==
  ASSUME ResultsInv, NEW w \in Workers,
         NEW pc \in {"idle", "fetching", "downloading", "spooled", "placed", "dropping"},
         NEW n \in Nat
  PROVE  /\ Idle \in WorkerStates
         /\ MkWorker(pc, worker[w].path, n, worker[w].past) \in WorkerStates
         /\ \A p \in Paths : MkWorker(pc, p, n, late) \in WorkerStates
         /\ worker[w].n \in Nat
  <1>1. worker[w] \in WorkerStates /\ late \in BOOLEAN
    BY DEF ResultsInv, TypeOK
  <1>2. worker[w].path \in Paths \cup {NoPath} /\ worker[w].past \in BOOLEAN /\ worker[w].n \in Nat
    BY <1>1 DEF WorkerStates
  <1> QED BY <1>1, <1>2 DEF WorkerStates

\* A failed fetch: the request waits for the next tick, or fails because the
\* error is permanent or the deadline has passed.
LEMMA FetchErrorInv ==
  ASSUME ResultsInv, NEW w \in Workers, NEW transient \in BOOLEAN,
         worker[w].pc \in {"fetching", "downloading"}, FetchError(w, transient),
         ~transient => size > MaxResult \/ faults' # faults,
         faults' = faults \/ Fault,
         \/ temp' = temp /\ worker[w].pc = "fetching"
         \/ temp' = temp \ {w},
         UNCHANGED <<file, target, reader, sweep, stops, history>>
  PROVE  ResultsInv'
  <1> USE ResultsAssumption
  <1>2. /\ worker' = [worker EXCEPT ![w] = Idle] /\ Idle \in WorkerStates
        /\ size' = size /\ late' = late
        /\ unlinked' = unlinked /\ overtaken' = overtaken /\ told' = told
    BY StateTypes DEF FetchError, Free, target, history
  <1>3. worker'[w] = Idle
    BY <1>2 DEF ResultsInv, TypeOK
  <1>4. WorkerSound(w)'
    BY <1>3 DEF WorkerSound
  <1>5. faults \in Nat /\ (faults' = faults \/ (faults' = faults - 1 /\ faults > 0))
    BY DEF Fault, ResultsInv, TypeOK
  <1>6. /\ row' = row \/ (row.state = "live" /\ row' = MkRow("failed", NoPath))
        /\ row' # row => ~transient \/ worker[w].past
    BY DEF FetchError, EndAs
  <1>7. worker[w].past => late
    BY DEF ResultsInv, WorkerSound
  <1>8. w \in temp' /\ Smooth => FALSE
    BY DEF ResultsInv, Accounted
  <1>9. faults' = MaxFaults => faults' = faults
    BY <1>5 DEF ResultsInv, TypeOK
  <1>10. row' \in [state : Ends \cup {"live", "gone"}, path : Paths \cup {NoPath}] /\ told' \in Nat
    BY <1>2, <1>6 DEF ResultsInv, TypeOK
  <1>11. temp' \subseteq temp \cup {w}
    OBVIOUS
  <1>12. row' # row =>
           /\ row'.path # NoPath => row'.state = "completed" /\ file[row'.path] # NoFile
           /\ row'.state = "completed" => told' = size /\ size <= MaxResult
           /\ row'.state = "failed" /\ faults' = MaxFaults => size > MaxResult \/ late
    <2> SUFFICES ASSUME row' # row, faults' = MaxFaults PROVE size > MaxResult \/ late
      BY <1>6
    <2>1. CASE ~transient
      BY <1>9, <2>1
    <2>2. CASE worker[w].past
      BY <1>7, <2>2
    <2> QED BY <1>6, <2>1, <2>2
  <1>13. \/ row' = row /\ told' = told
         \/ row.state = "live" /\ row'.state \in Ends
    BY <1>2, <1>6
  <1> QED BY <1>2, <1>4, <1>5, <1>8, <1>10, <1>11, <1>12, <1>13, WorkerMoves

\* The steps up to the spooled result.
LEMMA DownloadInv ==
  ASSUME ResultsInv, NEW w \in Workers,
         \/ \E p \in Paths : PollTarget(w, p)
         \/ FetchResult(w) \/ Read(w) \/ DownloadBreaks(w) \/ SpoolResult(w)
  PROVE  ResultsInv'
  <1> USE ResultsAssumption
  <1> DEFINE k(pc, n) == MkWorker(pc, worker[w].path, n, worker[w].past)
  <1>0. /\ worker[w] \in WorkerStates /\ worker[w].n \in Nat /\ size \in Sizes
        /\ faults \in Nat /\ told \in Nat
    <2>1. worker[w].n \in Nat
      BY StateTypes
    <2> QED BY <2>1 DEF ResultsInv, TypeOK
  <1>1. ASSUME NEW p \in Paths, PollTarget(w, p)
        PROVE  ResultsInv'
    <2>0. MkWorker("fetching", p, 0, late) \in WorkerStates
      BY StateTypes
    <2>1. /\ worker' = [worker EXCEPT ![w] = MkWorker("fetching", p, 0, late)]
          /\ worker[w].pc = "idle" /\ row.state = "live"
          /\ row' = row /\ file' = file /\ temp' = temp /\ size' = size /\ late' = late
          /\ reader' = reader /\ sweep' = sweep /\ stops' = stops /\ faults' = faults
          /\ unlinked' = unlinked /\ overtaken' = overtaken /\ told' = told
      BY <1>1 DEF PollTarget, target, history
    <2>3. worker'[w] = MkWorker("fetching", p, 0, late)
      BY <2>1 DEF ResultsInv, TypeOK
    <2>4. WorkerSound(w)'
      <3>1. worker'[w].past = late'
        BY <2>1, <2>3
      <3>2. worker'[w].past => late'
        BY <3>1
      <3> QED BY <2>1, <2>3, <3>2 DEF WorkerSound
    <2>5. w \in temp' /\ Smooth => FALSE
      BY <2>1 DEF ResultsInv, Accounted
    <2>6. row' \in [state : Ends \cup {"live", "gone"}, path : Paths \cup {NoPath}] /\ told' \in Nat
      BY <2>1 DEF ResultsInv, TypeOK
    <2> QED BY <2>0, <2>1, <2>4, <2>5, <2>6, WorkerMoves
  \* The worker goes on with its download: nothing else changes.
  <1>2. ASSUME NEW pc \in {"downloading", "spooled"}, NEW n \in Nat,
               worker[w].pc \in {"fetching", "downloading"},
               pc = "downloading" => n <= Readable,
               pc = "spooled" => n = size /\ size <= MaxResult,
               worker' = [worker EXCEPT ![w] = k(pc, n)], temp' \subseteq temp \cup {w},
               UNCHANGED <<row, file, target, reader, sweep, stops, faults, history>>
        PROVE  ResultsInv'
    <2>1. /\ k(pc, n) \in WorkerStates /\ size' = size /\ late' = late
          /\ unlinked' = unlinked /\ overtaken' = overtaken /\ told' = told
      BY <1>2, StateTypes DEF target, history
    <2>3. worker'[w] = k(pc, n)
      BY <1>2 DEF ResultsInv, TypeOK
    <2>4. WorkerSound(w)'
      <3>1. WorkerSound(w) /\ Readable' = Readable
        BY <2>1 DEF ResultsInv, Readable
      <3> QED BY <1>2, <2>1, <2>3, <3>1 DEF WorkerSound
    <2>5. row' \in [state : Ends \cup {"live", "gone"}, path : Paths \cup {NoPath}] /\ told' \in Nat
      BY <1>2, <2>1 DEF ResultsInv, TypeOK
    <2>6. k(pc, n).pc = pc /\ k(pc, n).path = worker[w].path
      OBVIOUS
    <2> QED BY <1>2, <2>1, <2>4, <2>5, <2>6, WorkerMoves
  <1>3. CASE FetchResult(w)
    <2>1. CASE To(w, "downloading") /\ temp' = temp \cup {w} /\ UNCHANGED <<row, faults>>
      <3>1. worker[w].n <= Readable
        BY <1>3, ReadableIs, <1>0 DEF FetchResult, ResultsInv, WorkerSound
      <3> QED BY <1>0, <1>2, <1>3, <2>1, <3>1 DEF FetchResult, To, At
    <2>2. CASE FetchError(w, TRUE) /\ UNCHANGED <<temp, faults>>
      BY <1>3, <2>2, FetchErrorInv DEF FetchResult
    <2>3. CASE Fault /\ FetchError(w, FALSE) /\ UNCHANGED temp
      <3>1. faults' # faults
        BY <1>0, <2>3 DEF Fault
      <3> QED BY <1>3, <2>3, <3>1, FetchErrorInv DEF FetchResult
    <2> QED BY <1>3, <2>1, <2>2, <2>3 DEF FetchResult
  <1>4. CASE Read(w)
    <2>1. worker[w].n + 1 <= Readable /\ worker[w].n + 1 \in Nat
      BY <1>0, <1>4, ReadableIs DEF Read
    <2>2. /\ worker' = [worker EXCEPT ![w] = k("downloading", worker[w].n + 1)]
          /\ worker[w].pc = "downloading" /\ temp' \subseteq temp \cup {w}
      BY <1>4 DEF Read, At
    <2> QED BY <1>2, <1>4, <2>1, <2>2 DEF Read
  <1>5. CASE DownloadBreaks(w)
    BY <1>5, FetchErrorInv DEF DownloadBreaks
  <1>6. CASE SpoolResult(w)
    <2>1. worker[w].pc = "downloading" /\ worker[w].n = Readable
      BY <1>6 DEF SpoolResult
    <2>2. CASE worker[w].n > MaxResult
      <3>1. size > MaxResult
        BY <1>0, <2>1, <2>2, ReadableIs
      <3> QED BY <1>6, <2>1, <2>2, <3>1, FetchErrorInv DEF SpoolResult
    <2>3. CASE ~(worker[w].n > MaxResult)
      <3>1. worker[w].n = size /\ size <= MaxResult
        BY <1>0, <2>1, <2>3, ReadableIs
      <3>2. /\ worker' = [worker EXCEPT ![w] = k("spooled", worker[w].n)]
            /\ temp' \subseteq temp \cup {w}
        BY <1>6, <2>3 DEF SpoolResult, To, At
      <3> QED BY <1>0, <1>2, <1>6, <2>1, <2>3, <3>1, <3>2 DEF SpoolResult
    <2> QED BY <2>2, <2>3
  <1> QED BY <1>1, <1>3, <1>4, <1>5, <1>6

\* A worker with a spooled or placed result leaves the files alone: it ends
\* the request, finds it ended, or fails.
LEMMA FinishInv ==
  ASSUME ResultsInv, NEW w \in Workers,
         \/ CompleteInline(w)
         \/ Rename(w) /\ Fault /\ EndAs("failed", NoPath) /\ Free(w) /\ file' = file
         \/ MarkCompleted(w)
  PROVE  ResultsInv'
  <1> USE ResultsAssumption
  <1>0a. /\ Idle \in WorkerStates /\ worker[w].n \in Nat
    BY StateTypes
  <1>0b. /\ worker[w] \in WorkerStates
         /\ size \in Sizes /\ faults \in Nat /\ faults <= MaxFaults /\ told \in Nat
         /\ row \in [state : Ends \cup {"live", "gone"}, path : Paths \cup {NoPath}]
    BY DEF ResultsInv, TypeOK
  <1>0c. worker[w].pc \in {"spooled", "placed"}
    BY DEF CompleteInline, Rename, MarkCompleted
  <1>0d. /\ size' = size /\ late' = late /\ reader' = reader /\ sweep' = sweep
         /\ stops' = stops /\ unlinked' = unlinked /\ overtaken' = overtaken /\ file' = file
    BY DEF CompleteInline, Rename, MarkCompleted, target, history
  <1>0. /\ worker[w] \in WorkerStates /\ worker[w].n \in Nat /\ Idle \in WorkerStates
        /\ size \in Sizes /\ faults \in Nat /\ faults <= MaxFaults /\ told \in Nat
        /\ row \in [state : Ends \cup {"live", "gone"}, path : Paths \cup {NoPath}]
        /\ worker[w].pc \in {"spooled", "placed"}
        /\ size' = size /\ late' = late /\ reader' = reader /\ sweep' = sweep
        /\ stops' = stops /\ unlinked' = unlinked /\ overtaken' = overtaken /\ file' = file
    BY <1>0a, <1>0b, <1>0c, <1>0d
  <1>1. /\ worker[w].path \in Paths /\ worker[w].n = size /\ size <= MaxResult
        /\ worker[w].pc = "placed" /\ row.state = "live" => file[worker[w].path] # NoFile
    BY <1>0 DEF ResultsInv, WorkerSound
  <1>2. Free(w) => WorkerSound(w)'
    <2> SUFFICES ASSUME Free(w) PROVE WorkerSound(w)'
      OBVIOUS
    <2>1. worker'[w] = Idle
      BY DEF Free, ResultsInv, TypeOK
    <2> QED BY <2>1 DEF WorkerSound
  <1>3. Fault => faults' = faults - 1 /\ faults > 0 /\ faults' # faults /\ faults' # MaxFaults
    BY <1>0 DEF Fault
  <1>4. w \in temp /\ Smooth => worker[w].pc = "spooled"
    BY <1>0 DEF ResultsInv, Accounted
  <1>5. CASE CompleteInline(w)
    <2>1. /\ Free(w) /\ worker' = [worker EXCEPT ![w] = Idle] /\ temp' = temp \ {w}
      BY <1>5 DEF CompleteInline, Free
    <2>2. \/ row' = row /\ told' = told
          \/ row.state = "live" /\ row' = MkRow("completed", NoPath) /\ told' = worker[w].n
      BY <1>5 DEF CompleteInline, EndAs
    <2>3. faults' = faults \/ (faults' = faults - 1 /\ faults > 0)
      BY <1>3, <1>5 DEF CompleteInline
    <2>4. worker[w].pc = "spooled"
      BY <1>5 DEF CompleteInline
    <2>5. row' \in [state : Ends \cup {"live", "gone"}, path : Paths \cup {NoPath}] /\ told' \in Nat
      BY <1>0, <1>1, <2>2
    <2>6. /\ (row' = row /\ told' = told) \/ (row.state = "live" /\ row'.state \in Ends)
          /\ row' # row =>
               /\ row'.path # NoPath => row'.state = "completed" /\ file[row'.path] # NoFile
               /\ row'.state = "completed" => told' = size /\ size <= MaxResult
               /\ row'.state = "failed" /\ faults' = MaxFaults => size > MaxResult \/ late
      BY <1>1, <2>2
    <2>7. WorkerSound(w)' /\ temp' \subseteq temp \cup {w} /\ w \notin temp'
      BY <1>2, <2>1
    <2> QED BY <1>0, <1>1, <2>1, <2>3, <2>4, <2>5, <2>6, <2>7, WorkerMoves
  <1>6. CASE Rename(w) /\ Fault /\ EndAs("failed", NoPath) /\ Free(w) /\ file' = file
    <2>1. /\ worker' = [worker EXCEPT ![w] = Idle] /\ temp' = temp \ {w} /\ told' = told
          /\ worker[w].pc = "spooled"
      BY <1>6 DEF Rename, Free, history
    <2>2. row' = row \/ (row.state = "live" /\ row' = MkRow("failed", NoPath))
      BY <1>6 DEF EndAs
    <2>3. row' \in [state : Ends \cup {"live", "gone"}, path : Paths \cup {NoPath}]
      BY <1>0, <1>1, <2>2
    <2>4. /\ (row' = row /\ told' = told) \/ (row.state = "live" /\ row'.state \in Ends)
          /\ row' # row =>
               /\ row'.path # NoPath => row'.state = "completed" /\ file[row'.path] # NoFile
               /\ row'.state = "completed" => told' = size /\ size <= MaxResult
               /\ row'.state = "failed" /\ faults' = MaxFaults => size > MaxResult \/ late
      BY <1>3, <1>6, <2>1, <2>2
    <2>5. WorkerSound(w)' /\ temp' \subseteq temp \cup {w} /\ w \notin temp' /\ told' \in Nat
      BY <1>0, <1>2, <1>6, <2>1
    <2>6. faults' = faults \/ (faults' = faults - 1 /\ faults > 0)
      BY <1>3, <1>6
    <2> QED BY <1>0, <1>1, <2>1, <2>3, <2>4, <2>5, <2>6, WorkerMoves
  <1>7. CASE MarkCompleted(w)
    <2>0. worker[w].pc = "placed" /\ temp' = temp
      BY <1>7 DEF MarkCompleted
    <2>1. CASE /\ row.state = "live" /\ row' = MkRow("completed", worker[w].path)
               /\ told' = worker[w].n /\ Free(w) /\ UNCHANGED faults
      <3>1. worker' = [worker EXCEPT ![w] = Idle]
        BY <2>1 DEF Free
      <3> QED BY <1>0, <1>1, <1>2, <1>4, <2>0, <2>1, <3>1, WorkerMoves
    <2>2. CASE row.state \in Ends /\ To(w, "dropping") /\ UNCHANGED <<row, faults, told>>
      <3> DEFINE k == MkWorker("dropping", worker[w].path, worker[w].n, worker[w].past)
      <3>1. k \in WorkerStates /\ worker' = [worker EXCEPT ![w] = k]
        BY <1>0, <2>2, StateTypes DEF To, At
      <3>2. worker'[w] = k
        BY <3>1 DEF ResultsInv, TypeOK
      <3>3. WorkerSound(w)'
        <4>1. WorkerSound(w)
          BY DEF ResultsInv
        <4> QED BY <1>0, <1>1, <2>2, <3>2, <4>1 DEF WorkerSound
      <3>4. k.pc = "dropping" /\ k.path = worker[w].path
        OBVIOUS
      <3> HIDE DEF k
      <3>5. row' \in [state : Ends \cup {"live", "gone"}, path : Paths \cup {NoPath}]
        BY <1>0, <2>2
      <3> QED BY <1>0, <1>1, <1>4, <2>0, <2>2, <3>1, <3>3, <3>4, <3>5, WorkerMoves
    <2>3. CASE Fault /\ Free(w) /\ UNCHANGED <<row, told>>
      <3>1. worker' = [worker EXCEPT ![w] = Idle]
        BY <2>3 DEF Free
      <3>2. row' \in [state : Ends \cup {"live", "gone"}, path : Paths \cup {NoPath}]
        BY <1>0, <1>1, <2>3
      <3> QED BY <1>0, <1>1, <1>2, <1>3, <1>4, <2>0, <2>3, <3>1, <3>2, WorkerMoves
    <2>4. CASE row.state = "gone" /\ Free(w) /\ UNCHANGED <<row, faults, told>>
      <3>1. worker' = [worker EXCEPT ![w] = Idle] /\ worker[w].path \in overtaken
        BY <1>0, <2>0, <2>4, LiveOrOvertaken DEF Free
      <3> QED BY <1>0, <1>1, <1>2, <1>4, <2>0, <2>4, <3>1, WorkerMoves
    <2> QED BY <1>7, <2>1, <2>2, <2>3, <2>4 DEF MarkCompleted
  <1> QED BY <1>5, <1>6, <1>7

\* The spool file is renamed into place, over a file another download of the
\* same request may have put there.
LEMMA RenameInv ==
  ASSUME ResultsInv, NEW w \in Workers, worker[w].pc = "spooled", temp' = temp \ {w},
         file' = [file EXCEPT ![worker[w].path] = worker[w].n], To(w, "placed"),
         UNCHANGED <<row, faults>>,
         UNCHANGED <<target, reader, sweep, stops, history>>
  PROVE  ResultsInv'
  <1> USE ResultsAssumption
  <1> DEFINE k == MkWorker("placed", worker[w].path, worker[w].n, worker[w].past)
  <1>1. /\ worker[w].path \in Paths /\ worker[w].n = size /\ size <= MaxResult
        /\ size \in Sizes /\ size # NoFile
        /\ sweep = "delete" \/ row.state = "gone" => worker[w].path \in overtaken
        /\ size' = size /\ late' = late
        /\ unlinked' = unlinked /\ overtaken' = overtaken /\ told' = told
    BY LiveOrOvertaken DEF ResultsInv, TypeOK, WorkerSound, target, history
  <1>2. k \in WorkerStates
    BY <1>1, StateTypes DEF ResultsInv, TypeOK
  <1>3. /\ worker' = [worker EXCEPT ![w] = k] /\ worker'[w] = k
        /\ \A v \in Workers \ {w} : worker'[v] = worker[v]
    BY DEF To, At, ResultsInv, TypeOK
  <1>4. /\ \A p \in Paths \ {worker[w].path} : file'[p] = file[p]
        /\ file'[worker[w].path] = size
    BY <1>1 DEF ResultsInv, TypeOK
  <1>5. TypeOK'
    <2>1. worker' \in [Workers -> WorkerStates] /\ file' \in [Paths -> {size', NoFile}]
      BY <1>1, <1>2, <1>3 DEF ResultsInv, TypeOK
    <2> QED BY <1>1, <2>1 DEF ResultsInv, TypeOK
  <1>6. ASSUME NEW v \in Workers PROVE WorkerSound(v)'
    <2>1. WorkerSound(v) /\ WorkerSound(w) /\ Readable' = Readable
      BY <1>1 DEF ResultsInv, Readable
    <2>2. CASE v = w
      BY <1>1, <1>3, <1>4, <2>1, <2>2 DEF WorkerSound
    <2>3. CASE v # w
      BY <1>1, <1>3, <1>4, <2>1, <2>3 DEF WorkerSound
    <2> QED BY <2>2, <2>3
  <1>7. RowSound'
    BY <1>1, <1>4 DEF ResultsInv, TypeOK, RowSound, FileGoesBeforeRow
  <1>8. ReaderSound' /\ SweepSound'
    <2>1. ReaderSound'
      BY <1>1 DEF ResultsInv, ReaderSound
    <2>2. \A v \in Workers : /\ worker'[v].path = worker[v].path
                             /\ worker'[v].pc # "idle" => worker[v].pc # "idle"
      BY <1>3
    <2>3. Busy' = {v \in Workers : worker'[v].pc # "idle"}
      BY DEF Busy
    <2>4. \A v \in Busy' : v \in Busy /\ worker'[v].path = worker[v].path
      BY <2>2, <2>3 DEF Busy
    <2>5. row.path \in Paths \cup {NoPath}
      BY DEF ResultsInv, TypeOK
    <2>6. sweep = "delete" =>
            /\ unlinked
            /\ row.path \notin overtaken \cup {NoPath} /\ faults = MaxFaults => file'[row.path] = NoFile
      BY <1>1, <1>4, <2>5 DEF ResultsInv, SweepSound
    <2>7. SweepSound'
      BY <1>1, <2>4, <2>6 DEF ResultsInv, SweepSound
    <2> QED BY <2>1, <2>7
  <1>9. Accounted'
    <2> SUFFICES ASSUME Smooth
                 PROVE  /\ \A v \in temp' : worker'[v].pc \in {"downloading", "spooled"}
                        /\ \A p \in Paths \ overtaken : file'[p] # NoFile =>
                             \/ row = MkRow("completed", p)
                             \/ \E v \in Workers : /\ worker'[v].pc \in {"placed", "dropping"}
                                                   /\ worker'[v].path = p
      BY <1>1 DEF Accounted, Smooth
    <2>1. \A v \in temp' : worker'[v].pc \in {"downloading", "spooled"}
      BY <1>3 DEF ResultsInv, TypeOK, Accounted
    <2>2. ASSUME NEW p \in Paths \ overtaken, file'[p] # NoFile, row # MkRow("completed", p)
          PROVE  \E v \in Workers : worker'[v].pc \in {"placed", "dropping"} /\ worker'[v].path = p
      <3>1. CASE p = worker[w].path
        BY <1>3, <3>1
      <3>2. CASE p # worker[w].path
        <4>1. PICK v \in Workers : worker[v].pc \in {"placed", "dropping"} /\ worker[v].path = p
          BY <1>4, <2>2, <3>2 DEF ResultsInv, Accounted
        <4> QED BY <1>3, <4>1
      <3> QED BY <3>1, <3>2
    <2> QED BY <2>1, <2>2
  <1> QED BY <1>5, <1>6, <1>7, <1>8, <1>9 DEF ResultsInv

\* A worker that was too late drops its file, unless the row names it.
LEMMA DiscardInv ==
  ASSUME ResultsInv, NEW w \in Workers, DiscardLateResult(w)
  PROVE  ResultsInv'
  <1> USE ResultsAssumption
  <1>1. /\ worker[w].pc = "dropping" /\ worker' = [worker EXCEPT ![w] = Idle]
        /\ row' = row /\ temp' = temp /\ size' = size /\ late' = late /\ reader' = reader
        /\ sweep' = sweep /\ stops' = stops /\ unlinked' = unlinked /\ told' = told
        /\ overtaken' = overtaken
    BY DEF DiscardLateResult, Free, target, history
  <1>2. row.state = "gone" => worker[w].path \in overtaken
    BY <1>1, LiveOrOvertaken
  <1>3. /\ Idle \in WorkerStates /\ faults \in Nat /\ faults <= MaxFaults
        /\ row \in [state : Ends \cup {"live", "gone"}, path : Paths \cup {NoPath}] /\ told \in Nat
    <2>1. Idle \in WorkerStates
      BY StateTypes
    <2> QED BY <2>1 DEF ResultsInv, TypeOK
  <1>4. /\ worker'[w] = Idle /\ \A v \in Workers \ {w} : worker'[v] = worker[v]
    BY <1>1 DEF ResultsInv, TypeOK
  <1>5. WorkerSound(w)'
    BY <1>4 DEF WorkerSound
  <1>6. w \in temp /\ Smooth => FALSE
    BY <1>1 DEF ResultsInv, Accounted
  <1>7. worker[w].path \in Paths /\ row.state # "live"
    BY <1>1 DEF ResultsInv, WorkerSound
  <1>8. CASE (row.state = "gone" \/ Keeps(w)) /\ UNCHANGED <<file, faults>>
    <2>1. row = MkRow("completed", worker[w].path) \/ worker[w].path \in overtaken
      BY <1>2, <1>3, <1>7, <1>8 DEF Keeps, ResultsInv, RowSound
    <2> QED BY <1>1, <1>2, <1>3, <1>5, <1>6, <1>8, <2>1, WorkerMoves
  <1>9. CASE Fault /\ UNCHANGED file
    <2>1. faults' = faults - 1 /\ faults > 0 /\ faults' # faults
      BY <1>3, <1>9 DEF Fault
    <2> QED BY <1>1, <1>2, <1>3, <1>5, <1>6, <1>9, <2>1, WorkerMoves
  <1>10. CASE /\ row.state # "gone" /\ ~Keeps(w) /\ UNCHANGED faults
              /\ file' = [file EXCEPT ![worker[w].path] = NoFile]
    <2>1. /\ \A p \in Paths \ {worker[w].path} : file'[p] = file[p]
          /\ file'[worker[w].path] = NoFile /\ row.path # worker[w].path
      BY <1>7, <1>10 DEF ResultsInv, TypeOK, Keeps
    <2>2. TypeOK'
      <3>1. worker' \in [Workers -> WorkerStates] /\ file' \in [Paths -> {size', NoFile}]
        BY <1>1, <1>3, <1>10 DEF ResultsInv, TypeOK
      <3> QED BY <1>1, <1>10, <3>1 DEF ResultsInv, TypeOK
    <2>3. ASSUME NEW v \in Workers PROVE WorkerSound(v)'
      <3>1. CASE v = w
        BY <1>5, <3>1
      <3>2. CASE v # w
        <4>1. worker'[v] = worker[v] /\ WorkerSound(v) /\ Readable' = Readable
          BY <1>1, <1>4, <3>2 DEF ResultsInv, Readable
        <4> QED BY <1>1, <1>7, <4>1 DEF WorkerSound
      <3> QED BY <3>1, <3>2
    <2>4. RowSound'
      BY <1>1, <1>2, <1>3, <1>10, <2>1 DEF ResultsInv, RowSound, FileGoesBeforeRow
    <2>5. ReaderSound' /\ SweepSound'
      <3>1. ReaderSound'
        BY <1>1 DEF ResultsInv, ReaderSound
      <3>2. \A v \in Busy' : v \in Busy /\ worker'[v] = worker[v]
        BY <1>4 DEF Busy
      <3>3. sweep = "delete" =>
              /\ unlinked
              /\ row.path \notin overtaken \cup {NoPath} /\ faults = MaxFaults
                   => file'[row.path] = NoFile
        BY <1>3, <2>1 DEF ResultsInv, SweepSound
      <3>4. SweepSound'
        BY <1>1, <1>10, <3>2, <3>3 DEF ResultsInv, SweepSound
      <3> QED BY <3>1, <3>4
    <2>6. Accounted'
      <3> SUFFICES ASSUME Smooth
                   PROVE  /\ \A v \in temp : worker'[v].pc \in {"downloading", "spooled"}
                          /\ \A p \in Paths \ overtaken : file'[p] # NoFile =>
                               \/ row = MkRow("completed", p)
                               \/ \E v \in Workers : /\ worker'[v].pc \in {"placed", "dropping"}
                                                     /\ worker'[v].path = p
        BY <1>1, <1>10 DEF Accounted, Smooth
      <3>1. \A v \in temp : worker'[v].pc \in {"downloading", "spooled"}
        BY <1>4, <1>6 DEF ResultsInv, TypeOK, Accounted
      <3>2. ASSUME NEW p \in Paths \ overtaken, file'[p] # NoFile, row # MkRow("completed", p)
            PROVE  \E v \in Workers : worker'[v].pc \in {"placed", "dropping"} /\ worker'[v].path = p
        <4>1. p # worker[w].path /\ file[p] # NoFile
          BY <2>1, <3>2
        <4>2. PICK v \in Workers : worker[v].pc \in {"placed", "dropping"} /\ worker[v].path = p
          BY <3>2, <4>1 DEF ResultsInv, Accounted
        <4> QED BY <1>4, <4>1, <4>2
      <3> QED BY <3>1, <3>2
    <2> QED BY <2>2, <2>3, <2>4, <2>5, <2>6 DEF ResultsInv
  <1> QED BY <1>8, <1>9, <1>10 DEF DiscardLateResult

\* A client cancels, or a tick past the deadline does not reach the target.
LEMMA EndsOtherwiseInv ==
  ASSUME ResultsInv, EndsOtherwise
  PROVE  ResultsInv'
  <1> USE ResultsAssumption
  <1>1. /\ row.state = "live" /\ file' = file /\ temp' = temp /\ worker' = worker
        /\ size' = size /\ late' = late /\ reader' = reader /\ sweep' = sweep
        /\ stops' = stops /\ faults' = faults /\ unlinked' = unlinked /\ told' = told
        /\ overtaken' = overtaken
    BY DEF EndsOtherwise, target, history
  <1>2. /\ row' = MkRow("cancelled", NoPath) \/ row' = MkRow("failed", NoPath)
        /\ row'.state = "failed" => late
    BY DEF EndsOtherwise
  <1>3. TypeOK'
    BY <1>1, <1>2 DEF ResultsInv, TypeOK
  <1>4. ASSUME NEW v \in Workers PROVE WorkerSound(v)'
    <2>1. WorkerSound(v) /\ Readable' = Readable
      BY <1>1 DEF ResultsInv, Readable
    <2> QED BY <1>1, <1>2, <2>1 DEF WorkerSound
  <1>5. RowSound'
    BY <1>1, <1>2 DEF RowSound, FileGoesBeforeRow
  <1>6. ReaderSound' /\ SweepSound'
    BY <1>1, <1>2 DEF ResultsInv, ReaderSound, SweepSound
  <1>7. Accounted'
    BY <1>1 DEF ResultsInv, Accounted, Smooth
  <1> QED BY <1>3, <1>4, <1>5, <1>6, <1>7 DEF ResultsInv

LEMMA DeadlineInv ==
  ASSUME ResultsInv, DeadlinePasses
  PROVE  ResultsInv'
  <1>1. /\ row' = row /\ file' = file /\ temp' = temp /\ worker' = worker
        /\ size' = size /\ late' = TRUE /\ reader' = reader /\ sweep' = sweep
        /\ stops' = stops /\ faults' = faults /\ unlinked' = unlinked /\ told' = told
        /\ overtaken' = overtaken
    BY DEF DeadlinePasses, history
  <1>2. TypeOK'
    <2>1. late' \in BOOLEAN
      BY <1>1
    <2> QED BY <1>1, <2>1 DEF ResultsInv, TypeOK
  <1>3. ASSUME NEW v \in Workers PROVE WorkerSound(v)'
    <2>1. WorkerSound(v) /\ Readable' = Readable
      BY <1>1 DEF ResultsInv, Readable
    <2> QED BY <1>1, <2>1 DEF WorkerSound
  <1>4. RowSound'
    BY <1>1 DEF ResultsInv, RowSound, FileGoesBeforeRow, Busy
  <1>5. ReaderSound' /\ SweepSound' /\ Accounted'
    BY <1>1 DEF ResultsInv, ReaderSound, SweepSound, Accounted, Smooth, Busy
  <1> QED BY <1>2, <1>3, <1>4, <1>5 DEF ResultsInv

\* A client reads the row, then the file.
LEMMA ReaderInv ==
  ASSUME ResultsInv, HandleResult \/ ServeResultFile
  PROVE  ResultsInv'
  <1> USE ResultsAssumption
  <1>1. /\ row' = row /\ file' = file /\ temp' = temp /\ worker' = worker
        /\ size' = size /\ late' = late /\ sweep' = sweep
        /\ stops' = stops /\ unlinked' = unlinked /\ told' = told
        /\ overtaken' = overtaken
    BY DEF HandleResult, ServeResultFile, target, history
  <1>2. /\ faults \in Nat /\ faults' \in 0 .. MaxFaults
        /\ faults' = MaxFaults => faults = MaxFaults
    BY DEF HandleResult, ServeResultFile, Fault, ResultsInv, TypeOK
  <1>3. /\ reader' \in [pc : {"none", "opening", "served", "pruned"},
                        path : Paths \cup {NoPath}, n : Nat]
        /\ ReaderSound'
    <2>1. /\ row \in [state : Ends \cup {"live", "gone"}, path : Paths \cup {NoPath}]
          /\ told \in Nat /\ size \in Nat /\ size # NoFile /\ NoPath \notin Paths
          /\ file \in [Paths -> {size, NoFile}]
      BY DEF ResultsInv, TypeOK
    <2>2. CASE HandleResult
      <3>1. row.state = "completed" /\ told = size
        BY <2>2 DEF HandleResult, ResultsInv, RowSound
      <3>2. \/ row.path = NoPath /\ reader' = MkReader("served", NoPath, told)
            \/ row.path # NoPath /\ reader' = MkReader("opening", row.path, 0)
        BY <2>2 DEF HandleResult
      <3> QED BY <1>1, <2>1, <3>1, <3>2 DEF ReaderSound
    <2>3. CASE ServeResultFile
      <3>1. /\ reader.path \in Paths /\ row.path = reader.path
            /\ row.state \in {"completed", "gone"}
            /\ ~unlinked => file[reader.path] # NoFile
        BY <2>1, <2>3 DEF ServeResultFile, ResultsInv, ReaderSound, RowSound
      <3>2. file[reader.path] \in {size, NoFile}
        BY <2>1, <3>1
      <3>3. \/ file[reader.path] # NoFile /\ reader' = MkReader("served", reader.path, file[reader.path])
            \/ file[reader.path] = NoFile /\ reader' = MkReader("pruned", reader.path, 0)
            \/ reader' = NoReader
        BY <2>3 DEF ServeResultFile
      <3>4. file[reader.path] = NoFile => unlinked
        BY <3>1
      <3> QED BY <1>1, <2>1, <3>1, <3>2, <3>3, <3>4 DEF ReaderSound
    <2> QED BY <2>2, <2>3
  <1>4. TypeOK'
    BY <1>1, <1>2, <1>3 DEF ResultsInv, TypeOK
  <1>5. ASSUME NEW v \in Workers PROVE WorkerSound(v)'
    <2>1. WorkerSound(v) /\ Readable' = Readable
      BY <1>1 DEF ResultsInv, Readable
    <2> QED BY <1>1, <2>1 DEF WorkerSound
  <1>6. RowSound'
    BY <1>1, <1>2 DEF ResultsInv, RowSound, FileGoesBeforeRow, Busy
  <1>7. SweepSound'
    BY <1>1, <1>2 DEF ResultsInv, SweepSound, Busy
  <1>8. Accounted'
    BY <1>1, <1>2 DEF ResultsInv, Accounted, Smooth
  <1> QED BY <1>3, <1>4, <1>5, <1>6, <1>7, <1>8 DEF ResultsInv

\* The retention sweep: select, unlink, delete.
LEMMA SweepInv ==
  ASSUME ResultsInv, TerminalBefore \/ RemoveResultFiles \/ DeleteJobs
  PROVE  ResultsInv'
  <1> USE ResultsAssumption
  <1>1. /\ temp' = temp /\ worker' = worker /\ size' = size /\ late' = late
        /\ reader' = reader /\ stops' = stops /\ told' = told /\ Busy' = Busy
    BY DEF TerminalBefore, RemoveResultFiles, DeleteJobs, target, history, Busy
  <1>2. row.state \in Ends
    BY DEF TerminalBefore, RemoveResultFiles, DeleteJobs, ResultsInv, SweepSound
  <1>3. /\ row \in [state : Ends \cup {"live", "gone"}, path : Paths \cup {NoPath}]
        /\ file \in [Paths -> {size, NoFile}] /\ faults \in Nat /\ faults <= MaxFaults
        /\ size \in Nat /\ size # NoFile /\ overtaken \subseteq Paths
        /\ Fault => faults' = faults - 1 /\ faults' # MaxFaults /\ faults' \in 0 .. MaxFaults
    BY DEF ResultsInv, TypeOK, Fault
  \* What the sweep leaves of the files is what there was; the row stays, or
  \* goes once its own file is accounted for.
  <1>4. ASSUME NEW v \in Workers, row'.state # "live" PROVE WorkerSound(v)'
    <2>1. WorkerSound(v) /\ Readable' = Readable
      BY <1>1 DEF ResultsInv, Readable
    <2> QED BY <1>1, <1>4, <2>1 DEF WorkerSound
  <1>5. CASE TerminalBefore
    <2>1. /\ row' = row /\ file' = file /\ faults' = faults /\ sweep' = "unlink"
          /\ unlinked' = unlinked /\ overtaken' = overtaken
      BY <1>5 DEF TerminalBefore, FilesFirst, history
    <2>2. TypeOK' /\ RowSound' /\ ReaderSound'
      BY <1>1, <2>1 DEF ResultsInv, TypeOK, RowSound, ReaderSound, FileGoesBeforeRow
    <2>3. SweepSound' /\ Accounted'
      BY <1>1, <1>2, <2>1 DEF ResultsInv, SweepSound, Accounted, Smooth
    <2>4. \A v \in Workers : WorkerSound(v)'
      BY <1>2, <1>4, <2>1
    <2> QED BY <2>2, <2>3, <2>4 DEF ResultsInv
  <1>6. CASE RemoveResultFiles
    <2>1. /\ row' = row /\ sweep' = "delete" /\ unlinked' = TRUE
          /\ overtaken' = overtaken \cup {worker[w].path : w \in Busy}
          /\ \/ /\ file' = IF row.path = NoPath THEN file ELSE [file EXCEPT ![row.path] = NoFile]
                /\ faults' = faults
             \/ Fault /\ file' = file
      BY <1>6 DEF RemoveResultFiles, FilesFirst
    <2>2. /\ file' \in [Paths -> {size, NoFile}]
          /\ \A p \in Paths : file'[p] # NoFile => file'[p] = file[p]
          /\ faults' \in 0 .. MaxFaults
          /\ faults' = MaxFaults => faults = MaxFaults
          /\ row.path # NoPath /\ faults' = MaxFaults => file'[row.path] = NoFile
      BY <1>3, <2>1
    <2>3. /\ overtaken \subseteq overtaken' /\ overtaken' \subseteq Paths
          /\ \A w \in Busy : worker[w].path \in overtaken'
      <3>1. \A w \in Busy : worker[w].path \in Paths
        BY DEF Busy, ResultsInv, WorkerSound
      <3> QED BY <1>3, <2>1, <3>1
    <2>4. TypeOK'
      <3>1. unlinked' \in BOOLEAN
        BY <2>1
      <3> QED BY <1>1, <2>1, <2>2, <2>3, <3>1 DEF ResultsInv, TypeOK
    <2>5. RowSound'
      BY <1>1, <1>2, <1>3, <2>1, <2>2 DEF ResultsInv, RowSound, FileGoesBeforeRow
    <2>6. ReaderSound' /\ SweepSound'
      <3>1. ReaderSound'
        BY <1>1, <2>1 DEF ResultsInv, ReaderSound
      <3> QED BY <1>1, <1>2, <2>1, <2>2, <2>3, <3>1 DEF SweepSound
    <2>7. Accounted'
      <3>1. Smooth' => Smooth
        BY <1>1, <2>2 DEF Smooth
      <3> QED BY <1>1, <2>1, <2>2, <2>3, <3>1 DEF ResultsInv, Accounted
    <2>8. \A v \in Workers : WorkerSound(v)'
      BY <1>2, <1>4, <2>1
    <2> QED BY <2>4, <2>5, <2>6, <2>7, <2>8 DEF ResultsInv
  <1>7. CASE DeleteJobs
    <2>1. /\ sweep = "delete" /\ file' = file /\ sweep' = "idle"
          /\ unlinked' = unlinked /\ overtaken' = overtaken
          /\ \/ row' = MkRow("gone", row.path) /\ faults' = faults
             \/ Fault /\ row' = row
      BY <1>7 DEF DeleteJobs, FilesFirst, history
    <2>2. /\ unlinked
          /\ row.path \notin overtaken \cup {NoPath} /\ faults = MaxFaults => file[row.path] = NoFile
          /\ \A w \in Busy : worker[w].path \in overtaken
      BY <2>1 DEF ResultsInv, SweepSound
    <2>3. /\ faults' \in 0 .. MaxFaults
          /\ faults' = MaxFaults => faults = MaxFaults /\ row' = MkRow("gone", row.path)
          /\ row' = row \/ row' = MkRow("gone", row.path)
      BY <1>3, <2>1
    <2>4. TypeOK'
      BY <1>1, <1>3, <2>1, <2>3 DEF ResultsInv, TypeOK
    <2>5. RowSound'
      BY <1>1, <1>2, <1>3, <2>1, <2>2, <2>3 DEF ResultsInv, RowSound, FileGoesBeforeRow
    <2>6. ReaderSound' /\ SweepSound'
      <3>1. ReaderSound'
        BY <1>1, <1>2, <2>1, <2>2, <2>3 DEF ResultsInv, ReaderSound
      <3> QED BY <1>1, <2>1, <2>2, <3>1 DEF SweepSound
    <2>7. Accounted'
      <3> SUFFICES ASSUME Smooth', NEW p \in Paths \ overtaken, file[p] # NoFile
                   PROVE  \E w \in Workers : worker[w].pc \in {"placed", "dropping"} /\ worker[w].path = p
        <4>1. Smooth' => \A w \in temp : worker[w].pc \in {"downloading", "spooled"}
          BY <1>1, <2>3 DEF ResultsInv, Accounted, Smooth
        <4> QED BY <1>1, <2>1, <4>1 DEF Accounted
      <3>1. Smooth /\ faults = MaxFaults
        BY <1>1, <2>3 DEF Smooth
      <3>2. row # MkRow("completed", p)
        BY <2>2, <3>1
      <3> QED BY <3>1, <3>2 DEF ResultsInv, Accounted
    <2>8. \A v \in Workers : WorkerSound(v)'
      BY <1>2, <1>4, <2>3
    <2> QED BY <2>4, <2>5, <2>6, <2>7, <2>8 DEF ResultsInv
  <1> QED BY <1>5, <1>6, <1>7

LEMMA CrashInv ==
  ASSUME ResultsInv, Crash
  PROVE  ResultsInv'
  <1> USE ResultsAssumption
  <1>1. /\ row' = row /\ file' = file /\ temp' = temp /\ size' = size /\ late' = late
        /\ faults' = faults /\ unlinked' = unlinked /\ told' = told /\ overtaken' = overtaken
        /\ reader' = NoReader /\ sweep' = "idle" /\ worker' = [v \in Workers |-> Idle]
        /\ stops > 0 /\ stops' = stops - 1
    BY DEF Crash, target, history
  <1>2. Idle \in WorkerStates /\ \A v \in Workers : worker'[v] = Idle
    BY <1>1 DEF WorkerStates
  <1>3. TypeOK' /\ ~Smooth'
    <2>1. worker' \in [Workers -> WorkerStates] /\ stops' \in 0 .. MaxStops /\ stops' # MaxStops
      BY <1>1, <1>2 DEF ResultsInv, TypeOK
    <2> QED BY <1>1, <2>1 DEF ResultsInv, TypeOK, Smooth
  <1>4. ASSUME NEW v \in Workers PROVE WorkerSound(v)'
    BY <1>2 DEF WorkerSound
  <1>5. RowSound'
    BY <1>1, <1>2 DEF ResultsInv, RowSound, FileGoesBeforeRow, Busy
  <1>6. ReaderSound' /\ SweepSound' /\ Accounted'
    <2>1. Busy' = {}
      BY <1>2 DEF Busy
    <2> QED BY <1>1, <1>3, <2>1 DEF ReaderSound, SweepSound, Accounted
  <1> QED BY <1>3, <1>4, <1>5, <1>6 DEF ResultsInv

LEMMA ResultsStep == ResultsInv /\ [Next]_vars => ResultsInv'
  <1> SUFFICES ASSUME ResultsInv, [Next]_vars PROVE ResultsInv'
    OBVIOUS
  <1>1. ASSUME NEW w \in Workers, Rename(w) PROVE ResultsInv'
    BY <1>1, RenameInv, FinishInv DEF Rename
  <1>2. CASE UNCHANGED vars
    <2>1. \A w \in Workers : WorkerSound(w)' = WorkerSound(w)
      BY <1>2 DEF vars, target, history, WorkerSound, Readable
    <2>2. TypeOK' /\ RowSound' /\ ReaderSound'
      BY <1>2 DEF vars, target, history, ResultsInv, TypeOK, RowSound, ReaderSound, FileGoesBeforeRow, Busy
    <2>3. SweepSound' /\ Accounted'
      BY <1>2 DEF vars, target, history, ResultsInv, SweepSound, Accounted, Smooth, Busy
    <2> QED BY <2>1, <2>2, <2>3 DEF ResultsInv
  <1> QED BY <1>1, <1>2, DownloadInv, FinishInv, DiscardInv, EndsOtherwiseInv, DeadlineInv,
             ReaderInv, SweepInv, CrashInv DEF Next
-----------------------------------------------------------------------------
(* The theorems.                                                           *)

\* The inductive invariant holds: typing (a file holds a whole result), what
\* each worker, the row, a reader and the sweep may rely on, and that every
\* file is accounted for while nothing fails.
THEOREM ResultsInvariant == Spec => []ResultsInv
  BY InitInv, ResultsStep, PTL DEF Spec

\* What a client is given is the whole result, never the part a broken or
\* capped download got; and without failing operations a request whose result
\* fits is not failed before its deadline, however often downloads break.
THEOREM ResultsAreWhole == Spec => []WholeOrRetried
  <1>1. ResultsInv => WholeOrRetried
    <2> SUFFICES ASSUME ResultsInv PROVE WholeOrRetried
      OBVIOUS
    <2>1. /\ row.path \in Paths \cup {NoPath}
          /\ \A p \in Paths : file[p] \in {size, NoFile}
      BY DEF ResultsInv, TypeOK
    <2> QED BY <2>1 DEF ResultsInv, RowSound, WholeOrRetried
  <1> QED BY <1>1, ResultsInvariant, PTL

\* A completed request's file is there until retention begins to remove it,
\* whatever overlapping downloads, cancellations, crashes and failing
\* operations do, and a reader gets all of it or is told it was pruned.
THEOREM CompletedKeepsItsFile == Spec => []CompletedHasFile
  <1>1. ResultsInv => CompletedHasFile
    BY DEF ResultsInv, RowSound, ReaderSound, CompletedHasFile
  <1> QED BY <1>1, ResultsInvariant, PTL

\* Without a crash or a failing operation no file is left that no row names,
\* whatever the order of downloads, cancellation and retention, but for the
\* paths of downloads that retention overtook.
THEOREM NoFileLeftBehind == Spec => []NoOrphan
  <1>1. ResultsInv => NoOrphan
    BY DEF ResultsInv, TypeOK, Accounted, NoOrphan, Busy
  <1> QED BY <1>1, ResultsInvariant, PTL

\* Retention deletes a row only after its file, over crashes; only a download
\* that it overtook puts a file back there.
THEOREM RowOutlivesItsFile == Spec => []FileGoesBeforeRow
  <1>1. ResultsInv => FileGoesBeforeRow
    BY DEF ResultsInv, RowSound
  <1> QED BY <1>1, ResultsInvariant, PTL
=============================================================================
