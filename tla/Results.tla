------------------------------ MODULE Results -------------------------------
(***************************************************************************)
(* The result of one request whose target has finished: workers that poll, *)
(* download (internal/upstream/target.go), spool, rename into place and    *)
(* record it (internal/worker/process.go), possibly two at a time, a       *)
(* client that cancels, one that asks for the result                       *)
(* (internal/api/handlers.go), and the retention sweep that removes files  *)
(* before rows (internal/worker/sweep.go).                                 *)
(*                                                                         *)
(* A path is the job's id with an extension taken from the content type,   *)
(* so two downloads of one job may use the same path or different ones.    *)
(* A result is counted in chunks, read one at a time.                      *)
(* Retention need only be positive (internal/config/validate.go), so it    *)
(* may take a row a worker still downloads for.                            *)
(***************************************************************************)
EXTENDS Integers, FiniteSets, FiniteSetsExt

CONSTANTS
  Workers,
  Paths,        \* result paths: one per extension
  NoPath,       \* an inline result, or none
  NoFile,
  Sizes,        \* chunks the target's result may have
  MaxResult,    \* storage.max_result_bytes in chunks
  MaxStops,     \* bound: crashes
  MaxFaults     \* bound: failing database and file operations

ASSUME ResultsAssumption ==
  /\ NoPath \notin Paths /\ NoFile \notin Nat
  /\ Sizes \subseteq Nat \ {0} /\ MaxResult \in Nat \ {0}
  /\ MaxStops \in Nat /\ MaxFaults \in Nat

VARIABLES
  row,      \* the job's row: state and result_path
  file,     \* the chunks of the file at each path
  temp,     \* workers whose temp file exists
  worker,   \* each worker: where it is, its result's path, the chunks it has
  size,     \* the chunks of the target's result
  late,     \* the poll deadline has passed
  reader,   \* a client's request: where it is, the path it read, what it got
  sweep,    \* the retention sweep's step
  stops, faults,
  unlinked, \* history: retention has begun to remove the file
  overtaken,\* history: the paths of downloads retention overtook
  told      \* history: the chunks of the result the row was completed with

target == <<size, late>>
history == <<unlinked, overtaken, told>>
vars == <<row, file, temp, worker, target, reader, sweep, stops, faults, history>>
-----------------------------------------------------------------------------
Ends == {"completed", "failed", "cancelled"}
MkRow(state, path) == [state |-> state, path |-> path]
\* past: the deadline had passed when the status call returned.
MkWorker(pc, path, n, past) == [pc |-> pc, path |-> path, n |-> n, past |-> past]
Idle == MkWorker("idle", NoPath, 0, FALSE)

At(w, pc, n) == worker' = [worker EXCEPT ![w] = MkWorker(pc, worker[w].path, n, worker[w].past)]
To(w, pc) == At(w, pc, worker[w].n)
Free(w)   == worker' = [worker EXCEPT ![w] = Idle]
Fault == faults > 0 /\ faults' = faults - 1
Busy == {w \in Workers : worker[w].pc # "idle"}

\* A guarded terminal transition of the row.
EndAs(state, path) ==
  row' = IF row.state = "live" THEN MkRow(state, path) ELSE row
-----------------------------------------------------------------------------
(* A poll tick that finds the target done: processPoll, fetchAndComplete.  *)

\* The status call says done; the content type will decide the path.
PollTarget(w, p) ==
  /\ worker[w] = Idle /\ row.state = "live"
  /\ worker' = [worker EXCEPT ![w] = MkWorker("fetching", p, 0, late)]
  /\ UNCHANGED <<row, file, temp, target, reader, sweep, stops, faults, history>>

\* What fetchAndComplete makes of an error: a transient one waits for the
\* next tick unless the deadline had passed.
FetchError(w, transient) ==
  /\ IF transient /\ ~worker[w].past THEN UNCHANGED row ELSE EndAs("failed", NoPath)
  /\ Free(w)

\* FetchResult: the headers, then a spool file; or an error, which only a
\* status of the target's makes permanent.
FetchResult(w) ==
  /\ worker[w].pc = "fetching"
  /\ \/ To(w, "downloading") /\ temp' = temp \cup {w} /\ UNCHANGED <<row, faults>>
     \/ FetchError(w, TRUE) /\ UNCHANGED <<temp, faults>>
     \/ Fault /\ FetchError(w, FALSE) /\ UNCHANGED temp
  /\ UNCHANGED <<file, target, reader, sweep, stops, history>>

\* The copy reads at most one chunk past the limit.
ReadUpToLimit == Min({size, MaxResult})    \* mutant: LimitReader(body, limit)
Readable == Min({size, MaxResult + 1})

Read(w) ==
  /\ worker[w].pc = "downloading"
  /\ worker[w].n < Readable
  /\ At(w, "downloading", worker[w].n + 1)
  /\ UNCHANGED <<row, file, temp, target, reader, sweep, stops, faults, history>>

\* The connection breaks, no data comes for the idle bound, result_timeout
\* passes, the attempt is cancelled, or the spool file cannot be written.
DownloadBreaks(w) ==
  /\ worker[w].pc = "downloading"
  /\ temp' = temp \ {w}
  /\ FetchError(w, TRUE)
  /\ UNCHANGED <<file, target, reader, sweep, stops, faults, history>>

\* spoolResult after the copy: a result past the limit will not shrink.
SpoolResult(w) ==
  /\ worker[w].pc = "downloading"
  /\ worker[w].n = Readable
  /\ IF worker[w].n > MaxResult
     THEN temp' = temp \ {w} /\ FetchError(w, FALSE)
     ELSE To(w, "spooled") /\ UNCHANGED <<row, temp>>
  /\ UNCHANGED <<file, target, reader, sweep, stops, faults, history>>

DeadlinePasses ==
  /\ ~late /\ late' = TRUE
  /\ UNCHANGED <<row, file, temp, worker, size, reader, sweep, stops, faults, history>>
-----------------------------------------------------------------------------
(* A worker with a spooled result: completeSpooled, complete.              *)

\* Small JSON goes into the row; the spool file is removed.
CompleteInline(w) ==
  /\ worker[w].pc = "spooled"
  /\ temp' = temp \ {w}
  /\ \/ /\ EndAs("completed", NoPath)
        /\ told' = IF row.state = "live" THEN worker[w].n ELSE told
        /\ UNCHANGED faults
     \/ Fault /\ UNCHANGED <<row, told>>
  /\ Free(w)
  /\ UNCHANGED <<file, target, reader, sweep, stops, unlinked, overtaken>>

Rename(w) ==
  /\ worker[w].pc = "spooled"
  /\ temp' = temp \ {w}
  /\ \/ /\ file' = [file EXCEPT ![worker[w].path] = worker[w].n]
        /\ To(w, "placed")
        /\ UNCHANGED <<row, faults>>
     \/ /\ Fault
        /\ EndAs("failed", NoPath)
        /\ Free(w)
        /\ UNCHANGED file
  /\ UNCHANGED <<target, reader, sweep, stops, history>>

\* markCompleted: a job that ended first makes this result redundant; that
\* there is no such job any more is only logged.
MarkCompleted(w) ==
  /\ worker[w].pc = "placed"
  /\ \/ /\ row.state = "live"
        /\ row' = MkRow("completed", worker[w].path)
        /\ told' = worker[w].n
        /\ Free(w)
        /\ UNCHANGED faults
     \/ /\ row.state \in Ends
        /\ To(w, "dropping")
        /\ UNCHANGED <<row, faults, told>>
     \/ /\ row.state = "gone"
        /\ Free(w)
        /\ UNCHANGED <<row, faults, told>>
     \/ /\ Fault
        /\ Free(w)
        /\ UNCHANGED <<row, told>>
  /\ UNCHANGED <<file, temp, target, reader, sweep, stops, unlinked, overtaken>>

\* discardLateResult: the file goes unless it is the job's own result, or the
\* job cannot be read.
KeepsAlways(w) == TRUE     \* mutant: the late file is left behind
KeepsNever(w) == FALSE     \* mutant: the late file always goes
Keeps(w) == row.path = worker[w].path

DiscardLateResult(w) ==
  /\ worker[w].pc = "dropping"
  /\ \/ (row.state = "gone" \/ Keeps(w)) /\ UNCHANGED <<file, faults>>
     \/ /\ row.state # "gone" /\ ~Keeps(w)
        /\ file' = [file EXCEPT ![worker[w].path] = NoFile]
        /\ UNCHANGED faults
     \/ Fault /\ UNCHANGED file
  /\ Free(w)
  /\ UNCHANGED <<row, temp, target, reader, sweep, stops, history>>

\* The request ends without a result: cancelled, or a tick past the deadline
\* did not reach the target.
EndsOtherwise ==
  /\ row.state = "live"
  /\ \/ row' = MkRow("cancelled", NoPath)
     \/ late /\ row' = MkRow("failed", NoPath)
  /\ UNCHANGED <<file, temp, worker, target, reader, sweep, stops, faults, history>>
-----------------------------------------------------------------------------
(* A client asks for the result: handleResult, serveResultFile.            *)

MkReader(pc, path, n) == [pc |-> pc, path |-> path, n |-> n]
NoReader == MkReader("none", NoPath, 0)

\* The row as read decides; a request that has not completed gets no result.
HandleResult ==
  /\ reader.pc # "opening" /\ row.state = "completed"
  /\ reader' = IF row.path = NoPath THEN MkReader("served", NoPath, told)
               ELSE MkReader("opening", row.path, 0)
  /\ UNCHANGED <<row, file, temp, worker, target, sweep, stops, faults, history>>

\* An open file survives its removal and its replacement.
ServeResultFile ==
  /\ reader.pc = "opening"
  /\ \/ /\ file[reader.path] # NoFile
        /\ reader' = MkReader("served", reader.path, file[reader.path])
        /\ UNCHANGED faults
     \/ /\ file[reader.path] = NoFile
        /\ reader' = MkReader("pruned", reader.path, 0)
        /\ UNCHANGED faults
     \/ Fault /\ reader' = NoReader
  /\ UNCHANGED <<row, file, temp, worker, target, sweep, stops, history>>
-----------------------------------------------------------------------------
(* pruneRetention: select, unlink, delete.                                 *)

RowsFirst(step) ==     \* mutant: rows go before files
  CASE step = "idle" -> "delete" [] step = "delete" -> "unlink" [] OTHER -> "idle"
FilesFirst(step) ==
  CASE step = "idle" -> "unlink" [] step = "unlink" -> "delete" [] OTHER -> "idle"

TerminalBefore ==
  /\ sweep = "idle" /\ row.state \in Ends
  /\ sweep' = FilesFirst("idle")
  /\ UNCHANGED <<row, file, temp, worker, target, reader, stops, faults, history>>

RemoveResultFiles ==
  /\ sweep = "unlink"
  /\ \/ /\ file' = IF row.path = NoPath THEN file ELSE [file EXCEPT ![row.path] = NoFile]
        /\ UNCHANGED faults
     \/ Fault /\ UNCHANGED file
  /\ sweep' = FilesFirst("unlink")
  /\ unlinked' = TRUE
  /\ overtaken' = overtaken \cup {worker[w].path : w \in Busy}
  /\ UNCHANGED <<row, temp, worker, target, reader, stops, told>>

\* The path of a deleted row is kept here for the properties.
DeleteJobs ==
  /\ sweep = "delete"
  /\ \/ row' = MkRow("gone", row.path) /\ sweep' = FilesFirst("delete") /\ UNCHANGED faults
     \/ Fault /\ sweep' = "idle" /\ UNCHANGED row
  /\ UNCHANGED <<file, temp, worker, target, reader, stops, history>>

\* Workers and the sweep vanish; the job, if live, will be claimed again.
Crash ==
  /\ stops > 0
  /\ stops' = stops - 1
  /\ worker' = [w \in Workers |-> Idle]
  /\ sweep' = "idle" /\ reader' = NoReader
  /\ UNCHANGED <<row, file, temp, target, faults, history>>
-----------------------------------------------------------------------------
Init ==
  /\ row = MkRow("live", NoPath)
  /\ file = [p \in Paths |-> NoFile]
  /\ temp = {}
  /\ worker = [w \in Workers |-> Idle]
  /\ size \in Sizes /\ late = FALSE
  /\ reader = NoReader
  /\ sweep = "idle"
  /\ stops = MaxStops /\ faults = MaxFaults
  /\ unlinked = FALSE /\ overtaken = {} /\ told = 0

Next ==
  \/ \E w \in Workers :
       \/ \E p \in Paths : PollTarget(w, p)
       \/ FetchResult(w) \/ Read(w) \/ DownloadBreaks(w) \/ SpoolResult(w)
       \/ CompleteInline(w) \/ Rename(w)
       \/ MarkCompleted(w) \/ DiscardLateResult(w)
  \/ EndsOtherwise \/ DeadlinePasses
  \/ HandleResult \/ ServeResultFile
  \/ TerminalBefore \/ RemoveResultFiles \/ DeleteJobs
  \/ Crash

Spec == Init /\ [][Next]_vars
-----------------------------------------------------------------------------
\* What a client is given is the whole result, at most max_result_bytes of
\* it, never the part a broken or capped download got; and a request whose
\* result fits and whose target answers is not failed before its poll
\* deadline by its downloads, however often they break (spoolResult,
\* fetchAndComplete).
WholeOrRetried ==
  /\ row.state = "completed" => told = size /\ size <= MaxResult
  /\ row.state = "completed" /\ row.path # NoPath /\ ~unlinked =>
       file[row.path] \in {size, NoFile}
  /\ row.state = "failed" /\ faults = MaxFaults => size > MaxResult \/ late

Smooth == stops = MaxStops /\ faults = MaxFaults

\* A client that is told of a file result can fetch it, whole, until retention
\* starts to remove it, over crashes and failing operations: an overlapping
\* download that lost never takes the winner's file with it, and a request
\* that read the row before retention gets the file or is told that it was
\* pruned (markCompleted, discardLateResult, serveResultFile).
CompletedHasFile ==
  /\ row.state = "completed" /\ row.path # NoPath /\ ~unlinked => file[row.path] # NoFile
  /\ reader.pc = "pruned" => unlinked
  /\ reader.pc = "served" => reader.n = size

\* Without a crash or a failing operation no file is left that no row names,
\* in whatever order two downloads, a cancellation and retention come, except
\* where retention unlinked the file while a download to that path was still
\* under way: its worker puts a file there that the row's removal, or the
\* missing row, leaves for good (markCompleted, discardLateResult,
\* removeResultFiles).
NoOrphan ==
  Busy = {} /\ Smooth =>
    /\ temp = {}
    /\ \A p \in Paths \ overtaken : file[p] # NoFile => row = MkRow("completed", p)

\* Retention orphans no result file, not even when it crashes half-way: a row
\* is gone only after its file, which only a download that retention overtook
\* may put back (pruneRetention).
FileGoesBeforeRow ==
  row.state = "gone" /\ row.path \notin overtaken \cup {NoPath} /\ faults = MaxFaults
    => file[row.path] = NoFile
=============================================================================
