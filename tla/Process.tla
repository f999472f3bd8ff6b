------------------------------ MODULE Process -------------------------------
(***************************************************************************)
(* The life of a tentacron process, cmd/tentacron/main.go: the load of the *)
(* configuration, the migrations of internal/store/migrate.go, the loops,  *)
(* the listeners, reloads on SIGHUP and the shutdown, with what they meet: *)
(* the configuration provider, requests in flight (long polls and cancel   *)
(* notifications of internal/api) and a second process that opens the same *)
(* database.                                                               *)
(*                                                                         *)
(* main goes off, loading, opening, binding, serving; then draining,       *)
(* stopping, settling, exited after a signal, or failing, failed after an  *)
(* error.  A signal before signal.Notify and a second one during the       *)
(* shutdown get Go's default handling: the process dies (Crash).           *)
(***************************************************************************)
EXTENDS Configuration, FiniteSets, FiniteSetsExt, Sequences

CONSTANTS
  Files,        \* states of the configuration file
  NoFile,
  Text,         \* what each of them says
  Texts,        \* the texts Validate is examined on, these among them
  MaxAttempts,  \* the largest worker.max_attempts a backoff is computed for
  Main, Rival,  \* the process, and another one that opens its database
  Known,        \* the migrations each of their binaries embeds
  Servers,      \* the HTTP servers, in the order they are shut down
  Loops,        \* the pool and the deliverer
  Requests, ServerOf, Polls, Cancels,
  MaxEdits,     \* bound: edits of the file
  MaxFaults     \* bound: crashes, failing database calls, binds, listeners

Starters == {Main, Rival}
Versions == Known[Main]

ASSUME ProcessAssumption ==
  /\ NoFile \notin Files /\ Main # Rival
  /\ Text \in [Files -> Texts] /\ \A raw \in Texts : IsConfig(raw)
  /\ \A s \in Starters : IsFiniteSet(Known[s]) /\ Known[s] = 1 .. Cardinality(Known[s])
  /\ Known[Rival] \subseteq Known[Main]
  /\ Servers \in Seq({Servers[i] : i \in DOMAIN Servers})
  /\ \A r \in Requests : \E i \in DOMAIN Servers : ServerOf[r] = Servers[i]
  /\ Polls \subseteq Requests /\ Cancels \subseteq Requests \ Polls
  /\ MaxAttempts \in Nat /\ MaxEdits \in Nat /\ MaxFaults \in Nat

VARIABLES
  main,       \* where run, or newProcess before it, is
  disk,       \* the file as it is now
  current,    \* Provider.current
  follows,    \* the configuration the log level, redaction, cap and CORS follow
  hup,        \* a SIGHUP in the channel of one
  reloads,    \* a pending reload in the channel of one
  asked,      \* history: a SIGHUP came after the file was last read
  signalled,  \* rootCtx is done
  draining,   \* Server.draining is closed
  expired,    \* the grace window of drainHTTP is over
  cancelled,  \* workerCtx is done
  server,     \* each HTTP server's listener
  broken,     \* a value in serverErr
  loop,       \* each background loop
  request,    \* each request of this life of the process
  background, \* cancel notifications on their way
  recorded,   \* schema_migrations
  applied,    \* history: how often each migration's SQL is in the schema
  opening,    \* starters between listing the migrations and finishing them
  todo,       \* the migrations they found pending
  edits, faults   \* budgets left

reloading == <<current, follows, hup, reloads, asked>>
schema    == <<recorded, applied, opening, todo>>
stop      == <<signalled, draining, expired, cancelled>>
http      == <<server, broken, request, background>>
budgets   == <<edits, faults>>
vars      == <<main, disk, reloading, stop, http, loop, schema, budgets>>
-----------------------------------------------------------------------------
Running == {"binding", "serving", "reading", "following", "draining",
            "stopping", "settling", "failing"}
Ended   == {"off", "exited", "failed"}

Fault == faults > 0 /\ faults' = faults - 1
Valid == {f \in Files : Accepted(Text[f])}

ServerNames == {Servers[i] : i \in DOMAIN Servers}
InFlight(s) == {r \in Requests : ServerOf[r] = s /\ request[r] \in {"running", "parked"}}
AllDone     == \A l \in Loops : loop[l] = "done"
-----------------------------------------------------------------------------
(* Starting: newProcess and the first half of run.                         *)

\* A process has nothing of its predecessor's memory.
Fresh ==
  /\ hup' = FALSE /\ reloads' = FALSE /\ asked' = FALSE
  /\ signalled' = FALSE /\ draining' = FALSE /\ expired' = FALSE /\ cancelled' = FALSE
  /\ server' = [s \in ServerNames |-> "down"] /\ broken' = FALSE
  /\ loop' = [l \in Loops |-> "off"]
  /\ request' = [r \in Requests |-> "none"] /\ background' = {}
  /\ current' = NoFile /\ follows' = NoFile

Start ==
  /\ main \in Ended
  /\ main' = "loading"
  /\ Fresh
  /\ UNCHANGED <<disk, schema, budgets>>

\* NewProvider: a file that does not load ends the start.
Load ==
  /\ main = "loading"
  /\ \/ /\ disk \in Valid
        /\ current' = disk /\ follows' = disk
        /\ main' = "opening"
     \/ /\ disk \notin Valid
        /\ main' = "failed"
        /\ UNCHANGED <<current, follows>>
  /\ UNCHANGED <<disk, hup, reloads, asked, stop, http, loop, schema, budgets>>

\* migrate lists what the database has and what the binary embeds.  The
\* second process matters only while it finds something to do.
ListMigrations(s) ==
  /\ s \notin opening
  /\ IF s = Main THEN main = "opening" ELSE ~(Known[s] \subseteq recorded)
  /\ opening' = opening \cup {s}
  /\ todo' = [todo EXCEPT ![s] = Known[s] \ recorded]
  /\ UNCHANGED <<main, disk, reloading, stop, http, loop, recorded, applied, budgets>>

\* Open fails: the transaction is rolled back and the start is over.
OpenFails(s) ==
  /\ opening' = opening \ {s}
  /\ todo' = [todo EXCEPT ![s] = {}]
  /\ main' = IF s = Main THEN "failed" ELSE main
  /\ UNCHANGED <<recorded, applied>>

\* applyMigration: the file's SQL and its record in one transaction; the
\* primary key refuses a version another starter has recorded meanwhile.
MayAlwaysApply(v) == TRUE    \* mutant: INSERT OR IGNORE
MayApply(v) == v \notin recorded

ApplyMigration(s) ==
  LET v == Min(todo[s]) IN
  /\ s \in opening /\ todo[s] # {}
  /\ \/ /\ MayApply(v)
        /\ recorded' = recorded \cup {v}
        /\ applied' = [applied EXCEPT ![v] = @ + 1]
        /\ todo' = [todo EXCEPT ![s] = @ \ {v}]
        /\ UNCHANGED <<main, opening, faults>>
     \/ ~MayApply(v) /\ OpenFails(s) /\ UNCHANGED faults
     \/ Fault /\ OpenFails(s)
  /\ UNCHANGED <<disk, reloading, stop, http, loop, edits>>

\* The schema is up to date: the process starts its loops, which begin with
\* the recovery of interrupted jobs, unless the result directory cannot be
\* made or the schema version cannot be read.
Opened(s) ==
  /\ s \in opening /\ todo[s] = {}
  /\ \/ /\ opening' = opening \ {s}
        /\ IF s = Main THEN main' = "binding" /\ loop' = [l \in Loops |-> "busy"]
                       ELSE UNCHANGED <<main, loop>>
        /\ UNCHANGED <<recorded, applied, todo, faults>>
     \/ Fault /\ OpenFails(s) /\ UNCHANGED loop
  /\ UNCHANGED <<disk, reloading, stop, http, edits>>

\* Whoever leaves the loop of run never takes a reload again: what is in the
\* channels, and what comes, is as good as lost.
ReloadsAbandoned ==
  /\ hup' = FALSE /\ reloads' = FALSE /\ asked' = FALSE
  /\ UNCHANGED <<current, follows>>

\* listenAndServe: all listeners or none.
Bind ==
  /\ main = "binding"
  /\ \/ /\ server' = [s \in ServerNames |-> "open"]
        /\ main' = "serving"
        /\ UNCHANGED <<reloading, cancelled, faults>>
     \/ /\ Fault
        /\ main' = "failing" /\ cancelled' = TRUE
        /\ ReloadsAbandoned
        /\ UNCHANGED server
  /\ UNCHANGED <<disk, signalled, draining, expired, broken,
                 request, background, loop, schema, edits>>
-----------------------------------------------------------------------------
(* Reloads.                                                                *)

Edit(f) ==
  /\ edits > 0 /\ f # disk
  /\ edits' = edits - 1
  /\ disk' = f
  /\ UNCHANGED <<main, reloading, stop, http, loop, schema, faults>>

\* A SIGHUP after signal.Notify: dropped when the channel is full.
Hup ==
  /\ main \in {"binding", "serving", "reading", "following"}
  /\ asked' = TRUE /\ hup' = TRUE
  /\ UNCHANGED <<main, disk, current, follows, reloads, stop, http, loop, schema, budgets>>

\* The goroutine of serveFromConfig: a reload already pending is enough.
ForwardUnbuffered ==   \* mutant: a reload is lost unless run waits for one
  /\ main \in Running
  /\ hup
  /\ hup' = FALSE /\ reloads' = (main = "serving")
  /\ UNCHANGED <<main, disk, current, follows, asked, stop, http, loop, schema, budgets>>
Forward ==
  /\ main \in Running
  /\ hup
  /\ hup' = FALSE /\ reloads' = TRUE
  /\ UNCHANGED <<main, disk, current, follows, asked, stop, http, loop, schema, budgets>>

TakeReload ==
  /\ main = "serving"
  /\ reloads
  /\ reloads' = FALSE
  /\ main' = "reading"
  /\ UNCHANGED <<disk, current, follows, hup, asked, stop, http, loop, schema, budgets>>

\* Provider.Reload: a file that does not load leaves the running one.
SwapAny == disk        \* mutant: swapped in before it is validated
Swapped == IF disk \in Valid THEN disk ELSE current

Reload ==
  /\ main = "reading"
  /\ asked' = FALSE
  /\ current' = Swapped
  /\ main' = "following"
  /\ UNCHANGED <<disk, follows, hup, reloads, stop, http, loop, schema, budgets>>

\* The rest of reloadConfig; nothing more to do after an error.
Follow ==
  /\ main = "following"
  /\ follows' = current
  /\ main' = "serving"
  /\ UNCHANGED <<disk, current, hup, reloads, asked, stop, http, loop, schema, budgets>>
-----------------------------------------------------------------------------
(* Requests and background loops.                                          *)

Arrive(r) ==
  /\ server[ServerOf[r]] = "open"
  /\ request[r] = "none"
  /\ request' = [request EXCEPT ![r] = "running"]
  /\ UNCHANGED <<main, disk, reloading, stop, server, broken, background, loop, schema, budgets>>

\* A handler at work: a long poll parks in awaitTerminal, a cancel of an
\* awaiting job leaves notifyTargetCancel behind, everything else answers.
Handle(r) ==
  /\ main \in Running
  /\ request[r] = "running"
  /\ \/ /\ r \in Polls
        /\ request' = [request EXCEPT ![r] = "parked"]
        /\ UNCHANGED background
     \/ /\ request' = [request EXCEPT ![r] = "done"]
        /\ background' \in {background, background \cup ({r} \cap Cancels)}
  /\ UNCHANGED <<main, disk, reloading, stop, server, broken, loop, schema, budgets>>

\* awaitTerminal's select: draining answers; the job's end, the deadline and
\* the client's departure do too, whenever they come.
Answer(r) ==
  /\ main \in Running
  /\ request[r] = "parked"
  /\ request' = [request EXCEPT ![r] = "done"]
  /\ UNCHANGED <<main, disk, reloading, stop, server, broken, background, loop, schema, budgets>>
AnswerDraining(r) == draining /\ Answer(r)

\* CancelTarget has answered or its timeout has passed.
NotifyEnds(r) ==
  /\ main \in Running
  /\ r \in background
  /\ background' = background \ {r}
  /\ UNCHANGED <<main, disk, reloading, stop, server, broken, request, loop, schema, budgets>>

\* A loop takes work while it is not cancelled.
Work(l) ==
  /\ main \in Running
  /\ loop[l] = "idle" /\ ~cancelled
  /\ loop' = [loop EXCEPT ![l] = "busy"]
  /\ UNCHANGED <<main, disk, reloading, stop, http, schema, budgets>>

\* Work ends, or is cancelled and parked: either way the store is written.
WorkEnds(l) ==
  /\ main \in Running
  /\ loop[l] = "busy"
  /\ loop' = [loop EXCEPT ![l] = "idle"]
  /\ UNCHANGED <<main, disk, reloading, stop, http, schema, budgets>>

LoopReturns(l) ==
  /\ main \in Running
  /\ loop[l] = "idle" /\ cancelled
  /\ loop' = [loop EXCEPT ![l] = "done"]
  /\ UNCHANGED <<main, disk, reloading, stop, http, schema, budgets>>
-----------------------------------------------------------------------------
(* Stopping: the second half of run.                                       *)

Signal ==
  /\ main \in Running
  /\ ~signalled
  /\ signalled' = TRUE
  /\ UNCHANGED <<main, disk, reloading, draining, expired, cancelled, http, loop, schema, budgets>>

\* A listener fails: its Serve returns an error, its requests go on.
ServeFails(s) ==
  /\ server[s] = "open" /\ Fault
  /\ server' = [server EXCEPT ![s] = "deaf"]
  /\ broken' = TRUE
  /\ UNCHANGED <<main, disk, reloading, stop, request, background, loop, schema, edits>>

TakeServerErr ==
  /\ main = "serving"
  /\ broken
  /\ main' = "failing" /\ cancelled' = TRUE
  /\ ReloadsAbandoned
  /\ UNCHANGED <<disk, signalled, draining, expired, http, loop, schema, budgets>>

NoDrain == draining      \* mutant: long polls are not told
BeginDrain == TRUE

SeeSignal ==
  /\ main = "serving"
  /\ signalled
  /\ main' = "draining"
  /\ draining' = BeginDrain
  /\ ReloadsAbandoned
  /\ UNCHANGED <<disk, signalled, expired, cancelled, http, loop, schema, budgets>>

\* drainHTTP: one server after the other; Shutdown closes the listener and
\* waits for the requests in flight, until the grace window is over.
CloseListener(i) ==
  /\ main = "draining"
  /\ server[Servers[i]] \in {"open", "deaf"}
  /\ \A j \in 1 .. i - 1 : server[Servers[j]] = "down"
  /\ server' = [server EXCEPT ![Servers[i]] = "closing"]
  /\ UNCHANGED <<main, disk, reloading, stop, broken, request, background, loop, schema, budgets>>

ShutdownReturns(i) ==
  /\ main = "draining"
  /\ server[Servers[i]] = "closing"
  /\ expired \/ InFlight(Servers[i]) = {}
  /\ server' = [server EXCEPT ![Servers[i]] = "down"]
  /\ UNCHANGED <<main, disk, reloading, stop, broken, request, background, loop, schema, budgets>>

GraceOver ==
  /\ main = "draining" /\ ~expired
  /\ expired' = TRUE
  /\ UNCHANGED <<main, disk, reloading, signalled, draining, cancelled, http, loop, schema, budgets>>

\* cancelWorkers, and the wait for the loops.
CancelWorkers ==
  /\ main = "draining"
  /\ \A s \in ServerNames : server[s] = "down"
  /\ cancelled' = TRUE
  /\ main' = "stopping"
  /\ UNCHANGED <<disk, reloading, signalled, draining, expired, http, loop, schema, budgets>>

NoWait == TRUE           \* mutant: the store is closed under the loops
PoolDone == AllDone

LoopsDone ==
  /\ main \in {"stopping", "failing"}
  /\ PoolDone
  /\ main' = IF main = "stopping" THEN "settling" ELSE "failed"
  /\ UNCHANGED <<disk, reloading, stop, http, loop, schema, budgets>>

\* WaitBackground; run's deferred Close ends the store on every return.
WaitBackground ==
  /\ main = "settling"
  /\ background = {}
  /\ main' = "exited"
  /\ UNCHANGED <<disk, reloading, stop, http, loop, schema, budgets>>

\* The process dies: power, a kill, a panic, a signal nobody caught.  A
\* transaction in progress is rolled back.
Crash ==
  /\ main \notin Ended
  /\ Fault
  /\ main' = "off"
  /\ Fresh
  /\ opening' = opening \ {Main} /\ todo' = [todo EXCEPT ![Main] = {}]
  /\ UNCHANGED <<disk, recorded, applied, edits>>
-----------------------------------------------------------------------------
Init ==
  /\ main = "off"
  /\ disk \in Files
  /\ current = NoFile /\ follows = NoFile
  /\ hup = FALSE /\ reloads = FALSE /\ asked = FALSE
  /\ signalled = FALSE /\ draining = FALSE /\ expired = FALSE /\ cancelled = FALSE
  /\ server = [s \in ServerNames |-> "down"] /\ broken = FALSE
  /\ loop = [l \in Loops |-> "off"]
  /\ request = [r \in Requests |-> "none"] /\ background = {}
  /\ recorded = {} /\ applied = [v \in Versions |-> 0]
  /\ opening = {} /\ todo = [s \in Starters |-> {}]
  /\ edits = MaxEdits /\ faults = MaxFaults

Migrate(s) == ListMigrations(s) \/ ApplyMigration(s) \/ Opened(s)

MainStep ==
  \/ Load \/ Migrate(Main) \/ Bind
  \/ TakeReload \/ Reload \/ Follow
  \/ SeeSignal \/ TakeServerErr
  \/ \E i \in DOMAIN Servers : CloseListener(i) \/ ShutdownReturns(i)
  \/ CancelWorkers \/ LoopsDone \/ WaitBackground

LoopStep(l) == Work(l) \/ WorkEnds(l) \/ LoopReturns(l)

Next ==
  \/ Start \/ MainStep \/ Migrate(Rival)
  \/ \E f \in Files : Edit(f)
  \/ Hup \/ Forward \/ Signal \/ GraceOver \/ Crash
  \/ \E s \in ServerNames : ServeFails(s)
  \/ \E r \in Requests : Arrive(r) \/ Handle(r) \/ Answer(r) \/ NotifyEnds(r)
  \/ \E l \in Loops : LoopStep(l)

Spec == Init /\ [][Next]_vars

\* Goroutines are scheduled; a handler's and a loop's calls and a
\* notification end (their timeouts); select picks at random among what is
\* ready, so it takes a signal that stays ready.  Nothing makes a long poll's
\* job end, a client leave, the grace window pass or a process start.
Fairness ==
  /\ WF_vars(MainStep) /\ SF_vars(SeeSignal)
  /\ WF_vars(Forward)
  /\ \A r \in Requests : WF_vars(Handle(r)) /\ WF_vars(AnswerDraining(r)) /\ WF_vars(NotifyEnds(r))
  /\ \A l \in Loops : WF_vars(WorkEnds(l)) /\ WF_vars(LoopReturns(l))

FairSpec == Spec /\ Fairness
-----------------------------------------------------------------------------
\* Every migration is in the schema once exactly when it is recorded, none is
\* recorded before the ones it builds on, and a running process has all it
\* embeds, in spite of a second process that migrates at the same time,
\* failing statements and crashes between migrations (migrate,
\* applyMigration).
SchemaSound ==
  /\ \A v \in Versions : applied[v] = IF v \in recorded THEN 1 ELSE 0
  /\ \A v \in recorded : 1 .. v \subseteq recorded
  /\ main \in Running => Known[Main] \subseteq recorded

AcceptedAreSound ==
  \A raw \in Texts : Accepted(raw) => Sound(ApplyDefaults(raw), MaxAttempts)

\* Whatever the file goes through, the configuration in force is one the
\* workers can rely on (Sound), what follows it has followed before the next
\* request for a reload is taken (Provider.Reload, reloadConfig, Validate),
\* and Validate lets no unsound text through.
ConfigSound ==
  /\ AcceptedAreSound
  /\ main \in Running => current \in Valid
  /\ main = "serving" => follows = current

\* The order run documents: the store is closed after the loops have
\* returned, and after a signal the workers are cancelled only when every
\* request is answered and the process ends only when every notification is
\* sent, unless the grace window was too short.
OrderlyStop ==
  /\ main \in {"settling", "exited", "failed"} => \A l \in Loops : loop[l] \in {"off", "done"}
  /\ main \in {"stopping", "settling", "exited"} /\ ~expired =>
       \A r \in Requests : request[r] \in {"none", "done"}
  /\ main = "exited" /\ ~expired => background = {}

\* A SIGHUP leads to a read of the file as it was at the signal or later,
\* however many coalesce, while the process is not told to stop.
EveryReloadRead ==
  asked /\ main \in Running ~> ~asked \/ signalled \/ broken \/ main \notin Running

\* A signal ends the process although long polls wait for jobs that never
\* end, and without help from the grace timer.
ShutdownEnds == signalled /\ main \in Running ~> main \in Ended
=============================================================================
