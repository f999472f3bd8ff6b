--------------------------- MODULE Configuration ----------------------------
(***************************************************************************)
(* What a configuration file becomes: parse of internal/config/config.go   *)
(* applies the defaults, Validate of internal/config/validate.go accepts   *)
(* or refuses the result, and the pool reads its deadlines from it.        *)
(*                                                                         *)
(* Only the numbers the runtime computes with are kept.  wellFormed stands *)
(* for what the file's text decides: environment references, YAML, URLs,   *)
(* methods, names, enumerations, keys and browser origins.  A duration or  *)
(* count of 0 is one the operator left out.  No variables.                 *)
(***************************************************************************)
EXTENDS Integers

CONSTANTS
  Targets,       \* names a target may have
  Resolvents,    \* names a resolvent may have
  NoTarget,      \* a resolvent with a URL of its own
  Default,       \* the defaults applyDefaults fills in
  Word           \* the width of a time.Duration in bits

Fields == {"jobTimeout", "backoffBase", "backoffMax", "timeout",
           "interval", "pollTimeout", "resultTimeout", "resolventTimeout"}

ASSUME ConfigurationAssumption ==
  /\ NoTarget \notin Targets
  /\ Default \in [Fields -> Nat \ {0}]
  /\ Word \in Nat \ {0}
-----------------------------------------------------------------------------
\* Worker: the knobs every attempt depends on.
WorkerSettings == [jobTimeout : Int, backoffBase : Int, backoffMax : Int]

\* Target; polled says that response.mode is "poll" and its section is there.
TargetSettings == [timeout : Int, jobTimeout : Int, proxy : BOOLEAN,
                   polled : BOOLEAN, interval : Int, pollTimeout : Int,
                   resultTimeout : Int]

\* Resolvent: a URL with a timeout, or a target that backs it.
ResolventSettings == [timeout : Int, target : Targets \cup {NoTarget}]

IsConfig(c) ==
  /\ c.wellFormed \in BOOLEAN /\ c.worker \in WorkerSettings
  /\ \A n \in DOMAIN c.targets : n \in Targets /\ c.targets[n] \in TargetSettings
  /\ \A n \in DOMAIN c.resolvents : n \in Resolvents /\ c.resolvents[n] \in ResolventSettings
-----------------------------------------------------------------------------
(* applyDefaults.                                                          *)

\* setDur, and the counts beside it: only an absent value is filled in.
Or(d, field) == IF d = 0 THEN Default[field] ELSE d

WorkerDefaults(w) ==
  [jobTimeout  |-> Or(w.jobTimeout, "jobTimeout"),
   backoffBase |-> Or(w.backoffBase, "backoffBase"),
   backoffMax  |-> Or(w.backoffMax, "backoffMax")]

\* A target's job_timeout has no default: 0 inherits the worker's.
TargetDefaults(t) ==
  [timeout       |-> Or(t.timeout, "timeout"),
   jobTimeout    |-> t.jobTimeout,
   proxy         |-> t.proxy,
   polled        |-> t.polled,
   interval      |-> IF t.polled THEN Or(t.interval, "interval") ELSE t.interval,
   pollTimeout   |-> IF t.polled THEN Or(t.pollTimeout, "pollTimeout") ELSE t.pollTimeout,
   resultTimeout |-> IF t.polled THEN Or(t.resultTimeout, "resultTimeout") ELSE t.resultTimeout]

\* A resolvent backed by a target keeps its own timeout empty.
ResolventDefaults(r) ==
  [target  |-> r.target,
   timeout |-> IF r.target = NoTarget THEN Or(r.timeout, "resolventTimeout") ELSE r.timeout]

ApplyDefaults(c) ==
  [wellFormed |-> c.wellFormed,
   worker     |-> WorkerDefaults(c.worker),
   targets    |-> [n \in DOMAIN c.targets |-> TargetDefaults(c.targets[n])],
   resolvents |-> [n \in DOMAIN c.resolvents |-> ResolventDefaults(c.resolvents[n])]]
-----------------------------------------------------------------------------
(* Validate.                                                               *)

ValidWorker(w) ==
  /\ w.jobTimeout > 0 /\ w.backoffBase > 0 /\ w.backoffMax > 0
  /\ w.backoffBase <= w.backoffMax

ValidPoll(t) ==
  /\ t.interval > 0 /\ t.pollTimeout > 0 /\ t.resultTimeout > 0
  /\ t.resultTimeout >= t.timeout
  /\ t.interval < t.pollTimeout

ValidTarget(t) ==
  /\ t.timeout > 0
  /\ t.jobTimeout >= 0
  /\ t.polled => ValidPoll(t)

\* targetBacked: an existing target that answers directly, and no timeout.
ValidResolvent(c, r) ==
  IF r.target = NoTarget THEN r.timeout > 0
  ELSE /\ r.target \in DOMAIN c.targets
       /\ ~c.targets[r.target].polled
       /\ r.timeout = 0

\* longestResolventTimeout: what one call of r may take.
ResolventTimeout(c, r) ==
  IF r.target = NoTarget THEN r.timeout
  ELSE IF r.target \in DOMAIN c.targets THEN c.targets[r.target].timeout
  ELSE 0

\* timeoutBudget: longer than the forward after the longest resolvent call is
\* longer than the forward after each of them.
TimeoutBudgetOwn(c, t) ==    \* mutant: a backing target's timeout is not counted
  LET budget == IF t.jobTimeout = 0 THEN c.worker.jobTimeout ELSE t.jobTimeout
  IN  /\ budget >= t.timeout
      /\ ~t.proxy => \A n \in DOMAIN c.resolvents :
                       budget >= t.timeout + c.resolvents[n].timeout

TimeoutBudget(c, t) ==
  LET budget == IF t.jobTimeout = 0 THEN c.worker.jobTimeout ELSE t.jobTimeout
  IN  /\ budget >= t.timeout
      /\ ~t.proxy => \A n \in DOMAIN c.resolvents :
                       budget >= t.timeout + ResolventTimeout(c, c.resolvents[n])

Validate(c) ==
  /\ c.wellFormed
  /\ ValidWorker(c.worker)
  /\ DOMAIN c.targets # {}
  /\ \A n \in DOMAIN c.targets : ValidTarget(c.targets[n]) /\ TimeoutBudget(c, c.targets[n])
  /\ \A n \in DOMAIN c.resolvents : ValidResolvent(c, c.resolvents[n])

\* parse: the configuration a file's text leads to, if it leads to one.
Accepted(raw) == Validate(ApplyDefaults(raw))
-----------------------------------------------------------------------------
(* What the runtime reads.                                                 *)

JobTimeoutFor(c, n) ==
  IF n \in DOMAIN c.targets /\ c.targets[n].jobTimeout > 0
  THEN c.targets[n].jobTimeout ELSE c.worker.jobTimeout

\* pollLease: the status call, the download it may lead to, one interval.
PollLease(t) == t.timeout + t.resultTimeout + t.interval

\* The 2's-complement value of base << n.
Shifted(base, n) ==
  LET bits == (base * 2 ^ n) % (2 ^ Word)
  IN  IF bits >= 2 ^ (Word - 1) THEN bits - 2 ^ Word ELSE bits

\* retryOrFail and Deliverer.backoff, before the jitter.
Backoff(w, attempts) ==
  LET shifted == Shifted(w.backoffBase, attempts - 1)
  IN  IF shifted > w.backoffMax \/ shifted <= 0 THEN w.backoffMax ELSE shifted
-----------------------------------------------------------------------------
\* What the workers rely on: an attempt outlasts one call of any resolvent
\* and the forward after it, a poll tick ends within its lease with time to
\* spare, a tick comes before the poll deadline, and a retry waits a positive
\* time of at most backoff_max whatever the shift overflows to.
Sound(c, maxAttempts) ==
  /\ \A n \in DOMAIN c.targets :
       LET t == c.targets[n] IN
       /\ 0 < t.timeout /\ t.timeout <= JobTimeoutFor(c, n)
       /\ ~t.proxy => \A m \in DOMAIN c.resolvents :
            LET r == c.resolvents[m] IN
            /\ r.target # NoTarget => r.target \in DOMAIN c.targets
            /\ ResolventTimeout(c, r) > 0
            /\ ResolventTimeout(c, r) + t.timeout <= JobTimeoutFor(c, n)
       /\ t.polled => /\ t.timeout + t.resultTimeout < PollLease(t)
                      /\ t.interval < t.pollTimeout
  /\ \A k \in 1 .. maxAttempts : Backoff(c.worker, k) \in 1 .. c.worker.backoffMax
=============================================================================
