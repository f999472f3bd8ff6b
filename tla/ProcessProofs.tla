--------------------------- MODULE ProcessProofs ----------------------------
(***************************************************************************)
(* Proofs about the life of a process: for every configuration text, every *)
(* set of migrations, servers, loops and requests, and every number of     *)
(* edits, faults and restarts.                                             *)
(***************************************************************************)
EXTENDS Process, WellFoundedInduction, FiniteSetTheorems, TLAPS
-----------------------------------------------------------------------------
(* Facts about the operators.                                              *)

\* A power of two is positive: it counts the subsets of an interval.
LEMMA PowerOfTwo ==
  ASSUME NEW n \in Nat
  PROVE  2 ^ n \in Nat \ {0}
  <1>1. IsFiniteSet(1 .. n) /\ Cardinality(1 .. n) = n
    BY FS_Interval
  <1>2. IsFiniteSet(SUBSET (1 .. n)) /\ Cardinality(SUBSET (1 .. n)) = 2 ^ n
    BY <1>1, FS_SUBSET
  <1>3. Cardinality(SUBSET (1 .. n)) \in Nat
    BY <1>2, FS_CardinalityType
  <1>4. Cardinality(SUBSET (1 .. n)) # 0
    <2>1. SUBSET (1 .. n) # {}
      OBVIOUS
    <2> QED BY <1>2, <2>1, FS_EmptySet
  <1> QED BY <1>2, <1>3, <1>4

\* A shifted duration is a number, whatever the shift overflows to.
LEMMA ShiftedType ==
  ASSUME NEW base \in Int, NEW n \in Nat
  PROVE  Shifted(base, n) \in Int
  <1>1. 2 ^ n \in Nat \ {0} /\ 2 ^ Word \in Nat \ {0}
    BY PowerOfTwo, ConfigurationAssumption
  <1>2. 2 ^ (Word - 1) \in Nat \ {0}
    <2>1. Word - 1 \in Nat
      BY ConfigurationAssumption
    <2> QED BY <2>1, PowerOfTwo
  <1>3. base * 2 ^ n \in Int
    BY <1>1
  <1>4. (base * 2 ^ n) % (2 ^ Word) \in Int
    BY <1>1, <1>3
  <1> QED BY <1>1, <1>2, <1>4 DEF Shifted

\* A retry waits a positive time of at most backoff_max.
LEMMA BackoffBounded ==
  ASSUME NEW w \in WorkerSettings, ValidWorker(w), NEW k \in Nat \ {0}
  PROVE  Backoff(w, k) \in 1 .. w.backoffMax
  <1> DEFINE shifted == Shifted(w.backoffBase, k - 1)
  <1>1. shifted \in Int
    <2>1. w.backoffBase \in Int /\ k - 1 \in Nat
      BY DEF WorkerSettings
    <2> QED BY <2>1, ShiftedType
  <1>2. w.backoffMax \in Int /\ w.backoffMax > 0
    BY DEF WorkerSettings, ValidWorker
  <1>3. Backoff(w, k) = IF shifted > w.backoffMax \/ shifted <= 0 THEN w.backoffMax ELSE shifted
    BY DEF Backoff
  <1> HIDE DEF shifted
  <1> QED BY <1>1, <1>2, <1>3

\* applyDefaults leaves a configuration a configuration.
LEMMA DefaultsType ==
  ASSUME NEW raw, IsConfig(raw)
  PROVE  /\ ApplyDefaults(raw).worker \in WorkerSettings
         /\ \A n \in DOMAIN ApplyDefaults(raw).targets :
              ApplyDefaults(raw).targets[n] \in TargetSettings
         /\ \A n \in DOMAIN ApplyDefaults(raw).resolvents :
              ApplyDefaults(raw).resolvents[n] \in ResolventSettings
  <1> DEFINE c == ApplyDefaults(raw)
  <1>0. \A d \in Int, f \in Fields : Or(d, f) \in Int
    BY ConfigurationAssumption DEF Or
  <1>1. /\ \A n \in DOMAIN raw.targets : raw.targets[n] \in TargetSettings
        /\ \A n \in DOMAIN raw.resolvents : raw.resolvents[n] \in ResolventSettings
        /\ raw.worker \in WorkerSettings
    BY DEF IsConfig
  <1>4. WorkerDefaults(raw.worker) \in WorkerSettings
    BY <1>0, <1>1 DEF WorkerDefaults, WorkerSettings, Fields
  <1>5. ASSUME NEW t \in TargetSettings PROVE TargetDefaults(t) \in TargetSettings
    BY <1>0 DEF TargetDefaults, TargetSettings, Fields
  <1>6. ASSUME NEW r \in ResolventSettings PROVE ResolventDefaults(r) \in ResolventSettings
    BY <1>0 DEF ResolventDefaults, ResolventSettings, Fields
  <1>7. /\ c.worker = WorkerDefaults(raw.worker)
        /\ c.targets = [n \in DOMAIN raw.targets |-> TargetDefaults(raw.targets[n])]
        /\ c.resolvents = [n \in DOMAIN raw.resolvents |-> ResolventDefaults(raw.resolvents[n])]
    BY DEF ApplyDefaults
  <1> QED BY <1>1, <1>4, <1>5, <1>6, <1>7

\* Validate lets through only configurations the workers can rely on: an
\* attempt outlasts each resolvent call and the forward after it, a poll tick
\* ends within its lease and before the deadline, and every retry waits, with
\* any text, any number of attempts and any overflow of the shift
\* (config.parse, Validate, timeoutBudget, retryOrFail).
THEOREM ValidateIsSound ==
  ASSUME NEW raw, IsConfig(raw), Accepted(raw), NEW m \in Nat
  PROVE  Sound(ApplyDefaults(raw), m)
  <1>1. PICK c : c = ApplyDefaults(raw)
    OBVIOUS
  <1>2. /\ c.worker \in WorkerSettings
        /\ \A n \in DOMAIN c.targets : c.targets[n] \in TargetSettings
        /\ \A n \in DOMAIN c.resolvents : c.resolvents[n] \in ResolventSettings
    BY <1>1, DefaultsType
  <1>3. /\ ValidWorker(c.worker)
        /\ \A n \in DOMAIN c.targets : ValidTarget(c.targets[n]) /\ TimeoutBudget(c, c.targets[n])
        /\ \A n \in DOMAIN c.resolvents : ValidResolvent(c, c.resolvents[n])
    BY <1>1 DEF Accepted, Validate
  <1>4. \A k \in 1 .. m : Backoff(c.worker, k) \in 1 .. c.worker.backoffMax
    BY <1>2, <1>3, BackoffBounded
  <1>5. ASSUME NEW n \in DOMAIN c.targets, NEW t, t = c.targets[n]
        PROVE  /\ 0 < t.timeout /\ t.timeout <= JobTimeoutFor(c, n)
               /\ ~t.proxy => \A k \in DOMAIN c.resolvents :
                    /\ c.resolvents[k].target # NoTarget =>
                         c.resolvents[k].target \in DOMAIN c.targets
                    /\ ResolventTimeout(c, c.resolvents[k]) > 0
                    /\ ResolventTimeout(c, c.resolvents[k]) + t.timeout <= JobTimeoutFor(c, n)
               /\ t.polled => /\ t.timeout + t.resultTimeout < PollLease(t)
                              /\ t.interval < t.pollTimeout
    <2>1. /\ t.timeout \in Int /\ t.jobTimeout \in Int /\ t.interval \in Int
          /\ t.pollTimeout \in Int /\ t.resultTimeout \in Int /\ c.worker.jobTimeout \in Int
      BY <1>2, <1>5 DEF TargetSettings, WorkerSettings
    <2>2. ValidTarget(t) /\ TimeoutBudget(c, t)
      BY <1>3, <1>5
    <2>3. JobTimeoutFor(c, n) = IF t.jobTimeout = 0 THEN c.worker.jobTimeout ELSE t.jobTimeout
      BY <1>5, <2>1, <2>2 DEF JobTimeoutFor, ValidTarget
    <2>4. 0 < t.timeout /\ t.timeout <= JobTimeoutFor(c, n)
      BY <2>1, <2>2, <2>3 DEF ValidTarget, TimeoutBudget
    <2>5. ASSUME ~t.proxy, NEW k \in DOMAIN c.resolvents, NEW r, r = c.resolvents[k]
          PROVE  /\ r.target # NoTarget => r.target \in DOMAIN c.targets
                 /\ ResolventTimeout(c, r) > 0
                 /\ ResolventTimeout(c, r) + t.timeout <= JobTimeoutFor(c, n)
      <3>1. ValidResolvent(c, r) /\ r \in ResolventSettings
        BY <1>2, <1>3, <2>5
      <3>2. ResolventTimeout(c, r) \in Int /\ ResolventTimeout(c, r) > 0
        BY <1>2, <1>3, <3>1
           DEF ResolventTimeout, ValidResolvent, ValidTarget, ResolventSettings, TargetSettings
      <3>3. r.target # NoTarget => r.target \in DOMAIN c.targets
        BY <3>1 DEF ValidResolvent
      <3>4. JobTimeoutFor(c, n) >= t.timeout + ResolventTimeout(c, r)
        BY <2>2, <2>3, <2>5 DEF TimeoutBudget
      <3>5. JobTimeoutFor(c, n) \in Int
        BY <2>1, <2>3
      <3> QED BY <2>1, <3>2, <3>3, <3>4, <3>5
    <2>6. ASSUME t.polled
          PROVE  t.timeout + t.resultTimeout < PollLease(t) /\ t.interval < t.pollTimeout
      BY <2>1, <2>2, <2>6 DEF ValidTarget, ValidPoll, PollLease
    <2> QED BY <2>4, <2>5, <2>6
  <1>6. Sound(c, m)
    BY <1>4, <1>5 DEF Sound
  <1> QED BY <1>1, <1>6
-----------------------------------------------------------------------------
(* The inductive invariant.                                                *)

TypeOK ==
  /\ main \in Running \cup Ended \cup {"loading", "opening"}
  /\ disk \in Files /\ current \in Files \cup {NoFile} /\ follows \in Files \cup {NoFile}
  /\ server \in [ServerNames -> {"down", "open", "deaf", "closing"}]
  /\ loop \in [Loops -> {"off", "busy", "idle", "done"}]
  /\ request \in [Requests -> {"none", "running", "parked", "done"}]
  /\ recorded \subseteq Versions /\ applied \in [Versions -> Nat]
  /\ opening \subseteq Starters /\ todo \in [Starters -> SUBSET Versions]

\* A starter still has to do, or finds recorded, everything it embeds, and
\* the process migrates at one place only.
Migrating ==
  /\ \A s \in Starters : /\ todo[s] \subseteq Known[s]
                         /\ s \in opening => Known[s] \subseteq recorded \cup todo[s]
  /\ Main \in opening => main = "opening"

\* The configuration in force was accepted, and everything has followed it
\* except between the two halves of a reload.
Configured ==
  /\ main \in Running \cup {"opening"} => current \in Valid
  /\ main \in {"opening", "binding", "serving", "reading"} => follows = current

\* Nothing runs before the loops are started, or after they were waited for;
\* a server is down only without requests, unless the grace window is over,
\* and the workers are cancelled only when all are down.
Quiet ==
  /\ main \in {"off", "loading", "opening"} => \A l \in Loops : loop[l] = "off"
  /\ main \in {"settling", "exited", "failed"} => \A l \in Loops : loop[l] \in {"off", "done"}
  /\ main \in {"stopping", "settling", "exited"} => \A s \in ServerNames : server[s] = "down"
  /\ ~expired => \A r \in Requests :
       server[ServerOf[r]] = "down" => request[r] \in {"none", "done"}
  /\ main = "exited" => background = {}

ProcessInv == TypeOK /\ SchemaSound /\ Migrating /\ Configured /\ Quiet
-----------------------------------------------------------------------------
USE DEF Running, Ended, reloading, schema, stop, http, budgets

LEMMA ServersNamed == \A r \in Requests : ServerOf[r] \in ServerNames
  BY ProcessAssumption DEF ServerNames

LEMMA InitInv == Init => ProcessInv
  <1> SUFFICES ASSUME Init PROVE ProcessInv
    OBVIOUS
  <1>1. TypeOK
    BY DEF Init, TypeOK
  <1>2. SchemaSound
    BY DEF Init, SchemaSound
  <1>3. Migrating /\ Configured
    BY DEF Init, Migrating, Configured
  <1>4. Quiet
    BY ServersNamed DEF Init, Quiet
  <1> QED BY <1>1, <1>2, <1>3, <1>4 DEF ProcessInv

\* A set of numbers that is not empty has a smallest member.
LEMMA SmallestMember ==
  ASSUME NEW S, S \subseteq Nat, S # {}
  PROVE  Min(S) \in S /\ \A y \in S : Min(S) <= y
  <1>0. \A x, y \in Nat : x < y => <<x, y>> \in OpToRel(<, Nat)
    BY DEF OpToRel
  <1>1. PICK x \in S : \A y \in S : ~(<<y, x>> \in OpToRel(<, Nat))
    BY NatLessThanWellFounded, WFMin
  <1>2. \A y \in S : ~(y < x)
    BY <1>0, <1>1, Zenon
  <1>3. \A y \in S : x <= y
    BY <1>2
  <1> QED BY <1>3 DEF Min

\* What a starter embeds are the first versions there are.
LEMMA KnownVersions ==
  ASSUME NEW s \in Starters
  PROVE  /\ Known[s] \subseteq Versions /\ Known[s] \subseteq Nat \ {0}
         /\ \A v \in Known[s] : 1 .. v \subseteq Known[s]
  <1>1. Known[s] = 1 .. Cardinality(Known[s]) /\ Cardinality(Known[s]) \in Nat
    BY ProcessAssumption, FS_CardinalityType
  <1>2. PICK n \in Nat : Known[s] = 1 .. n
    BY <1>1
  <1>3. Known[s] \subseteq Versions
    BY ProcessAssumption DEF Starters, Versions
  <1> QED BY <1>2, <1>3

\* A migration that may be applied is the next one of the schema.
LEMMA NextVersion ==
  ASSUME TypeOK, SchemaSound, Migrating, NEW s \in Starters, s \in opening, todo[s] # {}
  PROVE  /\ Min(todo[s]) \in Versions /\ Min(todo[s]) \in todo[s]
         /\ 1 .. Min(todo[s]) \subseteq recorded \cup {Min(todo[s])}
  <1>1. todo[s] \subseteq Known[s] /\ Known[s] \subseteq recorded \cup todo[s]
    BY DEF Migrating
  <1>2. PICK v : v = Min(todo[s])
    OBVIOUS
  <1>3. v \in todo[s] /\ \A u \in todo[s] : v <= u
    BY <1>1, <1>2, KnownVersions, SmallestMember
  <1>4. v \in Versions /\ v \in Nat /\ 1 .. v \subseteq Known[s]
    BY <1>1, <1>3, KnownVersions
  <1>5. ASSUME NEW u \in 1 .. v, u \notin recorded PROVE u = v
    <2>1. u \in todo[s]
      BY <1>1, <1>4, <1>5
    <2> QED BY <1>3, <1>4, <2>1
  <1> QED BY <1>2, <1>3, <1>4, <1>5

\* The steps of a migration.
LEMMA MigrateInv ==
  ASSUME ProcessInv, NEW s \in Starters, Migrate(s)
  PROVE  ProcessInv'
  <1>0. TypeOK /\ SchemaSound /\ Migrating /\ Configured /\ Quiet
    BY DEF ProcessInv
  <1>1. /\ UNCHANGED <<disk, reloading, stop, http>>
        /\ s = Main => main = "opening"
    BY <1>0 DEF Migrate, ListMigrations, ApplyMigration, Opened, Migrating
  <1>2. CASE ListMigrations(s)
    <2>1. /\ UNCHANGED <<main, loop, recorded, applied>>
          /\ opening' = opening \cup {s}
          /\ todo' = [todo EXCEPT ![s] = Known[s] \ recorded]
      BY <1>2 DEF ListMigrations
    <2>2. Known[s] \subseteq Versions
      BY KnownVersions
    <2>3. TypeOK'
      BY <1>0, <1>1, <2>1, <2>2 DEF TypeOK
    <2>4. Migrating'
      BY <1>0, <1>1, <2>1 DEF Migrating, TypeOK
    <2>5. SchemaSound' /\ Configured' /\ Quiet'
      BY <1>0, <1>1, <2>1 DEF SchemaSound, Configured, Quiet, Valid
    <2> QED BY <2>3, <2>4, <2>5 DEF ProcessInv
  <1>3. ASSUME OpenFails(s), UNCHANGED loop PROVE ProcessInv'
    <2>1. /\ opening' = opening \ {s} /\ todo' = [todo EXCEPT ![s] = {}]
          /\ main' = main \/ (main = "opening" /\ main' = "failed")
          /\ s # Main => main' = main
          /\ UNCHANGED <<recorded, applied, loop>>
      BY <1>1, <1>3 DEF OpenFails
    <2>2. TypeOK'
      BY <1>0, <1>1, <2>1 DEF TypeOK
    <2>3. Migrating'
      BY <1>0, <2>1, ProcessAssumption DEF Migrating, TypeOK, Starters
    <2>4. SchemaSound' /\ Configured'
      BY <1>0, <1>1, <2>1 DEF SchemaSound, Configured, Valid
    <2>5. Quiet'
      BY <1>0, <1>1, <2>1 DEF Quiet
    <2> QED BY <2>2, <2>3, <2>4, <2>5 DEF ProcessInv
  <1>4. ASSUME ApplyMigration(s), NEW v, v = Min(todo[s]), MayApply(v),
               recorded' = recorded \cup {v}, applied' = [applied EXCEPT ![v] = @ + 1],
               todo' = [todo EXCEPT ![s] = @ \ {v}], UNCHANGED <<main, opening>>
        PROVE  ProcessInv'
    <2>1. v \in Versions /\ v \in todo[s] /\ 1 .. v \subseteq recorded \cup {v}
      BY <1>0, <1>4, NextVersion DEF ApplyMigration
    <2>2. UNCHANGED loop
      BY <1>4 DEF ApplyMigration
    <2>3. TypeOK'
      BY <1>0, <1>1, <1>4, <2>1, <2>2 DEF TypeOK
    <2>4. SchemaSound'
      <3>1. \A u \in Versions : applied'[u] = IF u \in recorded' THEN 1 ELSE 0
        BY <1>0, <1>4, <2>1 DEF TypeOK, SchemaSound, MayApply
      <3>2. \A u \in recorded' : 1 .. u \subseteq recorded'
        BY <1>0, <1>4, <2>1 DEF SchemaSound
      <3>3. main' \in Running => Known[Main] \subseteq recorded'
        BY <1>0, <1>4 DEF SchemaSound
      <3> QED BY <3>1, <3>2, <3>3 DEF SchemaSound
    <2>5. Migrating'
      BY <1>0, <1>4, <2>1 DEF Migrating, TypeOK
    <2>6. Configured' /\ Quiet'
      BY <1>0, <1>1, <1>4, <2>2 DEF Configured, Quiet, Valid
    <2> QED BY <2>3, <2>4, <2>5, <2>6 DEF ProcessInv
  <1>5. CASE ApplyMigration(s)
    BY <1>3, <1>4, <1>5 DEF ApplyMigration
  <1>6. ASSUME s \in opening, todo[s] = {}, opening' = opening \ {s},
               UNCHANGED <<recorded, applied, todo>>,
               IF s = Main THEN main' = "binding" /\ loop' = [l \in Loops |-> "busy"]
                           ELSE UNCHANGED <<main, loop>>
        PROVE  ProcessInv'
    <2>1. Known[s] \subseteq recorded
      BY <1>0, <1>6 DEF Migrating
    <2>2. TypeOK'
      BY <1>0, <1>1, <1>6 DEF TypeOK
    <2>3. Migrating'
      BY <1>0, <1>6 DEF Migrating
    <2>4. SchemaSound'
      BY <1>0, <1>6, <2>1 DEF SchemaSound
    <2>5. Configured'
      BY <1>0, <1>1, <1>6 DEF Configured, Valid
    <2>6. Quiet'
      BY <1>0, <1>1, <1>6 DEF Quiet
    <2> QED BY <2>2, <2>3, <2>4, <2>5, <2>6 DEF ProcessInv
  <1>7. CASE Opened(s)
    BY <1>3, <1>6, <1>7 DEF Opened
  <1> QED BY <1>2, <1>5, <1>7 DEF Migrate

\* A step that leaves the schema alone.
LEMMA SchemaKept ==
  ASSUME ProcessInv, UNCHANGED schema,
         main' \in Running => main \in Running,
         main = "opening" => main' = "opening"
  PROVE  SchemaSound' /\ Migrating'
  BY DEF ProcessInv, SchemaSound, Migrating

\* Starting and binding.
LEMMA StartingInv ==
  ASSUME ProcessInv, Start \/ Load \/ Bind
  PROVE  ProcessInv'
  <1>0. TypeOK /\ Configured /\ Quiet
    BY DEF ProcessInv
  <1>1. CASE Start
    <2>1. SchemaSound' /\ Migrating'
      BY <1>1, SchemaKept DEF Start
    <2>2. TypeOK'
      BY <1>0, <1>1 DEF Start, Fresh, TypeOK
    <2>3. Configured' /\ Quiet'
      BY <1>1, ServersNamed DEF Start, Fresh, Configured, Quiet
    <2> QED BY <2>1, <2>2, <2>3 DEF ProcessInv
  <1>2. CASE Load
    <2>1. SchemaSound' /\ Migrating'
      BY <1>2, SchemaKept DEF Load
    <2>2. TypeOK'
      BY <1>0, <1>2 DEF Load, TypeOK, Valid
    <2>3. Configured'
      BY <1>2 DEF Load, Configured, Valid
    <2>4. Quiet'
      BY <1>0, <1>2 DEF Load, Quiet
    <2> QED BY <2>1, <2>2, <2>3, <2>4 DEF ProcessInv
  <1>3. CASE Bind
    <2>1. SchemaSound' /\ Migrating'
      BY <1>3, SchemaKept DEF Bind
    <2>2. TypeOK'
      BY <1>0, <1>3 DEF Bind, TypeOK, ReloadsAbandoned
    <2>3. Configured'
      BY <1>0, <1>3 DEF Bind, Configured, ReloadsAbandoned, Valid
    <2>4. Quiet'
      BY <1>0, <1>3, ServersNamed DEF Bind, Quiet
    <2> QED BY <2>1, <2>2, <2>3, <2>4 DEF ProcessInv
  <1> QED BY <1>1, <1>2, <1>3

\* Reloads, and what else leaves loops, servers and requests alone.
LEMMA ReloadingInv ==
  ASSUME ProcessInv,
         \/ (\E f \in Files : Edit(f)) \/ Hup \/ Forward \/ TakeReload \/ Reload \/ Follow
         \/ Signal \/ TakeServerErr \/ SeeSignal \/ GraceOver
  PROVE  ProcessInv'
  <1>0. TypeOK /\ Configured /\ Quiet
    BY DEF ProcessInv
  <1>1. /\ UNCHANGED <<schema, http, loop>>
        /\ main' = main \/ (main \in Running /\ main' \in {"serving", "reading", "following",
                                                         "draining", "failing"})
        /\ (expired' = expired) \/ expired'
    BY DEF Edit, Hup, Forward, TakeReload, Reload, Follow, Signal, TakeServerErr,
           SeeSignal, GraceOver, ReloadsAbandoned
  <1>2. SchemaSound' /\ Migrating'
    BY <1>1, SchemaKept
  <1>3. Swapped \in Files \cup {NoFile} /\ (current \in Valid => Swapped \in Valid)
    BY <1>0 DEF Swapped, TypeOK
  <1>4. TypeOK'
    BY <1>0, <1>1, <1>3
       DEF TypeOK, Edit, Hup, Forward, TakeReload, Reload, Follow, Signal, TakeServerErr,
           SeeSignal, GraceOver, ReloadsAbandoned
  <1>5. Configured'
    BY <1>0, <1>3
       DEF Configured, Valid, Edit, Hup, Forward, TakeReload, Reload, Follow, Signal,
           TakeServerErr, SeeSignal, GraceOver, ReloadsAbandoned
  <1>6. Quiet'
    BY <1>0, <1>1 DEF Quiet
  <1> QED BY <1>2, <1>4, <1>5, <1>6 DEF ProcessInv

\* Requests and loops.
LEMMA ServingInv ==
  ASSUME ProcessInv,
         \/ \E r \in Requests : Arrive(r) \/ Handle(r) \/ Answer(r) \/ NotifyEnds(r)
         \/ \E l \in Loops : LoopStep(l)
  PROVE  ProcessInv'
  <1>0. TypeOK /\ Configured /\ Quiet
    BY DEF ProcessInv
  <1>1. CASE \E r \in Requests : Arrive(r) \/ Handle(r) \/ Answer(r) \/ NotifyEnds(r)
    <2>1. PICK r \in Requests : Arrive(r) \/ Handle(r) \/ Answer(r) \/ NotifyEnds(r)
      BY <1>1
    <2>2. UNCHANGED <<main, disk, current, follows, schema, loop, server, expired>>
      BY <2>1 DEF Arrive, Handle, Answer, NotifyEnds
    <2>3. /\ \A q \in Requests \ {r} : request'[q] = request[q]
          /\ \/ request'[r] = request[r]
             \/ request'[r] = "done"
             \/ request'[r] = "running" /\ server[ServerOf[r]] = "open"
             \/ request'[r] = "parked" /\ request[r] = "running"
          /\ request' \in [Requests -> {"none", "running", "parked", "done"}]
      BY <1>0, <2>1 DEF TypeOK, Arrive, Handle, Answer, NotifyEnds
    <2>4. main = "exited" => background' \subseteq background
      BY <2>1 DEF Arrive, Handle, Answer, NotifyEnds
    <2>5. TypeOK' /\ SchemaSound' /\ Migrating' /\ Configured'
      BY <1>0, <2>2, <2>3, SchemaKept DEF TypeOK, Configured, Valid
    <2>6. Quiet'
      BY <1>0, <2>2, <2>3, <2>4 DEF Quiet
    <2> QED BY <2>5, <2>6 DEF ProcessInv
  <1>2. CASE \E l \in Loops : LoopStep(l)
    <2>1. PICK l \in Loops : LoopStep(l)
      BY <1>2
    <2>2. /\ UNCHANGED <<main, disk, current, follows, schema, http, expired>>
          /\ loop[l] \in {"idle", "busy"}
          /\ \A k \in Loops \ {l} : loop'[k] = loop[k]
          /\ loop' \in [Loops -> {"off", "busy", "idle", "done"}]
      BY <1>0, <2>1 DEF LoopStep, Work, WorkEnds, LoopReturns, TypeOK
    <2>3. TypeOK' /\ SchemaSound' /\ Migrating' /\ Configured'
      BY <1>0, <2>2, SchemaKept DEF TypeOK, Configured, Valid
    <2>4. Quiet'
      BY <1>0, <2>2 DEF Quiet
    <2> QED BY <2>3, <2>4 DEF ProcessInv
  <1> QED BY <1>1, <1>2

\* Servers, and the end of the process.
LEMMA StoppingInv ==
  ASSUME ProcessInv,
         \/ \E s \in ServerNames : ServeFails(s)
         \/ \E i \in DOMAIN Servers : CloseListener(i) \/ ShutdownReturns(i)
         \/ CancelWorkers \/ LoopsDone \/ WaitBackground \/ Crash
  PROVE  ProcessInv'
  <1>0. TypeOK /\ Configured /\ Quiet /\ SchemaSound /\ Migrating
    BY DEF ProcessInv
  <1>1. ASSUME NEW s \in ServerNames,
               ServeFails(s) \/ \E i \in DOMAIN Servers :
                 s = Servers[i] /\ (CloseListener(i) \/ ShutdownReturns(i))
        PROVE  ProcessInv'
    <2>1. UNCHANGED <<main, disk, current, follows, schema, request, background, loop, expired>>
      BY <1>1 DEF ServeFails, CloseListener, ShutdownReturns
    <2>2. /\ \A u \in ServerNames \ {s} : server'[u] = server[u]
          /\ server' \in [ServerNames -> {"down", "open", "deaf", "closing"}]
          /\ server[s] # "down"
          /\ server'[s] = "down" => expired \/ InFlight(s) = {}
      BY <1>0, <1>1 DEF TypeOK, ServeFails, CloseListener, ShutdownReturns
    <2>3. TypeOK' /\ SchemaSound' /\ Migrating' /\ Configured'
      BY <1>0, <2>1, <2>2, SchemaKept DEF TypeOK, Configured, Valid
    <2>4. ASSUME NEW r \in Requests, ~expired, server'[ServerOf[r]] = "down"
          PROVE  request[r] \in {"none", "done"}
      BY <1>0, <2>2, <2>4, ServersNamed DEF InFlight, Quiet, TypeOK
    <2>5. main \in {"stopping", "settling", "exited"} =>
            \A u \in ServerNames : server'[u] = "down"
      BY <1>0, <2>2 DEF Quiet
    <2>6. Quiet'
      BY <1>0, <2>1, <2>4, <2>5 DEF Quiet
    <2> QED BY <2>3, <2>6 DEF ProcessInv
  <1>2. CASE CancelWorkers
    <2>1. TypeOK' /\ SchemaSound' /\ Migrating' /\ Configured'
      BY <1>0, <1>2, SchemaKept DEF CancelWorkers, TypeOK, Configured, Valid
    <2>2. Quiet'
      BY <1>0, <1>2 DEF CancelWorkers, Quiet
    <2> QED BY <2>1, <2>2 DEF ProcessInv
  <1>3. CASE LoopsDone
    <2>1. /\ \/ main = "stopping" /\ main' = "settling"
             \/ main = "failing" /\ main' = "failed"
          /\ \A l \in Loops : loop[l] = "done"
          /\ UNCHANGED <<disk, current, follows, schema, http, loop, expired>>
      BY <1>3 DEF LoopsDone, PoolDone, AllDone
    <2>2. TypeOK' /\ SchemaSound' /\ Migrating' /\ Configured'
      BY <1>0, <2>1, SchemaKept DEF TypeOK, Configured, Valid
    <2>3. Quiet'
      BY <1>0, <2>1 DEF Quiet
    <2> QED BY <2>2, <2>3 DEF ProcessInv
  <1>4. CASE WaitBackground
    <2>1. TypeOK' /\ SchemaSound' /\ Migrating' /\ Configured'
      BY <1>0, <1>4, SchemaKept DEF WaitBackground, TypeOK, Configured, Valid
    <2>2. Quiet'
      BY <1>0, <1>4 DEF WaitBackground, Quiet
    <2> QED BY <2>1, <2>2 DEF ProcessInv
  <1>5. CASE Crash
    <2>1. TypeOK'
      BY <1>0, <1>5 DEF Crash, Fresh, TypeOK
    <2>2. SchemaSound'
      BY <1>0, <1>5 DEF Crash, SchemaSound
    <2>3. Migrating'
      BY <1>0, <1>5 DEF Crash, Migrating, TypeOK
    <2>4. Configured' /\ Quiet'
      BY <1>5, ServersNamed DEF Crash, Fresh, Configured, Quiet
    <2> QED BY <2>1, <2>2, <2>3, <2>4 DEF ProcessInv
  <1> QED BY <1>1, <1>2, <1>3, <1>4, <1>5 DEF ServerNames

LEMMA InvInductive == ProcessInv /\ [Next]_vars => ProcessInv'
  <1> SUFFICES ASSUME ProcessInv, [Next]_vars PROVE ProcessInv'
    OBVIOUS
  <1>1. CASE UNCHANGED vars
    BY <1>1 DEF vars, ProcessInv, TypeOK, SchemaSound, Migrating, Configured, Valid, Quiet
  <1>2. CASE Migrate(Main) \/ Migrate(Rival)
    BY <1>2, MigrateInv DEF Starters
  <1>3. CASE Start \/ Load \/ Bind
    BY <1>3, StartingInv
  <1>4. CASE \/ (\E f \in Files : Edit(f)) \/ Hup \/ Forward \/ TakeReload \/ Reload \/ Follow
             \/ Signal \/ TakeServerErr \/ SeeSignal \/ GraceOver
    BY <1>4, ReloadingInv
  <1>5. CASE \/ \E r \in Requests : Arrive(r) \/ Handle(r) \/ Answer(r) \/ NotifyEnds(r)
             \/ \E l \in Loops : LoopStep(l)
    BY <1>5, ServingInv
  <1>6. CASE \/ \E s \in ServerNames : ServeFails(s)
             \/ \E i \in DOMAIN Servers : CloseListener(i) \/ ShutdownReturns(i)
             \/ CancelWorkers \/ LoopsDone \/ WaitBackground \/ Crash
    BY <1>6, StoppingInv
  <1> QED BY <1>1, <1>2, <1>3, <1>4, <1>5, <1>6 DEF Next, MainStep

\* Starts, migrations, reloads, requests, loops and stops keep the invariant
\* of the process, with crashes and a rival process at any point (run,
\* serveFromConfig, migrate, drainHTTP).
THEOREM ProcessInvariant == Spec => []ProcessInv
  <1>1. Init => ProcessInv
    BY InitInv
  <1>2. ProcessInv /\ [Next]_vars => ProcessInv'
    BY InvInductive
  <1> QED BY <1>1, <1>2, PTL DEF Spec

\* A migration is in the schema exactly once when it is recorded, in order,
\* and a running process has all of its own, however two processes, failing
\* statements and crashes interleave (migrate, applyMigration).
THEOREM SchemaStaysSound == Spec => []SchemaSound
  <1>1. ProcessInv => SchemaSound
    BY DEF ProcessInv
  <1> QED BY <1>1, ProcessInvariant, PTL

\* The configuration in force is always one the workers can rely on, and
\* what follows it is up to date whenever the next reload may be taken
\* (Provider.Reload, reloadConfig, Validate).
THEOREM ConfigStaysSound == Spec => []ConfigSound
  <1>1. AcceptedAreSound
    BY ValidateIsSound, ProcessAssumption DEF AcceptedAreSound
  <1>2. ProcessInv => ConfigSound
    BY <1>1 DEF ProcessInv, Configured, ConfigSound
  <1> QED BY <1>2, ProcessInvariant, PTL

\* The store is closed only after the loops have returned; after a signal
\* workers are cancelled only when every request is answered, and the process
\* ends only when every notification is sent, unless the grace window was
\* too short (run, drainHTTP, WaitBackground).
THEOREM StopStaysOrderly == Spec => []OrderlyStop
  <1>1. ASSUME ProcessInv, main \in {"stopping", "settling", "exited"}, ~expired,
               NEW r \in Requests
        PROVE  request[r] \in {"none", "done"}
    BY <1>1, ServersNamed DEF ProcessInv, Quiet
  <1>2. ProcessInv => OrderlyStop
    BY <1>1 DEF ProcessInv, Quiet, OrderlyStop
  <1> QED BY <1>2, ProcessInvariant, PTL
-----------------------------------------------------------------------------
(* What the two liveness properties rest on: who acts next.                *)

\* What a stop relies on: the loops were started, the long polls were told
\* before the servers are waited for, the loops before they are, and every
\* notification has its request.
Told ==
  /\ main = "draining" => draining
  /\ main \in {"stopping", "failing"} => cancelled
  /\ main \in Running => \A l \in Loops : loop[l] # "off"
  /\ background \subseteq Requests

\* A SIGHUP whose file has not been read yet is in one of the two channels, or
\* the read is under way.
ReloadComing == asked => hup \/ reloads \/ main = "reading"

\* Whatever run waits for at a point of the shutdown can act: a server that is
\* still open is the first in line, or its Shutdown waits only for requests
\* that will be answered; a loop not done ends its work or sees the
\* cancellation; a notification ends by its timeout.
Served(s) == \A r \in InFlight(s) : request[r] = "parked" => draining
StopGoesOn ==
  /\ main = "draining" =>
       \/ \A s \in ServerNames : server[s] = "down"
       \/ \E i \in DOMAIN Servers :
            /\ \A j \in 1 .. i - 1 : server[Servers[j]] = "down"
            /\ \/ server[Servers[i]] \in {"open", "deaf"}
               \/ server[Servers[i]] = "closing" /\ Served(Servers[i])
  /\ main \in {"stopping", "failing"} =>
       \A l \in Loops : loop[l] \in {"busy", "done"} \/ (loop[l] = "idle" /\ cancelled)
  /\ main = "settling" => background \subseteq Requests

LEMMA ToldInductive == TypeOK /\ Told /\ [Next]_vars => Told'
  <1> SUFFICES ASSUME TypeOK, Told, [Next]_vars PROVE Told'
    OBVIOUS
  <1>1. CASE UNCHANGED vars
    BY <1>1 DEF vars, Told
  <1>2. CASE Start \/ Crash
    BY <1>2 DEF Start, Crash, Fresh, Told
  <1>3. CASE Load \/ Bind
    BY <1>3 DEF Load, Bind, Told
  <1>4. ASSUME NEW s \in Starters, Migrate(s) PROVE Told'
    <2>1. UNCHANGED <<draining, cancelled, background>>
      BY <1>4 DEF Migrate, ListMigrations, ApplyMigration, Opened
    <2>2. \/ main' = main /\ loop' = loop
          \/ main' = "failed"
          \/ main' = "binding" /\ loop' = [l \in Loops |-> "busy"]
      BY <1>4 DEF Migrate, ListMigrations, ApplyMigration, Opened, OpenFails
    <2> QED BY <2>1, <2>2 DEF Told
  <1>5. CASE \/ (\E f \in Files : Edit(f)) \/ Hup \/ Forward \/ TakeReload \/ Reload \/ Follow
             \/ Signal \/ GraceOver
    BY <1>5 DEF Told, Edit, Hup, Forward, TakeReload, Reload, Follow, Signal, GraceOver
  <1>6. CASE TakeServerErr \/ SeeSignal
    BY <1>6 DEF Told, TakeServerErr, SeeSignal, BeginDrain
  <1>7. ASSUME NEW r \in Requests, Arrive(r) \/ Handle(r) \/ Answer(r) \/ NotifyEnds(r)
        PROVE  Told'
    <2>1. UNCHANGED <<main, loop, draining, cancelled>>
      BY <1>7 DEF Arrive, Handle, Answer, NotifyEnds
    <2>2. background' \subseteq background \cup {r}
      BY <1>7 DEF Arrive, Handle, Answer, NotifyEnds
    <2> QED BY <2>1, <2>2 DEF Told
  <1>8. ASSUME NEW l \in Loops, LoopStep(l) PROVE Told'
    <2>1. UNCHANGED <<main, draining, cancelled, background>>
      BY <1>8 DEF LoopStep, Work, WorkEnds, LoopReturns
    <2>2. \A k \in Loops : loop'[k] = loop[k] \/ loop'[k] \in {"busy", "idle", "done"}
      BY <1>8 DEF LoopStep, Work, WorkEnds, LoopReturns, TypeOK
    <2> QED BY <2>1, <2>2 DEF Told
  <1>9. CASE \/ \E s \in ServerNames : ServeFails(s)
             \/ \E i \in DOMAIN Servers : CloseListener(i) \/ ShutdownReturns(i)
    BY <1>9 DEF Told, ServeFails, CloseListener, ShutdownReturns
  <1>10. CASE CancelWorkers \/ LoopsDone \/ WaitBackground
    BY <1>10 DEF Told, CancelWorkers, LoopsDone, WaitBackground
  <1> QED BY <1>1, <1>2, <1>3, <1>4, <1>5, <1>6, <1>7, <1>8, <1>9, <1>10
         DEF Next, MainStep, Starters

LEMMA ReloadComingInductive == Migrating /\ ReloadComing /\ [Next]_vars => ReloadComing'
  <1> SUFFICES ASSUME Migrating, ReloadComing, [Next]_vars PROVE ReloadComing'
    OBVIOUS
  <1>1. CASE \/ UNCHANGED vars \/ (\E f \in Files : Edit(f)) \/ Signal \/ GraceOver
             \/ \E s \in ServerNames : ServeFails(s)
             \/ \E i \in DOMAIN Servers : CloseListener(i) \/ ShutdownReturns(i)
             \/ \E r \in Requests : Arrive(r) \/ Handle(r) \/ Answer(r) \/ NotifyEnds(r)
             \/ \E l \in Loops : LoopStep(l)
    <2>1. UNCHANGED <<main, reloading>>
      BY <1>1 DEF vars, Edit, Signal, GraceOver, ServeFails, CloseListener, ShutdownReturns,
                  Arrive, Handle, Answer, NotifyEnds, LoopStep, Work, WorkEnds, LoopReturns
    <2> QED BY <2>1 DEF ReloadComing
  <1>2. CASE Start \/ Reload \/ SeeSignal \/ TakeServerErr \/ Crash
    BY <1>2 DEF ReloadComing, Start, Fresh, Reload, SeeSignal, TakeServerErr,
                ReloadsAbandoned, Crash
  <1>3. CASE Hup \/ Forward
    BY <1>3 DEF ReloadComing, Hup, Forward
  <1>4. CASE TakeReload
    BY <1>4 DEF ReloadComing, TakeReload
  <1>5. CASE Follow \/ CancelWorkers \/ LoopsDone \/ WaitBackground
    BY <1>5 DEF ReloadComing, Follow, CancelWorkers, LoopsDone, WaitBackground
  <1>6. CASE Load \/ Bind
    BY <1>6 DEF ReloadComing, Load, Bind, ReloadsAbandoned
  <1>7. ASSUME NEW s \in Starters, Migrate(s) PROVE ReloadComing'
    <2>1. UNCHANGED reloading
      BY <1>7 DEF Migrate, ListMigrations, ApplyMigration, Opened
    <2>2. main' = main \/ main = "opening"
      BY <1>7 DEF Migrate, ListMigrations, ApplyMigration, Opened, OpenFails, Migrating
    <2> QED BY <2>1, <2>2 DEF ReloadComing
  <1> QED BY <1>1, <1>2, <1>3, <1>4, <1>5, <1>6, <1>7 DEF Next, MainStep, Starters

\* While the process is told to stop, or a listener has failed, whatever it
\* waits for can act without a client, an upstream job or the grace timer:
\* there is no point of the shutdown at which everyone waits (run, drainHTTP,
\* BeginDrain, WaitBackground).
THEOREM StopNeverWedged == Spec => []StopGoesOn
  <1>1. Init => Told
    BY DEF Init, Told
  <1>2. TypeOK /\ Told /\ [Next]_vars => Told'
    BY ToldInductive
  <1>3. ProcessInv => TypeOK
    BY DEF ProcessInv
  <1>4. TypeOK /\ Told => StopGoesOn
    <2> SUFFICES ASSUME TypeOK, Told PROVE StopGoesOn
      OBVIOUS
    <2>1. ASSUME main = "draining", ~\A s \in ServerNames : server[s] = "down"
          PROVE  \E i \in DOMAIN Servers :
                   /\ \A j \in 1 .. i - 1 : server[Servers[j]] = "down"
                   /\ \/ server[Servers[i]] \in {"open", "deaf"}
                      \/ server[Servers[i]] = "closing" /\ Served(Servers[i])
      <3> DEFINE up == {i \in DOMAIN Servers : server[Servers[i]] # "down"}
      <3>1. DOMAIN Servers = 1 .. Len(Servers) /\ Len(Servers) \in Nat
        BY ProcessAssumption
      <3>2. up \subseteq Nat /\ up # {}
        BY <2>1, <3>1 DEF ServerNames
      <3>3. PICK i \in up : \A j \in up : i <= j
        BY <3>2, SmallestMember
      <3>4. ASSUME NEW j \in 1 .. i - 1 PROVE server[Servers[j]] = "down"
        BY <3>1, <3>3, <3>4
      <3>5. server[Servers[i]] \in {"open", "deaf", "closing"}
        BY <3>3 DEF TypeOK, ServerNames
      <3>6. Served(Servers[i])
        BY <2>1 DEF Served, Told
      <3> QED BY <3>3, <3>4, <3>5, <3>6
    <2>2. ASSUME main \in {"stopping", "failing"}, NEW l \in Loops
          PROVE  loop[l] \in {"busy", "done"} \/ (loop[l] = "idle" /\ cancelled)
      BY <2>2 DEF TypeOK, Told
    <2> QED BY <2>1, <2>2 DEF StopGoesOn, Told
  <1> QED BY <1>1, <1>2, <1>3, <1>4, ProcessInvariant, PTL DEF Spec

\* However SIGHUPs coalesce in the two channels of one and fall between the
\* steps of a reload, one that came after the file was last read still has its
\* reload on the way (serveFromConfig, Reload).
THEOREM NoReloadLost == Spec => []ReloadComing
  <1>1. Init => ReloadComing
    BY DEF Init, ReloadComing
  <1>2. Migrating /\ ReloadComing /\ [Next]_vars => ReloadComing'
    BY ReloadComingInductive
  <1>3. ProcessInv => Migrating
    BY DEF ProcessInv
  <1> QED BY <1>1, <1>2, <1>3, ProcessInvariant, PTL DEF Spec
=============================================================================
