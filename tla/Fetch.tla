------------------------------- MODULE Fetch --------------------------------
(***************************************************************************)
(* Fetching the resolvents of one pass of an attempt: fetchAll of          *)
(* internal/worker/process.go with its feeder, its bounded set of fetchers *)
(* and its collector, over one unbuffered channel (feed), one buffered     *)
(* channel (results) and one closed on the first error (stop).             *)
(*                                                                         *)
(* What a backend would answer for a hash is fixed for the pass (bad).     *)
(* Every call has a timeout of its own, and the job's context may end at   *)
(* any time: both cut a call short with the same error.                    *)
(***************************************************************************)
EXTENDS Integers, Sequences, FiniteSets, SequencesExt, FiniteSetsExt

CONSTANTS
  Hashes,      \* parameter hashes of resolvents
  Payloads,    \* the resolvents of a document, as hashes in document order
  Fetchers,    \* resolvent_concurrency goroutines
  Idle, Exited   \* a fetcher that waits, one that has returned

ASSUME FetchAssumption ==
  /\ IsFiniteSet(Hashes) /\ IsFiniteSet(Fetchers) /\ Fetchers # {}
  /\ {Idle, Exited, "none", "series"} \cap Hashes = {} /\ Idle # Exited
  /\ Payloads \subseteq Seq(Hashes)

VARIABLES
  found,     \* hashes of the resolvents in document order
  bad,       \* hashes whose backend answers with an error
  mode,      \* the job's cache mode
  series,    \* the rows of the series cache
  fetched,   \* hashes whose backend delivered a body in this pass
  unwritten, \* ... that PutSeries failed to write
  fed,      \* the feeder's position in unique
  feedOpen,  \* the feed channel is not closed yet
  fetcher,   \* the hash each fetcher works on
  results,   \* the results channel
  got,       \* the collector's record per hash
  stop,      \* the stop channel is closed
  ctxDone,   \* the job's context has ended
  answer     \* what fetchAll returned

passVars == <<found, bad, mode, series, fetched, unwritten, fed, feedOpen, fetcher, results, got, stop, ctxDone, answer>>
given == <<found, bad, mode>>
seriesVars == <<series, fetched, unwritten>>
-----------------------------------------------------------------------------
\* uniqueByHash: the first occurrence of each hash, in document order.
Firsts(s) == {i \in DOMAIN s : \A j \in 1 .. i - 1 : s[j] # s[i]}
Rank(S, i) == Cardinality({j \in S : j <= i})
Nth(S, k) == CHOOSE i \in S : Rank(S, i) = k
UniqueByHash(s) == [k \in 1 .. Cardinality(Firsts(s)) |-> s[Nth(Firsts(s), k)]]

unique == UniqueByHash(found)
Width == Min({Cardinality(Fetchers), Len(unique)})

Errors  == {"failed", "skipped", "cancelled"}
Genuine == {"failed"}
MkResult(h, r) == [hash |-> h, is |-> r]
Reported(h) == got[h] \in Errors
Collected == {h \in Hashes : got[h] # "none"}

\* pickResolveError: the first genuine error in document order, else the
\* first error.
PickLast(e) ==       \* mutant: a later failure overwrites an earlier one
  unique[Max({i \in 1 .. Len(unique) : e[unique[i]] \in Errors})]
PickResolveError(e) ==
  LET errors  == {i \in 1 .. Len(unique) : e[unique[i]] \in Errors}
      genuine == {i \in errors : e[unique[i]] \in Genuine}
  IN  unique[Min(IF genuine # {} THEN genuine ELSE errors)]
-----------------------------------------------------------------------------
(* The feeder: feedResolvents.                                             *)

\* Its select has a fetcher waiting ...
Feed(f) ==
  /\ fed <= Len(unique)
  /\ fetcher[f] = Idle
  /\ fetcher' = [fetcher EXCEPT ![f] = unique[fed]]
  /\ fed' = fed + 1
  /\ UNCHANGED <<given, seriesVars, feedOpen, results, got, stop, ctxDone, answer>>

\* ... or a closed channel: the resolvent is reported, not fetched.
SkipsSilently(h) ==    \* mutant: a skipped resolvent is not reported
  results' = results
Skips(h) == \/ stop /\ results' = Append(results, MkResult(h, "skipped"))
            \/ ctxDone /\ results' = Append(results, MkResult(h, "cancelled"))

Skip ==
  /\ fed <= Len(unique)
  /\ stop \/ ctxDone
  /\ Skips(unique[fed])
  /\ fed' = fed + 1
  /\ UNCHANGED <<given, seriesVars, feedOpen, fetcher, got, stop, ctxDone, answer>>

CloseFeed ==
  /\ fed > Len(unique) /\ feedOpen
  /\ feedOpen' = FALSE
  /\ UNCHANGED <<given, seriesVars, fed, fetcher, results, got, stop, ctxDone, answer>>
-----------------------------------------------------------------------------
(* A fetcher: fetchLoop.                                                   *)

Delivers(f, is) ==
  /\ results' = Append(results, MkResult(fetcher[f], is))
  /\ fetcher' = [fetcher EXCEPT ![f] = Idle]

\* fetchOne up to the backend's answer: a hit under mode "use" (a read that
\* fails is a miss), a failure, the end of the call's own timeout or of the
\* job's context, which isContextErr cannot tell apart, or a body.
FetchOne(f) ==
  LET h == fetcher[f] IN
  /\ h \in Hashes \ fetched
  /\ \/ mode = "use" /\ h \in series /\ Delivers(f, "ok") /\ UNCHANGED fetched
     \/ h \in bad /\ Delivers(f, "failed") /\ UNCHANGED fetched
     \/ Delivers(f, "cancelled") /\ UNCHANGED fetched
     \/ h \notin bad /\ fetched' = fetched \cup {h} /\ UNCHANGED <<fetcher, results>>
  /\ UNCHANGED <<given, series, unwritten, fed, feedOpen, got, stop, ctxDone, answer>>

\* PutSeries, but under "bypass".  It runs under bg, which the job's context
\* does not end; when it fails that is only logged.
PutsUnderCtx(h) ==    \* mutant: a body is not written once the context ended
  IF mode = "bypass" \/ ctxDone THEN UNCHANGED <<series, unwritten>>
  ELSE series' = series \cup {h} /\ UNCHANGED unwritten
PutSeries(h) ==
  IF mode = "bypass" THEN UNCHANGED <<series, unwritten>>
  ELSE \/ series' = series \cup {h} /\ UNCHANGED unwritten
       \/ unwritten' = unwritten \cup {h} /\ UNCHANGED series

\* fetchOne's end: the body is written, then reported.
Store(f) ==
  /\ fetcher[f] \in fetched
  /\ PutSeries(fetcher[f])
  /\ Delivers(f, "ok")
  /\ UNCHANGED <<given, fetched, fed, feedOpen, got, stop, ctxDone, answer>>

Exit(f) ==
  /\ ~feedOpen /\ fetcher[f] = Idle
  /\ fetcher' = [fetcher EXCEPT ![f] = Exited]
  /\ UNCHANGED <<given, seriesVars, fed, feedOpen, results, got, stop, ctxDone, answer>>
-----------------------------------------------------------------------------
(* The collector: collectFetches.                                          *)

\* The first error closes stop, and only the first: closing twice panics.
Stops(r) == stop' = (stop \/ r.is \in Errors)

Collect ==
  /\ answer = "none" /\ results # <<>>
  /\ got' = [got EXCEPT ![Head(results).hash] = Head(results).is]
  /\ Stops(Head(results))
  /\ results' = Tail(results)
  /\ UNCHANGED <<given, seriesVars, fed, feedOpen, fetcher, ctxDone, answer>>

\* It has drained one result per unique resolvent.
DrainedEarly == Cardinality(Collected) + 1 >= Len(unique)   \* mutant: off by one
Drained == Cardinality(Collected) = Len(unique)

Return ==
  /\ answer = "none" /\ Drained
  /\ answer' = IF \E h \in Hashes : Reported(h) THEN PickResolveError(got) ELSE "series"
  /\ UNCHANGED <<given, seriesVars, fed, feedOpen, fetcher, results, got, stop, ctxDone>>

\* The job timeout fires, or the process shuts down.
CtxEnds ==
  /\ ~ctxDone
  /\ ctxDone' = TRUE
  /\ UNCHANGED <<given, seriesVars, fed, feedOpen, fetcher, results, got, stop, answer>>
-----------------------------------------------------------------------------
FetchInit ==
  /\ found \in Payloads
  /\ bad \in SUBSET Range(found)
  /\ mode \in {"use", "refresh", "bypass"}
  /\ series \in SUBSET Range(found) /\ fetched = {} /\ unwritten = {}
  /\ fed = 1 /\ feedOpen = TRUE
  /\ \E S \in SUBSET Fetchers :
       /\ Cardinality(S) = Width
       /\ fetcher = [f \in Fetchers |-> IF f \in S THEN Idle ELSE Exited]
  /\ results = <<>>
  /\ got = [h \in Hashes |-> "none"]
  /\ stop = FALSE /\ ctxDone = FALSE
  /\ answer = "none"

FetcherStep(f) == Feed(f) \/ FetchOne(f) \/ Store(f) \/ Exit(f)

FetchNext ==
  \/ \E f \in Fetchers : FetcherStep(f)
  \/ Skip \/ CloseFeed \/ Collect \/ Return \/ CtxEnds

FetchSpec == FetchInit /\ [][FetchNext]_passVars

\* Every call ends (its timeout), and the goroutines keep running.
Fairness ==
  /\ \A f \in Fetchers : WF_passVars(FetcherStep(f))
  /\ WF_passVars(Skip \/ CloseFeed) /\ WF_passVars(Collect) /\ WF_passVars(Return)

FairSpec == FetchSpec /\ Fairness
-----------------------------------------------------------------------------
InResults(h) == {i \in 1 .. Len(results) : results[i].hash = h}
At(h) == {f \in Fetchers : fetcher[f] = h}

\* Exactly one result per unique resolvent: what the feeder has passed is at
\* one fetcher, or in the channel once, or collected, and nowhere twice; so
\* the channel, sized for all of them, never blocks a sender (fetchAll).
OneResultEach ==
  \A i \in 1 .. Len(unique) :
    Cardinality(InResults(unique[i])) + Cardinality(At(unique[i]))
      + (IF got[unique[i]] = "none" THEN 0 ELSE 1)
    = IF i < fed THEN 1 ELSE 0

\* What a pass reports is true, whatever failed first in time: success only
\* with a series for every resolvent of the document, so substitution never
\* meets a missing hash; otherwise never a resolvent that was not tried, no
\* failure before the one named in document order, and nothing given up that
\* is not behind the one named or a call that was cut off (collectFetches,
\* feedResolvents, pickResolveError).
PassVerdict ==
  /\ answer = "series" => \A h \in Range(found) : got[h] = "ok"
  /\ answer \in Hashes =>
       /\ got[answer] \in {"failed", "cancelled"}
       /\ \A i \in 1 .. Len(unique) :
            /\ got[unique[i]] = "failed" => \E k \in 1 .. i : answer = unique[k] /\ got[answer] = "failed"
            /\ got[unique[i]] = "skipped" =>
                 \E k \in 1 .. i - 1 : answer = unique[k] \/ got[unique[k]] = "cancelled"

\* When fetchAll returns, every body a backend delivered was written to the
\* cache, which keeps the retry cheap: those that arrived after a sibling
\* failed, after the feeder gave up or after the job's context ended too.
\* Only a failing write loses one (fetchOne, PutSeries, collectFetches).
FetchedIsCached ==
  answer # "none" /\ mode # "bypass" => fetched \ unwritten \subseteq series

\* fetchAll returns and leaves no goroutine behind.
NoGoroutineLeft ==
  <>(answer # "none" /\ ~feedOpen /\ \A f \in Fetchers : fetcher[f] = Exited)
=============================================================================
