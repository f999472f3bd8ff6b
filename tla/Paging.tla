------------------------------- MODULE Paging -------------------------------
(***************************************************************************)
(* Listing requests page by page: GET /v1/requests and the runs of a       *)
(* schedule (internal/api/handlers.go, internal/store/jobs.go).  A client  *)
(* follows next_cursor until there is none, while jobs are inserted, move  *)
(* on and are pruned.  created_at is the host's clock in milliseconds,     *)
(* which may stand still or step back; rowid is SQLite's.                  *)
(***************************************************************************)
EXTENDS Integers, Sequences, FiniteSets, SequencesExt, FiniteSetsExt

CONSTANTS
  Jobs,       \* requests the client's key, or the schedule, ever has
  Times,      \* bound: the milliseconds created_at may show, 1 .. Times
  Since, Until,   \* the window filters, inclusive and exclusive
  Limit       \* the page size

ASSUME PagingAssumption ==
  /\ IsFiniteSet(Jobs) /\ Times \in Nat \ {0} /\ Limit \in Nat \ {0}
  /\ Since \in Int /\ Until \in Int

VARIABLES
  rows,     \* the jobs table
  fresh,    \* jobs not inserted yet
  states,   \* the state filter of the listing: the states it lets through
  reader,   \* the client: whether it is paging, its cursor and what it got
  steady    \* history: the jobs that have matched since the first page

listingVars == <<rows, fresh, states, reader, steady>>

Top == [at |-> Times + 1, seq |-> 0]        \* no cursor: before every row
MkRow(j, at, seq, state) == [job |-> j, at |-> at, seq |-> seq, state |-> state]
MkReader(pc, cursor, got) == [pc |-> pc, cursor |-> cursor, got |-> got]
-----------------------------------------------------------------------------
\* insertJob; a new rowid is one above the largest in use, so the rowid of a
\* pruned newest row comes back.
NextSeq == 1 + Max({0} \cup {r.seq : r \in rows})

Insert(j, at) ==
  /\ j \in fresh
  /\ fresh' = fresh \ {j}
  /\ rows' = rows \cup {MkRow(j, at, NextSeq, "live")}
  /\ UNCHANGED <<states, reader, steady>>

\* ListFilter.clauses: the filters, and the rows strictly after the cursor.
Matches(r) == r.state \in states /\ r.at >= Since /\ r.at < Until

AfterByTime(r, c) == r.at < c.at            \* mutant: no tie-break
AfterLoose(r, c) ==                         \* mutant: the cursor's row again
  r.at < c.at \/ (r.at = c.at /\ r.seq <= c.seq)
After(r, c) == r.at < c.at \/ (r.at = c.at /\ r.seq < c.seq)

\* ORDER BY created_at DESC, rowid DESC: a row's place is given by the rows
\* ahead of it.
Newer(s, r) == s.at > r.at \/ (s.at = r.at /\ s.seq > r.seq)
Ahead(S, r) == {s \in S : Newer(s, r)}
Ordered(S) == [k \in 1 .. Cardinality(S) |-> CHOOSE r \in S : Cardinality(Ahead(S, r)) = k - 1]

Upto(s, n) == SubSeq(s, 1, IF n < Len(s) THEN n ELSE Len(s))
ListJobs(c, limit) == Upto(Ordered({r \in rows : Matches(r) /\ After(r, c)}), limit)

IdsOf(page) == [i \in DOMAIN page |-> page[i].job]

\* writeJobPage: one row more than asked for tells whether there is more.
HasMore(page) == Len(page) > Limit

CursorOf(items) == [at |-> Last(items).at, seq |-> Last(items).seq]

Still == {r.job : r \in {r \in rows : Matches(r)}}

Page ==
  /\ reader.pc = "paging"
  /\ LET page == ListJobs(reader.cursor, Limit + 1)
         items == Upto(page, Limit)
         got == reader.got \o IdsOf(items)
     IN reader' = IF HasMore(page) THEN MkReader("paging", CursorOf(items), got)
                  ELSE MkReader("done", reader.cursor, got)
  /\ steady' = IF reader.cursor = Top THEN Still ELSE steady
  /\ UNCHANGED <<rows, fresh, states>>

\* A job ends, which may move it out of the filter or into it.
RowEnds(r) ==
  /\ r.state = "live"
  /\ rows' = (rows \ {r}) \cup {[r EXCEPT !.state = "ended"]}
  /\ steady' = IF "ended" \in states THEN steady ELSE steady \ {r.job}
  /\ UNCHANGED <<fresh, states, reader>>

\* Retention deletes an ended job.
PruneRow(r) ==
  /\ r.state = "ended"
  /\ rows' = rows \ {r}
  /\ steady' = steady \ {r.job}
  /\ UNCHANGED <<fresh, states, reader>>
-----------------------------------------------------------------------------
PagingInit ==
  /\ rows = {} /\ fresh = Jobs
  /\ states \in {{"live"}, {"ended"}, {"live", "ended"}}
  /\ reader = MkReader("paging", Top, <<>>)
  /\ steady = {}

PagingNext ==
  \/ \E j \in Jobs, at \in 1 .. Times : Insert(j, at)
  \/ Page
  \/ \E r \in rows : RowEnds(r) \/ PruneRow(r)

PagingSpec == PagingInit /\ [][PagingNext]_listingVars
-----------------------------------------------------------------------------
\* The sort key of a row is unique among the rows there are, whatever was
\* pruned before, so the order of a listing is total (ListJobs).
PagingTypeOK ==
  /\ \A r \in rows : r.job \in Jobs \ fresh /\ r.at \in 1 .. Times /\ r.state \in {"live", "ended"}
  /\ \A r, s \in rows : r # s => r.seq # s.seq /\ r.job # s.job
  /\ reader.got \in Seq(Jobs)
  /\ reader.cursor.at \in 1 .. Times + 1
  /\ steady \subseteq Jobs

\* docs/api.md: pages never repeat or skip a request, even when many were
\* created in the same millisecond, the clock steps back, or rowids are
\* reused: none is listed twice, and a job that matched from the first page
\* to the last is listed (ListFilter.clauses, writeJobPage).
ListedExactlyOnce ==
  /\ IsInjective(reader.got)
  /\ reader.pc = "done" => steady \subseteq ToSet(reader.got)
=============================================================================
