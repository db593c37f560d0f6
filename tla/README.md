# TLA+ models of galning

galning archives the GitHub audit log of one organisation in a BigQuery table
(`galning-ingest`) and lets users download the events of their teams'
repositories (`galning-query`). The repository has no tests; the modules here
are translated from the Go code and from the script of the query page, and the
comments, README and labels of the repository are read as claims to check.

Contents: [inventory](#inventory), [modules](#modules), [runs](#runs),
[fairness](#fairness), [proofs](#proofs), [disagreements](#where-code-and-words-disagree),
[assumptions](#what-is-assumed-of-the-outside), [not modelled](#what-is-not-modelled),
[plan](#plan).

## Inventory

| part | code | state it keeps | operations |
|---|---|---|---|
| ingest loop | `internal/ingest/loop.go` | locals of a run: token, cursor, `buf`, `lastCursor` | `StartLoop`, `Run`, `saveCursor`, `DryRun` |
| audit-log client | `internal/github/audit_client.go` | next-page URL, request attempt | `AuditEvents`, `doWithRetry`, rate-limit pause, `parseLinkNext` |
| ingest authorization | `internal/oauth/handler.go`, `state.go` | state nonces | `Authorize`, `Callback`, `exchange` |
| token store | `internal/oauth/tokens.go` | latest version of one secret: token **and** cursor | `Load`, `Save` |
| archive writer | `internal/ingest/bigquery.go` | the table | `Insert`, `toRow`, table creation |
| archive query | `internal/query/bigquery.go` | none | `Query`, `actionClause` |
| query login | `internal/oauth/query_handler.go`, `state.go`, `session.go` | nonces, sessions, and a cookie in each browser | `Login`, `Callback`, `Lookup`, `Logout` |
| query requests | `query_handler.go`, `session.go` | team and repository caches per session | `Teams`, `Repos`, `Run` |
| query form | the script in `query_handler.go` | picker, checkbox list, button | fetch, pick, toggle, submit |
| user client | `internal/github/user_client.go` | next-page URL | `Teams`, `TeamRepos`, `get` |
| metrics | `internal/metrics` | two counters per process | `IngestRunsTotal`, `EventsArchivedTotal` |
| config, logging, mains | `config`, `logging`, `cmd` | environment | |

How they interact. The loop and the authorization handlers of the ingest
service share the secret, which is read at the start of a run and written as a
whole: by the loop with a new cursor, by the handlers with a new token. The
loop reads GitHub and inserts into the Archive; the query service only reads
the Archive. The handlers of the query service share the session store and,
per session, the caches; the script in the browser calls `Teams` and `Repos`
and posts to `Run`; an answer of either server may be lost, for it stops writing
10 s after a request and GitHub is given 15 s per page.

What is hard: two ingest processes during a rolling update; a crash or a failed
call between an insert and the save of its cursor; calls that fail after they
have taken effect; a new authorization in the middle of a run; a token that
stops working; the tail of the log, which never fills a batch; rows inserted
twice; lists that change while they are read page by page; caches filled by
several requests at once; sessions, cookies and nonces that expire at different
times; answers that reach the browser out of order or not at all; counters that are
added up by hand along every way a run can end. `PROJECT.json` lists the
places under `hazards`, with the properties that cover each.

What makes each part correct:

- *ingest*: no run skips an event; a run that counts as a success has caught
  up; batches stay bounded; every event is archived in the end; the cursor
  advances; the token survives.
- *archive over days*: a day that is over and archived is complete and never
  changes again; the counter of events and that of failures agree.
- *archive and query*: only what was asked for, nothing missing unless marked,
  and then the newest; marked exactly if the limit was reached.
- *login*: one session per login; ended and idle sessions stay ended; active
  ones do not end.
- *requests*: only the user's own teams and their repositories.
- *form and page*: what is offered is what requests are checked against, what
  is submitted is what is shown, what is dropped was not the team's; a team said
  to be empty was so since it was picked; no loading message stays for ever.
- *lists*: complete, or an error.

## Modules

| module | models | checked by |
|---|---|---|
| `AuditArchive` | abstract specification: an append-only archive with a resume point | refinement from `Ingest` |
| `Ingest` | loop, audit-log client, token store, authorization, table, processes | `MCIngest` |
| `Archiving` | `Ingest` with days, rows with their dates, and the counters | `MCArchiving` |
| `ArchiveQuery` | inserted rows, form filters, the SQL query | `MCArchiveQuery` |
| `QuerySessions` | abstract specification: logins that open sessions, which serve until closed or idle | refinement from `QueryLogin` |
| `QueryLogin` | nonces, sessions, cookies, time, lost answers, restarts | `MCQueryLogin` |
| `QueryRequests` | `Teams`, `Repos`, `Run` over the session caches | `MCQueryRequests` |
| `QueryForm` | the page's script, whatever it is answered | `MCQueryForm` |
| `QueryPage` | `QueryForm` in front of `QueryRequests`, lost answers | `MCQueryPage` |
| `UserPages` | paged lists of teams and repositories, the Link header | `MCUserPages` |
| `IngestProofs`, `ArchivingProofs`, `ArchiveQueryProofs`, `QueryLoginProofs`, `QueryRequestsProofs`, `QueryPageProofs`, `UserPagesProofs` | theorems about these | tlapm |

Definitions marked "Mutant of X" directly before X are faulty variants of X (a
dropped guard, a wrong variable); no specification uses them. Each was put in
place of X to see that the property it aims at notices.

### Ingest

Audit Events are the numbers 1, 2, ... in GitHub's `order=asc`, and a cursor is
the number of the last event of the page whose Link header carried it; 0 is the
empty cursor. `expired` is the retention window's lower end. One action is one
call that leaves the process, with the local computation up to the next:

| action | code |
|---|---|
| `Authorize`, `Callback`, `Exchange`, `SaveTokens`, `SaveTokensFails` | the two handlers of `handler.go`; the nonce lives in one process (`home`) |
| `Boot`, `Crash` | `main`; a crash also stands for SIGTERM, since `main` does not wait for the loop |
| `StartRun` | the first run, or a tick of the ticker |
| `LoadPair`, `NotAuthorised`, `LoadFails` | `loop.go:25-36` |
| `RateLimited`, `TokenRefused`, `FetchFails`, `EmptyPage` | `doWithRetry` and the loop in `AuditEvents` |
| `BufferPage`, `FillBatch` | the callback, `loop.go:44-50`, for a page that leaves `buf` below or at a batch |
| `InsertBatch`, `InsertFails`, `SaveBatchCursor`, `SaveBatchFails` | `loop.go:50-65` |
| `FlushNothing`, `FlushRest`, `FlushFails`, `SaveLastCursor`, `SaveLastFails` | `loop.go:72-88` |

`pc` is the place of a process between two calls and `run` its locals. `result`
is the label the last run incremented, `goal` remembers how many events existed
when it started. The failing variants of `Insert` and `Save` may or may not
have had their effect.

### Archiving

Extends `Ingest`: every action is an action of `Ingest` together with what it
does to `rows` (pairs of an event and the day it is filed under, `CreatedAt`),
to the counters (`Count`) and to the history variable `settled`, the last day on
which a successful run started. The counters live and die with their process.
They grow for ever, so the model keeps the difference that matters: `behind` is
the number of events in the inserts of a process that took effect less its
`EventsArchivedTotal`, and `failed` says whether `IngestRunsTotal` has counted a
failure. As in the code, an event counts each time it is handed to BigQuery, also
when its row is there already or is dropped as a repeat.

### ArchiveQuery

The table is a set of rows, several per event (`copy`). `Insert` adds rows for
any set of events, also again, except those BigQuery drops by insert ID; an
event without timestamp is stamped with `now`. `Filters` is `parseFilters`,
`Where`, `Qualify`, `Newest` are the clauses of the statement, and `Selected`
composes them in SQL's order. `Asked` states in calendar days what `Filters`
and `InPeriod` state in instants; the last tick of a day is its last
nanosecond.

### QueryLogin, QueryRequests, UserPages

`QueryLogin`: a tick is ten minutes. One action is one critical section of the
nonce map or of the session map, so that the exchange lies between `Callback`
and `OpenSession` and a logout between its `Lookup` and its `Delete`. The service
does not note which client a nonce was issued to, so any client may bring any
nonce to `Callback`. A browser drops a cookie when its Max-Age is over; a member
of `Script` does not. The Max-Age counts from the receipt of the answer, seconds
after the session was opened: below a tick, so `OpenSession` is one action. An
answer that sets or clears a cookie may not arrive (`SetSessionCookie`), while
the server has done its part.

`QueryRequests`: a request slot goes through the places of a handler; reading a
cache, asking GitHub for one page and writing the cache are separate actions.
`unread` is what a request has still to read of its list: `AskTeams` and
`AskRepos` read any part of it as a page, and when the list changes in between,
`PagesShift` moves items over the page boundaries (`Shifted`): a new item may
come into the unread part or push another into it, and when one is removed from
the pages that have been read, the next page may miss one that was there all
along. `UserPages` has the same loop with page numbers. The boxes a client posts
are any `Text`. An empty list is nil, thus the same as no list. What the three
handlers have in common after the teams and after the repositories is
`WithTeams` and `WithRepos`. `wasMember` and `wasGranted` remember what GitHub
has said since the login.

`UserPages`: a URL is the page it asks for and whether it is `whole`; an entry
of the Link header that is not the first one loses that in `NextUrl`. A page is
appended in any order (`Collected`), since the sort at the end forgets it;
`Answer` is that sort, as the rearrangements that are in order.

### QueryForm and QueryPage

`QueryForm` is the script alone. `pending` holds the outstanding fetches, each
with the number of its pick; `boxes` the checkboxes with the pick whose answer
brought them; lists come from anywhere.

`QueryPage` puts `QueryRequests` behind it for one user, as an instance with a
slot per pick and slot 0 (`Main`) for `/query/teams` and then the submissions.
A pick is `Pick` together with `Receive`, an answer is `Finish` together with
`TeamsArrive`, `ReposArrive` or `EmptyListArrives`; `TeamsFail` or `FetchFails`
may come instead of any answer, also of one that was given. Handlers go on after
a logout, and a fetch without a session fails. `kept`, `bare`, `shown`,
`overlapped` and `late` are history: what GitHub has granted all along to teams
that lost nothing while their list was being read (`Torn`), the picks of a team
that had nothing since, the list at the last submission, the teams two requests
were made for at once, and whether an answer to an earlier pick has come in
since the last one.

## Runs

| run | bounds | shows |
|---|---|---|
| `ingest_overlap` | 2 processes, 1 flow, pages of 1, batches of 2, 3 events, 1 fault | `ResumePointCovered`, `RunCovers`, `SuccessMeansCaughtUp`, `ImplementsArchive` |
| `ingest_progress` | 1 process, 2 flows (one token may stop working), pages of 1, batches of 2, 3 events, 1 fault | `BufferBounded`, `LagBounded`, `CursorNeverGoesBack`, `RunsEnd`, `EventuallyArchived` |
| `archiving` | 1 process, 2 flows, pages of 1, batches of 2, 2 events, 1 fault, 2 days | `PastIsComplete`, `PastIsFinal`, `CountersAgree` |
| `query_login` | a browser and a script, 2 nonces, 2 sessions, 7 ticks, 1 restart | `OneSessionPerLogin`, `CookieHasSession`, `EndedStaysEnded`, `ImplementsSessions` |
| `query_requests` | 2 requests of one user, 2 teams, 1 repository, 1 other text posted, 1 change | `OwnTeamOnly`, `CachesAreOwn` |
| `query_page` | 2 teams, 2 repositories, 2 picks, 1 change, initial states as in `Start` | `EnabledMeansListed`, `OffersAreCached`, `RunIsAsShown`, `DroppedWasNotGranted`, `EmptyIsFresh`, `LoadingEnds` |
| `user_pages` | up to 4 items in any order, pages of 1, 1 change | `StillListIsExact`, `AdditionsLoseNothing`, `OnlyListedAndWanted`, `CallsEnd` |
| `archive_query` | 4 events, 2 rows each, 2 days of 2 ticks, results of 2 rows | `OnlyAsked`, `NothingMissing`, `NewestKept`, `MarkedAtLimit` |

and one short run per disagreement (below). The type invariant of each module
is checked in one run, but for those of `QueryForm` and `QueryPage`, which are
proved (`PageTypeCorrect`) and not run. `archiving` has 1.4,
`query_requests` 1.3, `archive_query` 0.8 and `query_page` 0.5 million states; each
takes from half a minute to three minutes, the others less.

Why the bounds are enough for the cases that matter. *Ingest*: three events
with batches of two give a full batch, a tail and an empty last page; a batch of two
pages makes `lastCursor` be set, reset at the batch and overwritten at the end,
and a run that finds one event and an empty page saves it. Larger pages
(two events, batches of three, four events) were tried and take minutes
instead of seconds without adding a place or an action. Two processes and one fault show
every overlap of one insert and one save with a whole run of the other. The
safety properties are proved without these bounds. *Archiving*: two events
make one batch or two tails; the fault or the second authorization has an event
inserted twice, and the midnight lies anywhere, so that an event without a date
may be stamped with either day. The fault may also end a run as a failure after
events have been written. *QueryLogin*: seven ticks are
two session lifetimes and more, which is what a cookie that outlives its
session, or the other way round, takes. *QueryRequests*: two slots are the
smallest number with an overlap, two teams the smallest with a wrong one; the change
comes before, between or after the two, or between two pages of a list.
*QueryPage*: two picks are a reordering, or the overlap of a fetch with a
submission for the same team; one change makes two answers for one team differ.
`Start` (`MCQueryPage`) bounds the initial states: the user starts in the first
team if in any, and only that team starts with more than one repository; of
states that differ in the names of repositories one is taken. Two repositories
are two pages of one. *UserPages*: a middle
page needs three pages. *ArchiveQuery*: three rows of two events against a
limit of two tell LIMIT before from LIMIT after QUALIFY; an event at the last
tick of a day tells midnight from the end of the day.

Symmetry is used over processes (`ingest_overlap`), flows (`archiving`), nonces
and session IDs (`query_login`) and requests (`query_requests`), and only where
no liveness is checked. Deadlock is checked except in `query_requests` and
`query_page` (the user may have logged out for good) and `query_form_stale` (a
page whose teams did not load stays as it is).

## Fairness

`Ingest!Fairness` is weak fairness of the steps each process takes of its own
accord: the ticker fires for ever, Kubernetes restarts the pod, and every call
has a client-side timeout or returns. Which way a call ends is free; the number
of failures is bounded (`MaxFaults`), so `EventuallyArchived` says that the
service recovers from a failure in any place; after the last one it is enough that
the stored token is one GitHub accepts. Nothing is
assumed of people or of GitHub. `UserPages!FairSpec` has the same for requests,
which time out after 15 s. `QueryPage!PFairSpec` is weak fairness of one action,
`FetchStep`: while fetches are under way, that for the teams or those for
repositories, one of them moves on. Every page of GitHub arrives or times out,
and the browser gets the answer or an error. That is weaker than fairness of
each fetch and is enough, because there are only so many fetches (`MaxPicks`) of
so many steps each. Nothing is assumed of the user, of the submissions or of
GitHub's changes. All other runs check safety only and assume none.

## Proofs

Every safety property of the runs above is a theorem, for all values of the
constants that satisfy the assumptions of the modules: sizes and limits are
natural numbers and not 0, marks such as `NoUrl` are not members of the sets
they mark the absence in, and GitHub has finitely many teams, repositories and
(in `ArchiveQuery`) events. Three statements have one more hypothesis, that
there is one process; with two they are false.

- `TypeCorrect`: `TypeOK` is inductive. It says more than types, for instance
  that no cursor or buffered event is ahead of `published`; the action of each
  step needs it to know that a page ends where the model says.
- `RunsCover`, `NoEventSkipped`, `SuccessIsComplete`. None of the three
  invariants is inductive alone: that the stored cursor is covered after a save
  needs that the run's position was, that needs that the run started from a
  covered cursor, and the label needs what the flush knows. `Safe` is their
  conjunction. `StageCovers` is the strengthening: before each place of a run
  every event up to its position is archived, buffered or expired, `next` and
  `last` are behind the position, `buf` is empty at a save, and at the flush
  all that existed at the start has been read. The lemma `LoopSafe` reduces a
  step to what it does to its own process and the secret, `Stable` covers all
  others (rows and expiries only accumulate).
- `BatchesAreBounded`: inductive once `buf` is known to be below a batch
  wherever another page may be added (`SmallBuffers`).
- `IngestImplementsArchive`: under `resume <- secret.cursor` every step is an
  `Append`, a `Resume`, a step of GitHub, or a stutter; the only step that needs
  an invariant is the save, whose cursor `StageCovers` shows to be settled.
- `CursorAdvances`, for one process (`\A p, q \in Replica : p = q`): the cursor a
  run loaded and the two it may save (`next`, `last`) are empty or not behind
  the stored one (`RunAhead`); an authorization in the middle of a run clears
  the stored one and so keeps this. With two processes it is false.
- `LagIsBounded`, for one process. The property speaks of a finished run, but
  what bounds it is in the middle of one: `Near` says that a run's buffer holds
  all unexpired events between the stored cursor and its position, so that
  `BufferBounded` bounds these too, and that from the flush on the stored cursor
  is that near to where the run got (`Few`). A run begins at the stored cursor unless an
  authorization clears it meanwhile, and with one authorization there is none
  while a run goes on: no run begins without a token, and every token comes from
  a flow that is over (`TokensFromFlows`).
- `ArchivingIsIngest`: `Archiving` takes only steps of `Ingest`, so all of the
  above carries over. `CountersTellTheSame` follows from `Counting`: `total` is at
  most `behind`, the same until a run has failed, and 0 between runs. `PastStaysComplete` needs `Safe` of
  `Ingest` and `Dated`: what is archived with a date is under that date, no date
  lies in the future, and what happened before the day on which a run started is
  among the events it has to read. `PastStaysFinal`, for one process, rests on
  `Known`: what a buffer still holds of the days before the last successful
  start has its row already, because it had been archived by then. A second
  process might hold an event that has left the retention window since.
- `ArchiveQuery`, for every form, every Archive and every length of a day:
  `ResultsAreAsked`, `NothingIsMissing`, `NewestAreKept` and
  `MarkTellsTheLimit`. Two lemmas about the quotient by `DayTicks` relate instants
  to calendar days, and from them `WhereIsWhatWasAsked`: the clause selects
  exactly the rows that were asked for. `HowAnswered` says of a result that it is
  all of QUALIFY's rows or the newest of them; that these can be counted against
  the limit needs that they are finitely many, one per event
  (`QualifiedIsFinite`), and so the assumption that events are.
- `QueryLogin`, for any number of clients, logins and ticks and both lifetimes:
  `LoginsOpenOne` from `NoncesOnce` (a nonce is in the map, in one exchange, or
  has opened one session, never two of these), `EndedForGood` from
  `SessionsKnown`, `CookiesHaveSessions` from
  `CookiesBacked` (a live cookie expires no later than its session).
  `LoginImplementsSessions` puts them together: under `begun <- issued`,
  `closed <- ended` a login is a `Begin`, an exchange an `Open` (by
  `NoncesOnce`), a request that finds its session a `Use` (by `Sliding`: a
  session in the map expires a lifetime after its last use), a `Delete` or a
  restart a `Close`, and everything else a stutter. `IdleSessionsStayOut` is a
  consequence of the abstract service alone.
  `ActiveAreServed` is the converse, from `NoneForgotten` (only an end or
  idleness takes a session out of the map): the server keeps the sliding
  lifetime it documents, so what `ActiveStaysLoggedIn` finds is the cookie alone.
- `QueryRequests`, for any number of sessions and concurrent requests:
  `TypeCorrect` says that only GitHub's own names are cached and queried; it
  needs `UnreadIsListed`, that what a request has left to read is in the list as
  it is now, also after `PagesShift`. `AnswersAreOwn` and `CachesStayOwn` are
  inductive together with what each place of a handler knows and with
  `HistoryCovers` (what GitHub says now is in the history of every session that
  has been opened, and the caches of the others are empty).
- `QueryPage`, for any number of teams, picks and changes: `PageIsForm` and
  `PageUsesService` say that the composition takes only steps of its two parts.
  `Structure` ties them together: only the first request asks for the teams, the
  picker offers what is cached (`PickerOffersCache`), each fetch has its slot.
  `SubmissionIsAsShown`
  rests on `Settled`: as long as no two requests for a team are in flight at
  once, its cache is filled once, every answer is the cache, and so is the
  list. `DropsAreExcused` needs no such thing: what GitHub has granted all along
  is in every list a handler holds (`ListsHaveKept`) and, while a list is being
  read, in what has been read and what is left of it (`ReadingHasKept`); only a
  repository lost in the middle of that breaks it, and so `kept` forgets the
  team then. `EmptyMessageIsFresh` is inductive with `NothingRead` (before its
  first page a request has the whole list to read, so an empty answer means an
  empty list at that moment) and `EmptyIsBare`, which carries it to the answer.
  What `QueryRequestsProofs` proves of the
  handlers is used through an instance; `PageAssumption` gives the assumptions
  on its constants.

- `UserPages`, for lists and pages of any size and any number of changes. The
  loop is told by `Ahead`, the part of the list *as it is now* behind the pages
  that have been read: `AdditionsAreHarmless` from `NoneSkipped` (what the list
  had at the start is collected or ahead; an insertion moves nothing out of
  `Ahead`, a removal may), `StillListsAreExact` from `ExactSoFar` (what is
  collected and what is ahead are disjoint and together all that is wanted),
  `NothingForeign` from `Sourced`. The lemma `PagesFact` shows by the quotient
  that there is a next page exactly if something is ahead.

Only model-checked: liveness (`RunsEnd`, `EventuallyArchived`, `CallsEnd`,
`LoadingEnds`), which is out of the prover's reach.

## Where code and words disagree

Each has a run that ends in a counterexample.

| property | said | done |
|---|---|---|
| `TokenPreserved` | `loop.go:99` "preserving the existing access token" | a run that started before a new authorization saves its old token over the new one |
| `ActiveStaysLoggedIn` | `session.go:10-11` sliding lifetime | the cookie is not renewed; the browser drops it 30 minutes after the login |
| `ListShowsPickedTeam` | `query_handler.go:490-491` that team's repos are shown | a late answer appends another team's |
| `NextIsUrl` | `audit_client.go:236` extracts the URL of `rel="next"` | an entry after a comma keeps its `<` |

The first one bounds what can be claimed elsewhere: `EventuallyArchived` excepts
a stored token that GitHub has stopped accepting.

Seen while modelling and visible in one definition, so without a run of its
own:

- The flush of a run's last pages leaves the cursor where it was (`FlushRest`):
  `lastCursor` is overwritten by the empty cursor of the last page, although the
  repository's `README.md:20` says that the cursor is updated after every
  successful batch. The next run reads the tail again; `LagBounded` is the weaker
  statement that does hold of the cursor.
- A run that has no token or cannot load it ends without a label
  (`NotAuthorised`, `LoadFails`; `metrics.go:9` counts "Ingest Runs, labelled by
  result").
- `EventsArchivedTotal` is described as "Total number of Audit Events written to
  the Archive across all Ingest Runs" (`metrics.go:17`) and is neither a lower nor
  an upper bound of that (`Count`): a run that fails counts none of the events it
  has written, while a run that succeeds counts the tail of the log again that
  earlier runs have inserted, and rows that BigQuery drops as repeats.
  `CountersAgree` is what holds: with the failure counter at 0, every event that
  finished runs have handed to BigQuery is counted.
- An empty list is nil and fetched again by every request (`TeamsMissing`,
  `ReposMissing`; `query_handler.go:181` says on first call). `EmptyIsFresh` is
  the good side of it.
- The message about a team without repositories is not tied to the picked team
  either (`EmptyListArrives`, `query_handler.go:682-686`): a late answer to an
  earlier pick says of the team picked now what was true of the other.
  `EmptyIsFresh` excepts late answers.
- A list of two or more pages that loses a repository while it is read may miss
  another one (`PagesShift`, `user_client.go:78-100`), and the handlers cache it
  so. `DroppedWasNotGranted` excepts it.
- A list that was appended twice (`ListShowsPickedTeam`) has two boxes for a
  shared repository: unchecking one of them leaves it in the query.
- The dry run's message names `/internal/api/authorize` (`loop.go:126`), where
  the route is `/ingest/authorize` (`cmd/ingest/main.go`).

## What is assumed of the outside

- GitHub: events appear in the audit log in the order of their timestamps and
  on the day of their timestamp, so none comes in after midnight with the date of
  the day before (`APublish`; without this `PastIsComplete` and `PastIsFinal` would
  not hold, whatever the code does); pages in `order=asc` without gaps; a `rel="next"` link whenever more
  events exist, perhaps one on a full last page, none on a short one, and first
  in the header of the audit log; numbered pages for teams and repositories,
  with "next" before "last" in the header; lists that change by one item at a
  time.
- Browsers: the Max-Age of a cookie starts with the receipt of the answer, less
  than a tick of ten minutes after the session was opened.
- BigQuery: a `Put` adds all rows or none, possibly although it reports an
  error; equal insert IDs may or may not be recognised; a query sees one state
  of the table.
- Secret Manager: versions are totally ordered, `latest` reads the newest.

## What is not modelled

- `DryRun`, `RecentAuditEvents` and the in-memory store: local testing, no
  shared state.
- `config`, `logging`, HTML and styling, the echo of the query in a result; the
  filter box and the count of checked boxes, which are neither posted nor read.
- Time inside a request. What it leads to is modelled: calls that fail and
  answers that are lost while the handler has gone on.
- The order of the HTTP shutdown: no service waits for its loop or keeps
  anything across it.
- How GitHub reads a query string with two `after` parameters, which is what a
  stored next-page URL leads to; `Ingest` takes the cursor for the position it
  names.

## Plan

1. Done: the core (`AuditArchive`, `Ingest`, `QuerySessions`, `QueryLogin`, `QueryRequests`,
   `QueryForm`, `UserPages`, `ArchiveQuery`); the compositions (`Archiving`,
   `QueryPage`); the proofs listed above.
2. `Archiving` composed with `ArchiveQuery`: the answer to a query about a past
   day never changes, stated over query results instead of days.
3. Proofs: done for every safety property of the runs; next those of 2.
