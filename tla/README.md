# A verification project for the retail data platform

TLA+ models of the protocols of this repository, TLC configurations that check
them on small instances, and proofs that TLAPS checks for every instance. The
source is the reference: every definition is translated from the code at the
lines `PROJECT.json` names, and paths below are relative to the repository.

## 1. The system

A retailer's operator runs command-line imports and refreshes against one
PostgreSQL database; a read-only HTTP API serves the published rows and the
materialized analysis; a browser application and a command-line client read it
with a personal OIDC login.

| Part | State it keeps | Operations | Talks to |
| --- | --- | --- | --- |
| Importers (`src/retail_data_platform/importers`, `cli.py`), eight datasets | `import_runs`; the dataset's table; a dataset's advisory lock | discover, skip a known bundle, check prerequisites, record, parse, publish, fail | database; reads other datasets' tables |
| Analytical refresh (`analytics.py`) | 17 materialized views; `analytics_refresh_runs`; one session advisory lock | try the lock, record, capture, refresh views in order, stamp, commit or fail, report freshness | database; reads all live rows |
| Publication-bound reading (`api/analysis.py`, `api/database.py`) | none: cursors carry `publication_id` | first page, next page, 409 | the views and their audit |
| Read API (`api/app.py`, `query.py`, `resources.py`) | none | list, page by key, one row | live tables |
| API limits and tokens (`api/limits.py`, `api/auth.py`) | a budget per subject; cached keys and the time of their last refresh | consume, verify | the identity provider |
| Browser session (`frontend/src/auth`) | phase, generation, credentials; the busy flow; the redirect transaction in `sessionStorage` | sign in, complete, accept, expire, log out, hide, show | the identity provider; every read |
| Read scheduler (`frontend/src/api/read-scheduler.ts`) | queue, running count, next start | run, pump, abort, deadline | `fetch` through the read API client |
| Read cache and collection (`read-queries.ts`) | pages by key, shared jobs | attempt with retries, share, page, collect | scheduler; session |
| Personal client (`personal_auth`) | the vault's session | log in, read, log out | identity provider; API |
| Views (`frontend/src/features`: sales, products, presence, activity, typologies, network, quality; `app`) | what is read, opened and turned to | mount, read, retry, open, turn, close | read cache |
| Lists (`data-explorer`, `stores`) | applied query, cursors, index, the opened row | apply, page, open, reload | read cache; the API's keyset pages |
| Filtered analyses (`features/analysis`) | draft, applied filters, publication, cursors, a history entry | search, apply, sort, page, open a sheet, reread | read cache; the browser's history |
| Exact values, months (`frontend/src/shared`) | none | parse, combine, ratio; shift, validate | features |

### How they interact

* Imports and refreshes share nothing but the database: the imports take one
  transaction lock per dataset, the refresh a session lock of its own, and a
  refresh reads one repeatable-read snapshot while imports commit.
* Readers never lock. They learn that what they read has changed from a
  `publication_id` (analysis) or from the freshness report (browser).
* In the browser every await may end after the session it started in. The
  session's *generation* is the only thing that separates them.
* A component asks the read cache, the cache shares a fetch among all who ask for
  the same, a fetch waits in the scheduler, runs in the session and ends with an
  answer, a refusal or the session. A component that is unmounted aborts its
  share only; React's *keys* say which components a new store, period, category
  or session unmounts.

### What is hard

1. Two operators publish the same dataset, or a bundle that another command has
   just published; files change between the hash and the parse.
2. A publication fails, is interrupted, or *its commit answer is lost*; the audit
   row is written in another transaction than the rows.
3. Seventeen views are refreshed one after another while imports commit; the
   list of the imports they show must be of the same snapshot.
4. Pages of one publication are collected while the next one is published; the
   publication in force is chosen by a wall clock.
5. Logouts, expiry, page-hide and the back-forward cache fall between any two
   awaits of a sign-in or a read; callbacks and 401s arrive late or twice.
6. Shared reads and caches: a reader leaves, the cache is cleared or the session
   ends between the start of a fetch, its settling and its delivery.
7. A view is left, retried or shown for something else while it reads, and its
   former promise is kept after all; the freshness it compares may have been
   asked for by somebody else.
8. Cursors, filters and pages are separate pieces of state over rows that change;
   a publication is replaced while four blocks read from it.

### What makes each part correct

* **Imports**: the live rows of a dataset always come from one run; they agree
  with the recorded statuses; a bundle succeeds at most once; nothing is
  resolved against tables that were never filled; every import ends.
* **Refresh**: the views always show one snapshot; it never goes back; a status
  of `current` means that they show what is live; one `publication_id` never
  covers pages of two publications; every refresh ends and unlocks.
* **Browser session**: an ended session stays ended; a code is exchanged once;
  results and refusals stay in their session; a hidden document keeps nothing; a
  sign-in always ends.
* **Scheduler**: nobody is forgotten, overtaken or kept waiting for nothing; the
  budget is kept.
* **Read cache**: a value never crosses sessions, a cleared value never comes
  back, a fetch runs for somebody, and nobody is cancelled by another reader.
* **Views**: what is on the screen belongs to what the view stands for now, is
  not older than the freshness beside it, and every loading ends.
* **Lists**: what is shown answers the query; a walk through the pages neither
  skips nor repeats rows that nobody touched; nothing offered is refused.
* **Filtered analyses**: what is shown together is of one publication and of the
  applied filters; a conflict is reported only when there is one; going back from
  a sheet stays on the page.

## 2. Modules

| Module | Models | Notes |
| --- | --- | --- |
| `ImportLedger` | what an import promises, abstractly: a run is accepted and replaces a dataset's live rows in one step | refined by `ImportRuns` |
| `ImportRuns` | `importers/*.py`, the part all adapters share, and `cli.py`'s commands | one process per command; datasets differ in their prerequisites, their lock and in whether they parse inside the transaction |
| `ImportRunsProofs` | theorems about `ImportRuns` | |
| `AnalyticsRegister` | what the refresh promises, abstractly: one snapshot at a time, published whole with the list of its imports, or abandoned | refined by `AnalyticsRefresh`; its imports are those of `ImportLedger` |
| `AnalyticsRefresh` | `analytics.py`, the views' dependencies (`migrations/sql`), `api/analysis.py`'s publication | two refreshes, imports, one reader |
| `AnalyticsRefreshProofs` | theorems about `AnalyticsRefresh` | |
| `SessionLife` | what `auth/session.ts` promises to those who remember a generation only | refined by `BrowserSession`; what `ReadQueries` and `ViewReads` assume |
| `BrowserSession` | `auth/session.ts`, `authentication.ts`, `browser-session.ts`, `Session.run` and `ReadApi`'s 401 | one browsing context |
| `BrowserSessionProofs` | theorems about `BrowserSession` | |
| `ReadScheduler` | `api/read-scheduler.ts` | one queue, calls of `run` as jobs |
| `ReadSchedulerProofs` | theorems about `ReadScheduler` | |
| `ReadQueries` | `api/read-queries.ts` | calls of `#shared`, their jobs, the cache |
| `ReadQueriesProofs` | theorems about `ReadQueries` | |
| `ViewReads` | the components of `features` that read, `app/FreshnessBanner.tsx`, `app/Workspace.tsx`, `auth/SessionBoundary.tsx` | a table of views and one life for all of them |
| `ViewReadsProofs` | theorems about `ViewReads` | |
| `PublishedContract` | `data-explorer/published-contract.ts`, `published-data.ts`, `quality-data.ts` | no state: 28 collections and what is made of a catalogue |
| `CollectionPages` | `data-explorer/DataExplorer.tsx`, `Quality.tsx`'s lists, `stores/Stores.tsx`, over `api/query.py` and `api/app.py` | one list, its service and the imports; extends `PublishedContract` |
| `CollectionPagesProofs` | theorems about `CollectionPages` | |
| `FilteredAnalysis` | `features/analysis` | the page, its hooks, the sheet and the history |
| `FilteredAnalysisProofs` | theorems about `FilteredAnalysis` | |
| `MC...` | model values and symmetry for TLC | |

Definitions named as faults (`PublishAppending`, `AcceptUnchecked`, ...) stand
beside the definition they would break. No specification uses them: each is a
plausible bug, and substituting it for the definition makes one property fail.

### ImportRuns

A run row is a row of `import_runs`; `ImportRuns`'s `Stage` is the place in
`import_<dataset>`: *new*, *discovered*, *recorded*, *parsed*, in the transaction,
*failing*, *done*. `Discover` hashes the files; `Skip` is the duplicate check;
`PrerequisiteMissing` and `Record` are the early return and the committed
*running* row; `Parse` reads the files again, whatever they contain by then; `AcquireLock`, `Clear`,
`ParseAndCopy`, `Publish`, `Commit` are the statements of the publication
transaction; `Rollback` and `MarkFailed` the exception path, which uses a second
connection. `CommitUnacknowledged` is a commit whose answer is lost, `Crash` the end of
the process, `ReplaceFiles` the operator. Rows are abstracted to the run
they came from and to whether a prerequisite table was filled.

### AnalyticsRefresh

`View` rows are abstracted to the version of every source they were computed
from (`TablesRead`, `ViewsRead` are the dependencies of the stored queries).
`TryLock`, `Record`, `Capture`, `RefreshView` (one per view, in
`ANALYTICAL_VIEWS` order), `Stamp`, `Commit`, `Fail`, `MarkFailed`, `Unlock` are
the statements of `refresh_analytics`; `Current` is `analytics_status`;
`FirstPage` and `NextPage` are `publication()`. `Sources` closes the dependencies
under the views that a view reads: what `AnalyticsRegister` says that a view is made
from. In the refinement the snapshot that is taken (`Taken`) is that of the one
command between its first query and the end of its transaction, and the list that is
published (`Listed`) that of the attempt whose results are shown.

### BrowserSession

JavaScript runs to its next await: an action is one such stretch. A *flow* is a
call of `signIn` or `complete`, at one of its awaits (`discovering`, `preparing`;
`binding`, `locating`, `exchanging`, `validating`); a *read* is a call of
`Session.run`. `IsCurrent` is the operation's check, expiry included, and `End`
the end of a generation. `Hide`, `Kill`, `Evict`, `Show`, `Open`, `Return` are the
document's life. The history variables `exchanges` and `cancelled` record what
the properties speak of; no guard reads them.

`SessionLife` is the contract between the session and the rest of the browser. The
modules of the readers have a session of their own, two variables that end and begin
at any time; that it is no other than this one is a refinement on both sides:
`BrowserSession` implements `SessionLife` (`ImplementsLife`), and what `ReadQueries`
and `ViewReads` assume is a `SessionLife`, too (`SessionAssumed`). `ReadQueries` also
lets its session take every step that the contract allows within a document; to the
views a session that ends before it had a login is no step.

### ReadScheduler

A job is a call of `run`; its `outcome` is that of the promise, its `work` the
operation behind it (*working*, *answered* before `finally`, *released*). Every
caller of `#pump` (`Admit`, `Abort`, `Deadline`, `Release`, `Fire`) hands it the
queue and the slots it leaves, and `Pump` is one of `Rest`, `Wait`, `Depart`. A
departure pumps again, which cannot start another job since the next start lies
`Gap` ahead. `Abort` takes any set of jobs, as an aborted session does; the
listeners run one by one, and what their pumps do in between shows only in the
departures that are forgotten (`AbortAll`). `elapsed` is what `setTimeout`
measures, `wall` is `Date.now()`; a timer may fire late. `departed` is history.

### ReadQueries

A *call* is a call of `#shared`, a *job* the promise chain that the first caller
creates. JavaScript runs to its next await, so each link of the chain is an action:
`Load` (the transport), `Settle` (`.then` and `.catch`), `Close` (`.finally`),
`Deliver` (each consumer), `Copy` (a cached value). `fillers` are the jobs begun
under the present `#cacheVersion`; `Forget` makes all others strangers to the cache.
`NoticeChange` is a collection whose second freshness report differs, and
`ClearAfterRefusal` an analysis whose publication was refused. Which entries the
limits of size evict, and whether an entry's thirty seconds are over, is left open.
A value carries the version of the server's data and the session it was read in,
which is what the properties compare; no guard reads them.

### ViewReads

All views work alike, so each is a row of a table - its tab, the components it lies
in, the order of its reads, whether it is guarded against a database that was
never published, whether rows are turned in it - and the life of a view is the
state machine: `Mount` (React's key: a fresh state, what lay beneath unmounted, the
effect begins), `Unmount`, `Answer`, `Fail`, `AnswerStatus`, `Conclude`. An effect that
was replaced stays as an aborted run that may still finish (`Late`). All freshness
reports go through the one fetch that the cache shares (`Fetch`): a reader may be
answered by a fetch that began before he asked. `Key` is what a component stands
for: session, store and period, and the rows it was opened from.
`TableAssumption` says what the table has in common - a forest, rows for every view
to turn, two reports around what is collected - and has no constants: TLC's
evaluation decides it. A further view is a further row, if it keeps to that.

### CollectionPages

The service is a set of rows in order, its page the rows beyond a cursor
(`Beyond`, `FirstOf`), a cursor the last row with the filters of its query, and
`Refuses` what `statement_for` does with another query's cursor. The screen has the
applied query, the cursors that led to its page and the opened row; `Request`
is the string that its state is compared with, and `Current` what is shown.
`Import` changes any row between any two reads. `walk` and `touched` are history.
`Variants` are the catalogues the service may advertise; `PublishedContract` decides
which of them are accepted. The contract keeps of every collection what selects
rows (keys in order, filters, which of them may be null) and the kinds of its
values; `ContractAssumption` is evaluated with the module: every collection's rows
can be opened and decoded, and its own catalogue is understood.

### FilteredAnalysis

Each use of `useAnalysis` is a *slot*: `Wanted` is the key that the page renders for
it, `flight` the request its last effect sent, `held` the answer with the key it came
for, and `ShownUnder` what is shown. A user's act changes the state and leaves its
effects due (`unflushed`), which React runs before the next task; an answer
renders first and its effects follow later, so that answers may fall in between.
`memory` is what the workspace keeps while another view is shown. `Deliver` is the
hook's `.then` and `.catch`: a 409 is the page's. The sheet has its row (`lookups`,
one request each), its history entry (`marker`, `entries`, `at`) and the traversals
that were asked for and not yet made (`asked`): `history.back()` and the browser's
buttons only queue one, any number of them at any time (`MaxAsked` bounds it), and each
starts from the entry that is current when its turn comes (`Arrive`). One that leads
off the page's entries finds nothing, or another document (`Depart`), and then the
page-hide handler ends the session. `Searched` is what of a draft narrows the search of
stores: its dimensions, not its months or its selection.

## 3. Runs

| Run | Instance | Shows |
| --- | --- | --- |
| `ImportSafety` | two commands, stores and typologies, two bundles, replaced files, failures, crashes, lost answers | live rows and recorded statuses agree; the ledger is implemented: one source per dataset, one success per bundle |
| `ImportRegister` | products, stores, register; stable files, no lost answers; fairness | prerequisites hold for whatever is live; every recorded import ends |
| `ImportLostAnswer` | as `ImportSafety` with lost answers | the disagreement of section 5 |
| `RefreshSafety` | two refreshes, imports in between, a reader, failures and crashes | one snapshot, freshness, pages; the register is implemented |
| `RefreshFaults` | two refreshes and an import with lost answers and a clock set back; fairness | refreshes end and unlock |
| `SessionSafety` | three flows, one read, three instants, a settable clock, the back-forward cache; fairness | all safety properties of the session; sign-ins end |
| `SchedulerSafety` | three jobs for two slots, any shared aborts, a settable clock | nothing forgotten or out of order |
| `SchedulerSpacing` | three jobs, a full queue, a window that binds, a true clock; fairness | budget, no needless waiting; nobody waits for ever |
| `QueriesSafety` | three calls, two analyses and a collection, two sessions, two versions | isolation, sharing and the cache |
| `ViewsSafety` | the views of the summary and of the typologies (three levels deep), the banner, two stores, two publications, a new session; fairness | what is on the screen; nobody who loads is forgotten; every loading ends |
| `PagesSafety` | a list of each screen, five rows, pages of two, an import, every catalogue; fairness | the walk through the pages |
| `AnalysisSafety` | five acts, two filters, two publications, two readings of two pages | one publication, cursors, conflicts, the way back |

Deadlock checking is off where the behaviours of the instance may be used up: the
commands, the refreshes, the flows, the calls or the bounded acts.

### Bounds

* **Imports.** Every race is between two commands on one dataset or on a
  dataset and its prerequisite, so two commands and two datasets; two bundles
  tell "the same" from "another"; runs bound the audit, and three of them
  allow a failure, a success and a repetition. The register run has one bundle
  and three runs: the adapter whose transaction parses, with both catalogues it needs.
* **Refresh.** All seventeen views, in their order. Two refreshers race for the
  lock, with one attempt each; two datasets with unequal dependents, two or three
  imports that may fall between any two views; one reader.
* **Session.** Any race is between a flow, its successor and whatever ends
  the session; the third flow lets a callback be opened again after a
  superseded sign-in. Two instants separate before an expiry and at it; with a
  third and `Day = 1` a clock that was set back makes an expiry too far away. `MaxCached`
  bounds the generations after which a document may still go into the cache.
* **Scheduler.** A job that runs, one that waits behind it and one that overtakes
  or is aborted with it need three; `SchedulerSpacing` admits one to the queue, so that it is full. In the
  code sixty departures a second apart fill the window exactly, so it binds only
  after a clock step; the instances choose `Window > MaxStarts * Gap` so that it
  binds with a true clock, too. `MaxTime` lets a window pass.

* **Queries.** Two calls share a job and the third is a stranger, a second consumer too
  many or a successor; one entry of the cache makes every second one evict; two
  sessions and two versions tell "the same" from "another".
* **Views.** Four effects: a view, the banner, what is opened in it and one
  repetition. The summary has a view that only reads, one that the user opens and
  one with two collections; the typologies have all that others have (lists,
  nested details, references). The other tabs are rows of the same table.
* **Pages.** Pages of one or two rows over five rows, one missing at first, make three pages or more; one import
  between any two reads and four reads; the stores, a collection bound to a
  store and one of the audits have all three kinds of screen.
* **Analysis.** Five acts reach an applied ranking, its second page or a sheet, and
  leave acts to disturb it. Going back and coming back to the view are not counted;
  two traversals at a time are a first one and one that overlaps it.

The proofs need none of these bounds.

## 4. Fairness

* `ImportRegister`, `RefreshFaults`: a command that runs goes on (weak
  fairness of its next statement); the operating system and PostgreSQL's lock
  queue give it that. Crashes, lost answers and file changes are never owed.
* `SessionSafety`: every await of a flow settles, if only by the ten-second
  `AbortSignal.timeout` of its request, and the expiry timer fires in an open
  document. Logouts, hiding and the provider owe nothing; its safety properties
  hold without fairness.
* `SchedulerSpacing`: time passes and deadlines fire; reads owe nothing.
* `ViewsSafety`, `PagesSafety`: promises settle (`WF_vars(Turn)`), since every
  request has its timeout and the scheduler its deadlines; which one settles is
  free. The user and the server owe nothing.
* `QueriesSafety`, `AnalysisSafety`: none. `NothingHangs` says without fairness that
  whoever loads has a request out.

## 5. Where the code and its documents differ

One difference is a run that TLC finds violated, with the sentence it contradicts in
`PROJECT.json`:

1. `ImportLostAnswer`: the exception path of an import writes *failed* over a
   *succeeded* it has just committed when the commit's answer is lost; the
   bundle is then published again, against `docs/architecture.md:393`.

Others were met while modelling. The modules contain the behaviour, and the
properties are stated so that they hold with it or with the fault left out by a
constant:

2. `importers/stores.py:244` hashes the files and reads them again for parsing; files
   replaced in between are published under the old checksum, and the new files
   again under their own. (`ReplaceFiles`; with it `NotRepublished` fails.)
3. `api/analysis.py:44` chooses the publication in force by the latest wall-clock
   time, so after a clock step back an old `publication_id` is accepted over the
   new views, against `docs/filtered-analysis-api.md:54`. (`SetClockBack`; with it
   `PagesFromOnePublication` fails.)
4. An import recorded as failed by a lost answer is missing from the set of
   successful runs, and the status stays `current` over changed rows, against
   `docs/monthly-analytics.md:186`. (`AcksLost`; with it `CurrentIsLive` fails.)
5. The spacing of reads is measured with `Date.now()`: after the clock is set
   forward the next read departs at once. `BudgetKept` and its companions are for a
   clock that nobody sets.
6. `docs/architecture.md:175` says that freshness checks surround every page. The
   closing check may join a fetch that another reader began before the page was
   read (`read-queries.ts:136`), so two equal reports do not prove that nothing was
   published in between. What holds is weaker: rows are never older than the
   freshness shown with them (`NotOlderThanFreshness`).
7. `FilteredAnalysis.tsx:140`: nothing stops a second press of "Retour" before the
   first traversal is done. It goes back once more, off the page, and the session ends
   with the analysis, against `docs/saas/product.md:41` ("Conserver période et sélection
   lors du passage au détail et au retour"). The model presses as often as it likes;
   `ReturnStaysHere` holds for the presses that found no other traversal under way
   (`alone`), and fails at once without that condition.

## 6. Proofs

All proofs are checked by TLAPS with SMT, Zenon and the temporal back end, for
any number of commands, runs, refreshes, flows, reads and jobs, and any bounds. Their
only assumptions are the named ones on the constants (distinct model values,
numeric bounds), which TLC evaluates on every run.

* `ImportRunsProofs`: `Invariance` proves `IInv`. None of the
  safety properties is inductive: what is live follows from who holds the lock of the dataset
  and what its open transaction has done, so the invariant states, for each
  stage, which locks are held and what is uncommitted. Type correctness, one
  source per dataset, one success per bundle, prerequisites, the agreement of
  rows, statuses and audit, and the refinement of `ImportLedger`
  follow; the runs keep those that no other implies. `LocksAreReleased` is the safety
  half of `EveryImportEnds`: a lock is held by an open transaction, never by who waits.
* `AnalyticsRefreshProofs`: `IInv` (under every fault) says that views of a running
  refresh are computed from its snapshot alone and that the lock's holder is the
  only one in that stretch; `FaultFreeInv` adds what only holds
  without lost answers and clock steps and gives freshness and the reader's
  property. `RegisterImplemented` proves the refinement of `AnalyticsRegister` under
  every fault. `IInv` is too weak for it, since it bounds what a view was computed
  from: `ExactInv` says that a refreshed view holds *all* that its sources name, which
  needs the order of the seventeen views (`DependenciesAlwaysReady`) and that
  `Sources` is closed under what they read (`SourcesClosed`). `Capture` is `Take`,
  both commits are `Publish`, and whatever ends a transaction otherwise is `Abandon`;
  all other steps stutter. `LockNeverOrphaned` is the safety half of `RefreshEnds`:
  however a command ends, the lock is released or the session is gone.
* `BrowserSessionProofs`: `IInv` adds to the properties that a running flow of
  the current generation is the busy one and not cancelled, that an in-flight read
  of the current generation reads for whoever is signed in, that a gone document
  runs nothing, and that a transaction is in storage, held by one flow, or
  spent. One lemma per action, one step per conjunct; every way a
  session ends goes through the lemma `EndKeeps`. `LifeImplemented` maps every step to
  a step of `SessionLife`: what ends a generation to `End` (`EndIsEnd`), the acceptance
  of a sign-in, which finds no login (`PhaseInv`), to `Accept`, and the steps of
  documents to `Discard` and `Open`, which find none either (`NothingLeftBehind`).
* `ReadSchedulerProofs`: the callers of the pump prove `Consistent`, what they hand over; the
  pump turns that into `IInv`, under any clock. `SyncInv` adds, for a clock that
  nobody sets, that `#starts` and `#nextStart` tell the truth about departures;
  spacing and budget follow, and the converse (`NoNeedlessWait`): before the
  timer fires, one of the two forbids a departure (`ReadyForbids`).
* `ReadQueriesProofs`: `IInv` says of each key's job that it is of the present
  session, runs, was not aborted and has a consumer; that every other running job was
  aborted; that whoever waits is served by such a job or has its outcome; and that
  whatever may still fill the cache was begun after the last noticed change. The
  last two are what the cache's freshness and the sessions' isolation need and
  the properties do not say. `SessionIsThatOfTheBrowser` is the assumed session's
  refinement of `SessionLife`, here and in `ViewReadsProofs`.
* `CollectionPagesProofs`: `IInv` says that the walked rows lie between the cursors
  that led on and are all that no import touched (`WalkSound`), that an answer's
  cursor leads over no such row (`LeadsOver`), and that a run which was not aborted
  reads what is asked for now. The page of the service is treated by lemmas about
  first and last rows (`FirstAreFirst`, `PageIsSound`). That nothing offered is refused
  also needs `ContractAssumption`, the facts about the 28 collections that TLC
  evaluates, and that lists are of known collections. `LoadingIsReading` is the safety
  half of `LoadingEnds`: a list that loads has just one live effect, which reads what
  is asked for now. Every act begins one and ends the others (`RestartReads`).
* `FilteredAnalysisProofs`: `IInv` says that answers are of the publication that
  their key demanded (`AnswersSound`), that cursors are those of the applied analysis
  (`RankingSound`), that the first read never uses a key twice (`FirstReadSound`: a
  repetition counts up, and a view that is left forgets), so that requests that are
  out demand the publication in force (`DemandsCurrent`), and that whatever is not out
  any more was answered (`Answered`). The sheet and the history have an invariant of
  their own (`SheetSound`), which the hooks do not disturb: a "Retour" that was pressed
  alone is the next traversal and has an entry to go to (`AskedSound`), whatever is asked
  for, opened or left meanwhile. A document that was left is a new one (`BlankSound`). All six properties follow.
* `ViewReadsProofs`: of the table only `TableAssumption` is used. `IInv` says that all
  that a mounted view lies in shows rows, not only its parent (`AllAboveReady`); that a
  live effect is the only one of its view, in its present context, and the view loads
  (`RunsAreAwaited`, `OneRunPerView`); that its first report is no later than what it
  collected (`RunsInOrder`), whoever began the fetch that answered it; and that only a
  view that shows rows has turned its page (`TurnedExists`). Mounting, leaving,
  navigating and turning go through one lemma (`Restructured`), answers and failures
  through another (`Told`). All five invariants follow; `NobodyForgotten`, the safety
  half of `LoadingEnds`, is itself inductive beside `IInv`. Its hard case is the shared
  fetch: effects end, begin and go on by the set, and `Fetch` must be open just when
  somebody among them waits (`FetchShared`); an answer to all closes it, and whoever
  goes on reads something else first (`ReadOrders`: there is a step between the two
  reports), so nobody is left to wait for the closed fetch.

Only model-checked: liveness under fairness, which the prover does not handle
(`EveryImportEnds`, `RefreshEnds`, `SignInEnds`, `WaitingEnds` and the two
`LoadingEnds`; the safety halves of all six are proved: `LocksAreReleased`,
`LockNeverOrphaned`, `BusyFlowIsCurrent`, `NothingIsForgotten`, `LoadingIsReading`,
`NobodyIsForgotten`), and the disagreement of section 5. Every other property of a
passing run is a theorem. The types of each module are a conjunct of its invariant,
which no run repeats.

## 7. Not modelled

* Row formats and identity resolution (validation of text and lookups in one
  snapshot, pure functions with unit tests); the typology rules that assortments
  reference, one SQL statement.
* What the SQL of the views computes: data, not control.
* `api/limits.py`, `api/auth.py`: each a single critical section. `personal_auth`:
  processes that share a keyring whose atomicity is unknown.
* Exact decimals, months and the charts made of them: pure functions.
* Retries within a job of `ReadQueries` and the page-by-page loop of `collect`: a
  job has one outcome. Pages that come back smaller are in `CollectionPages`.
* The panel of a store's reference (`StoreDetail.tsx:79`), which has no key: it outlives
  its tab and its period, unlike whatever else reads. The earlier report that the
  freshness banner goes on showing while it asks again.
* Presentation, wording, focus, sorting of what is on the screen, migrations, scripts.

Next would come a composition of `ReadQueries` with `ReadScheduler`.

Simplifications to keep in mind: `BrowserSession` has one document at a time, so
a document in the back-forward cache does not coexist with the provider's
callback in another, nor do duplicated tabs share a copied transaction; `ImportRuns`
does not model which customer or product a row is resolved to; `ViewReads` lets every
view of a table be opened for one thing at a time, and shows one of the three
collections of typologies; `FilteredAnalysis` leaves out the dimension pickers and
the availability table, which read as the search and the blocks do.
