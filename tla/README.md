# A verification project for igotopia-task

TLA+ models of the lead-search application in this repository, TLC configurations that check
them on small instances, and TLAPS proofs, for every value of the constants, about all of it.
Every invariant and action property that a passing run checks, and both refinements, are
theorems; liveness stays with TLC. Paths below are relative to the repository: its program is under `src/`, its
development mock under `mocks/`, its documentation is `README.md`.

## 1. The system

A user of an organization starts a search. The web process checks the session and the rate
limit, charges one credit and inserts a job in one Postgres transaction, and puts an entry in a
Redis (BullMQ) queue. A separate worker process takes the entry, runs the *discover* stage
(candidates become leads), moves the job on and enqueues the *verify* stage, which scores or
rejects each lead and completes the job. The browser polls the job and its activity log, and
lists the leads in an inbox. A cancel gives the credit back. A sweeper in the worker re-enqueues
jobs whose queue entry is missing. In development a mock (MSW) answers in place of the server.

| Component | State it keeps | Operations | Interacts through |
|---|---|---|---|
| Money transactions (`core/services/search-service.ts`, `cancelJob` in `core/repositories/job-repository.ts`) | `organizations.credits`, `jobs`, `credit_ledger` | `startSearch`, `cancelJob` | Postgres rows and row locks; the enqueue after the commit |
| State machine (`core/worker/state-machine.ts`) | none | `isTerminal`, `canTransition` | called by the stages and `onFailed` |
| Pipeline worker (`core/worker/stages`, `runner.ts`, `delay.ts`, `lead-repository.ts`) | `jobs.status`, counts, `leads` | `runDiscoverStage`, `runVerifyStage`, `onFailed`, start and stop | rows; BullMQ callbacks |
| Sweeper, producer (`core/worker/sweeper.ts`, `core/queue`) | BullMQ entries | `runSweep`, `enqueueDiscover`, `enqueueVerify` | rows, queues |
| Job events, activity log (`job-event-repository.ts`, `JobTimeline.tsx`) | `job_events` | `appendJobEvent`, the polled list | best-effort inserts by all of the above |
| Rate limiter (`core/services/rate-limiter.ts`) | one Redis counter with a TTL per organization | `enforceSearchRateLimit` | runs before the charge |
| Sessions, tenancy, routes (`core/auth`, `app/api`) | `sessions`, `memberships` | sign in and out, switch organization, `requireContext` | every route |
| Browser: session (`SessionProvider.tsx`, `OrgScope.tsx`, `Sidebar.tsx`, `login/page.tsx`, `layout.tsx`) | the adopted `/api/me`, the route, forms | hydrate, refresh, sign in and out, choose an organization | HTTP; remounts the pages |
| Browser: polling (`use-polling.ts`, `JobProgress.tsx`) | a chain of requests with its refs | mount, tick, retry, cancel | HTTP |
| Browser: search form (`search/page.tsx`, `idempotency.ts`, `api.ts`) | the key in `sessionStorage`, cards, message, cooldown | submit, retry | HTTP; refreshes the session |
| Browser: overview, inbox (`(app)/page.tsx`, `inbox/page.tsx`) | the fetched lists, filters, sort, page | load, filter, sort, leaf, open a row | HTTP, `?job=` |
| Providers (`core/providers`) | none | mock discover and verify, scoring | called by the stages |
| Mock API (`mocks/db.ts`, `mocks/handlers.ts`) | an in-memory store | the routes of the API | the browser |
| Schemas, serializers, database client, configuration, logging, seed, deployment | settings, fixtures | - | - |

What makes each correct, and what is hard about it:

- *Money*: no credit is created or lost; one job and one charge per organization and
  idempotency key; cancelled means refunded once; `balance_after` is a running balance; no two
  transactions wait for each other for ever. Hard: READ COMMITTED interleavings, a death between
  two statements or after the commit, retries, a worker that writes the same rows.
- *Pipeline*: a completed job has all its leads settled and counted; a settled lead keeps its
  verdict; a refunded job is never delivered; every job ends. Hard: at-least-once delivery, a
  handler that has lost its lock and goes on beside its successor, crashes, retries and sweeps
  at any await, a cancel at any await.
- *Job events*: the log tells of no end that did not happen, and its poll ends. Hard: appends
  are best-effort and come after the change they report.
- *Rate limiter*: at most N searches per window; the window always ends. Hard: two Redis
  commands, interleaved with those of other calls, and a death between them.
- *Sessions*: revoked access is gone at once; an ended session stays ended. Hard: the session,
  the organization and the membership are read and written by separate statements.
- *Browser*: one submit is charged once and reported; what is shown belongs to the organization
  that heads it; one request per poll; nothing waits for ever. Hard: answers that are lost or
  late, refs shared by chains, remounts, several tabs over one cookie.
- *Inbox*: every lead of a filter is on exactly one page. Hard: two lists read at different
  moments, a filter from the URL, effects that run after the render.
- *Providers*: at most 50 candidates, a junk contact for each company, scores that are the sum
  of their factors. Hard: the cap falls after the guarantee, the clamp after the sum.
- *Mock*: it charges as the API does, and its two views of a job agree. Hard: awaits between
  the session and the act, progress derived from the clock in two places.

`PROJECT.json` lists every component with its status, and every hazard at its line.

## 2. Modules

| Module | Models |
|---|---|
| `JobStatus` | the statuses of a job, the terminal ones, the declared transitions |
| `CreditLedger` | abstract: a search (organization, key) is charged at most once, and refunded at most once if charged, each in one atomic step |
| `SearchTransactions` | `startSearch` and `cancelJob` statement by statement, interleaved with each other and with the worker's writes; implements `CreditLedger` |
| `Pipeline` | the stage handlers, BullMQ entries, `onFailed`, the sweeper, cancel, crashes |
| `RateLimiter` | the window of searches of an organization, command by command |
| `SearchForm` | extends `RateLimiter`: the form, its key, the route and the answer, in several tabs |
| `Polling` | `usePolling`, one mounted hook |
| `JobView` | two instances of `Polling` (card and log) over a job, its events and its cancel button |
| `Session` | session rows, memberships and routes; the tab's session, gates, forms and page loads |
| `Providers` | mock discovery and scoring, as operators |
| `Inbox` | extends `Providers`: leads found and settled, read and shown by the overview and the inbox |
| `MockApi` | extends `Providers` and `JobStatus`: the mock's store and handlers; implements `CreditLedger` |
| `MCSearchTransactions`, `MCPipeline`, `MCSearchForm`, `MCInbox`, `MCMockApi` | the instances for TLC (`JobView` and `Session` need no definitions and are checked as they are) |
| `SearchTransactionsProofs` (with the ledger), `PipelineProofs`, `SearchFormProofs` (with the limiter), `SessionProofs`, `PollingProofs`, `JobViewProofs`, `InboxProofs` (with the providers), `MockApiProofs` | TLAPS proofs |

Composition: `SearchForm` takes `startSearch` as one step, by the contract `SearchTransactions`
checks; `Pipeline` takes both money transactions so; `JobView` takes from the job what
`Pipeline` lets it do. An operator whose comment begins "Mutant of" is a plausible bug, used only
to see that a property can fail.

### SearchTransactions

`credits`, `jobs` and `ledger` are the committed rows. A call of either route has a program
counter `pc`, which is the statement of its transaction it has reached, what it was asked
(`req`), the credits its UPDATE returned (`balance`), and the body it answered (`answer`).
Uncommitted writes and locks follow from `pc`: `SlotLocked` is the wait of `INSERT ... ON
CONFLICT` for an equal key in flight, `OrgLocked` and `JobLocked` are the row locks of the two
UPDATEs. A commit is one step that publishes everything. `Abort` is a rollback at any statement,
`LoseAnswer` a death after the commit. `Advance`, `ReadForFail` and `WriteFail` are what the
worker may do to the same job row (`advanceJobStatus`, and the read and the write of `onFailed`).

| Code | Action |
|---|---|
| insert of the job, conflict or not | `Submit`, `InsertJob` |
| select of the existing job | `Replay` |
| `UPDATE organizations ... credits >= 1` | `ChargeCredit`, or `Refuse` when no row matches |
| ledger insert and commit | `CommitStart` |
| flip of the job in `cancelJob` | `FlipJob` |
| refund, ledger insert, commit | `RefundCredit`, `CommitCancel` |
| re-read in the cancel route | `Reread` |

Left out: the user id and the request body, and the event and the enqueue after the commit
(`Pipeline` has the enqueue, `JobView` the event).

### Pipeline

Per job: `status`, `leads` (a state per candidate), `counts`, `refunded`; per queue and job one
BullMQ `entry`; per entry `Slots` handlers that may run at once (`run`); the pending `onfailed`
callback; the stages the sweeps in flight have still to enqueue (`sweep`). Each await of a
handler is an action named after what it calls. The two money transactions are single steps here (`Submit`,
`Cancel`), which `SearchTransactions` justifies. `Crash` loses handlers, callbacks and sweeps,
and leaves entries active, which `RecoverStalled` gives back; a statement of `onFailed` that
throws is such a crash, since nobody awaits it and an unhandled rejection ends the process.
`LoseLock` lets a handler go on while its entry is redelivered.

Abstractions, with their reasons:

- A throw after a statement took effect is a throw at the next one.
- The provider's answer for a job is fixed (`found`): the mock is seeded by job id and request.
- Ended entries stay. BullMQ keeps 1000 completed and 5000 failed ones (`producer.ts:12-13`).
- `getJob` and `add` of the sweeper are one step, because `add` of an id that is there does nothing.
- BullMQ's backoff, and the 10 s of the sweep, are any time.
- Score, factors, reasons, timestamps and events are data no property here tells apart.
- Job rows are never deleted by the code, so the handlers' "job not found" return has no state.

### RateLimiter and SearchForm

`RateLimiter` keeps the counter of each organization (`count`), whether its key has a TTL
(`expiring`), and where each call stands (`at`). `Incr` and `PExpire` are the two commands,
`Expire` is Redis, `Die` the end of the web process, or a failed command, at a step of `MayDie`: a
call that dies before its PEXPIRE is `endless`, for the counter it made has no end. `window` is history:
the calls the counter stands for. Time is abstract: a key with a TTL may go at any moment. PTTL
only words the wait a blocked call is told, and is left out.

`SearchForm` extends it. The tabs of a browser share the session cookie, and with it
`sessionOrg`, by which the server acts; each has its own `/api/me` (`me`), by which the form
picks the key, and its own `sessionStorage` (`stored`). A call runs through `Submit`,
`Context` (requireContext), `Limit`, and `RespondLimited`, `RespondFailed`, `Replay` or `Charge`;
in the browser through `Accepted`, `Insufficient`, `TooMany` or `Failed`, and the refresh that
follows. `Failed` may happen at any time while the server goes on: an answer that is lost.
`RefreshMe` (a card that settles), `RemoveJob` ("Try again"), `CooldownOver`, `Leave` and
`SwitchOrg` are the rest of the page. The history `round` counts the acknowledged searches of a
tab and organization, and so says which submits belong to one search. A random key is named by
the call that mints it, a job by the call that inserts it. Left out: the validation message of a
form without companies, which sends nothing, and the body: startSearch compares only the key, so
an edited request under a kept key is answered with the first job.

### Polling and JobView

`poll` is the state of one hook: its chains (each off, with a request out, with an answer on its
way, or with a timer), the refs (`cancelled`, `backoff`, and `current`, the chain that the timer
and the abort controller belong to) and the React state. `Started` and `CleanedUp` are the effect
and its cleanup. The key of a hook never changes in this program (a card is keyed by its job),
so what re-runs the effect is strict mode (`Remount`). `Read` is the moment the server answers,
`Deliver` that of the browser, `Reject` a failure or an abort. An abort while the body is read
is swallowed by `api.ts:73` (`.json().catch(() => null)`) and is not an AbortError any more;
`Ignored` says so.

`JobView` instantiates it twice over one job. The job does what `Pipeline` lets it do (`Work`,
`ReadForFail`, `WriteFail`, `CancelJob`); each end owes an event (`pending`), which `Append`
inserts later or never. `ClickCancel`, `ServeCancel`, `CancelAnswered` and `CancelFailed` are the
cancel button and its route. Only events that end a log are told apart.

### Session

Server: `members`, the session `rows`, and the calls in flight, each at its next statement:
`resolve` (resolveSession), `member` (isMember), `query`, `update` (setSessionActiveOrg), `list`
(buildMe), `login`, `insert`, `delete`. `Expire` and `Revoke` may happen between any two.
Tab: `cookie`, `status` and `me` of the SessionProvider, the `route`, the `form` of the login
page, and `view`, the page in the app with its two lists. What is mounted follows from the
session and the route (`Scope`, `Screen`): `Render` mounts the page anew where the key of
OrgScope changes, and drops its calls. `GateToApp` and `GateToLogin` are the two redirects. A
call that changes the session may go on when the browser has given it up (`LeftBehind`). The two
lists of a load are calls of their own, joined by Promise.all (`LoadDone`, `LoadFailed`).
`crossed` is history: a call that changes the session overlapped another, or was lost. `excused`
marks a tenant call that was on its way when a membership was revoked.

### Providers and Inbox

`Providers` has mock-discover and mock-verify as operators. The dice of the seeded generator are
an argument, so a check covers all of them. A company is the kind of domain its slug gives, or a
sentinel; a title is the set of tiers it matches. `Inbox` inserts what `Discover` returns
(`Find`), settles it by `Verify` (`Settle`), and models the overview and the inbox over their
copies: `ReadJobs` and `ReadLeads` are the two requests, read at different moments; the filters,
the sort, the pages and the open rows are the controls, each of which goes through `Show`, with
the effect that resets the page. Rows of one insert have equal timestamps and may be listed in
any order (`Listings`). `filter` is `Picked`, the elements at the indices that pass.

### MockApi

One store and handlers that await their body (`Await`) between the session and the act. A job
keeps its creation time; `StatusOf`, `Counts` and `Listed` are the functions of the clock that
`GET /api/jobs/:id` and `GET /api/leads` answer with. The mock has no cancel route, no events
and no rate limiter, so neither has the model.

## 3. Runs

| Run | Instance | Shows |
|---|---|---|
| `search_safety` | 2 organizations with 1 credit each, 2 keys, 2 submits, 2 cancels | all safety properties of the money path, and that it implements `CreditLedger` |
| `search_progress` | 1 organization with 1 credit, 2 keys, 2 submits, 2 cancels | `CallsEnd`: every call that arrived ends |
| `pipeline_safety` | 1 job, 2 candidates (one accepted), 2 slots, 2 attempts, 2 crashes or lost locks, a throw amid the scoring | leads, counts, status and refund stay consistent |
| `pipeline_liveness` | 1 job, 0 or 2 candidates, 1 slot, 2 attempts, 1 crash or failing sweep | `EveryJobEnds`, where no failure hits a hand-off |
| `pipeline_handoff` | as above, only `enqueueVerify` may throw | violated: see section 5 |
| `pipeline_terminal` | only the provider or the insert may throw | violated |
| `search_form` | 2 organizations with 2 credits each, 2 tabs, 3 submits, a cap of 1, deaths before INCR and PEXPIRE, failing refreshes; no switch while a search is unacknowledged, no page left amid a submit | `ChargedOnce`, `AcceptedJobOfThisSearch`, `WindowHolds` (`WindowCap` and `WindowFixed`), `SubmitsReported` |
| `form_twice` | 2 submits, switches at any time | violated |
| `session` | 2 organizations, 2 tokens, one session call at a time beside the two of a load; a refresh, a login or a switch may be lost | `RevokedMeansNoData`, `ShownBelongs`, `SessionsByLogin`, `NothingHangs` |
| `jobview` | one job, `MAX_BACKOFF_STEPS` 1, strict mode | `OneRequestEach`, `LogTruthful`, `EndStaysShown`, `ViewSettles` |
| `inbox` | 2 searches, a cap of 2 candidates, 1 or 2 contacts a company, pages of 2 rows | `PagesAddUp`, `ScoreExplained`, `JunkUnlessCut`, `HiddenFilterIsEmpty` |
| `mock` | 2 users, 2 organizations (2 and 1 credits), 1 key or none, 2 handlers, 2 jobs, 5 ticks | `JobAgreesWithLeads`, `ImplementsLedger`, `ProgressForward` |

Why the bounds are enough.

- *search, pipeline.* One credit makes two submits compete for it and lets a refund be spent
  again; two submits cover a same-key double submit, two keys that want one credit, and a retry
  after a lost answer; two cancels cover a double cancel and cancels from the wrong organization.
  Jobs share nothing in the pipeline, so one job suffices; two slots give the overlap of a
  handler that lost its lock with its successor; two attempts have a retry and an exhausted
  failure (the code has 5); with two faults an entry stalls once too often. Two candidates let a
  tally fall between two verdicts.
- *search_form.* Two credits mean that a search charged twice has the credit for it; three
  submits are a first, its retry and a successor, or two tabs and a retry; a cap of 1 blocks the
  second call of a window.
- *session.* One session call at a time, because calls that cross are excused by `crossed` in
  the one property they could break; what was lost or left behind still overlaps with the next.
  Two calls at a time were also checked (5 million states) and hold.
- *jobview.* With a backoff of 1 a poll fails once, then parks; strict mode gives the second
  chain, and more than two never overlap.
- *inbox.* A cap of 2 cuts the contacts of two companies at any place. The action constraint
  `WorkerWhenRead` puts a step of the worker off until a load is about to read the leads: no
  step of a page looks at the server's leads in between, so no state of a page is lost. Factors
  and tiers are covered for all candidates by the theorem `ScoreIsSum`.
- *mock.* Thresholds 1, 3 and 5 give each phase a tick inside and one at its border.

Calls, tabs, organizations, keys and slots are interchangeable in the code; symmetry is used in
runs without liveness only. `CHECK_DEADLOCK FALSE` is set because a system where all calls and
jobs have ended, or the clock's bound is reached, may stop.

Fairness. `search_progress`: Postgres and the web process go on with the statements of a call
that has arrived; arrivals, aborts and the worker are not fair. `pipeline_*`: the worker goes on
with its handlers, takes entries, runs callbacks, sweeps (a timer every 10 s) and looks for
stalled entries (BullMQ does so every 30 s). `session`: the routes go on with their statements,
the tab uses the answers, and the redirects of the gates happen; users, losses, expiries and
revocations are not fair. `jobview`: requests end, in an answer or a failure, timers fire, strict
mode remounts, a cancel that was sent is answered or fails; the job, the appends and the user are
not fair. Weak fairness suffices since none of these is disabled again and again by another.
`EveryJobEnds` holds for a job whose enqueue was lost, through the sweeper alone.

`EveryJobEnds` is checked with crashes that do not fall between the checkpoint and the return of
the discover handler, nor on a pending `onFailed`, and with handlers that do not throw in
`enqueueVerify`. Outside this the code gives no guarantee: the first window is
`pipeline_handoff`, and after a crash between BullMQ's failure of an entry and `setJobStatus`
(`runner.ts:59-61`) the failed entry stays, the sweeper takes it for work in progress, and
nothing ends the job. An entry that fails by stalling twice has the same effect, because
`attemptsMade` is below `attempts` then (section 5).

What the other properties leave out by name, because the code does not give it:

- `SubmitsReported` excludes a submit whose refresh after a 402 fails: the handler throws before
  it sets the message (`search/page.tsx:84`), and nothing is shown.
- `ChargedOnce` is about the submits with no acknowledgement between them. `rotateIdemKey` removes
  whatever key is stored, so a late acknowledgement of a submit whose page was left and opened
  again (`LeaveMidSubmit = TRUE`) removes the newer submit's key; a retry of that one counts as a
  search of its own, and may be charged as such. Without `sessionStorage` (`StorageWorks = FALSE`)
  every retry has a new key, as `idempotency.ts:27` accepts.
- `WindowFixed` excludes no death. It allows a counter without an end for one reason only, the death
  of the call that owes it that end; that the counter then stays for ever is the code's behaviour
  (section 5), and no property calls it right.
- `ShownBelongs` excludes calls that crossed a change of the session or were lost: a `getMe` that
  was read before a switch and is adopted after it heads the page with the old organization
  while the lists come from the new one; while a switch is on its way a load may
  show the new organization below the old name.
- `FormsEnd` (in `NothingHangs`) excludes revocations: a picker whose answer brings no active
  organization stays at "Switching..." (`login/page.tsx:264-266`).
- `ViewSettles` excludes parked polls; the log has no retry button, so a parked log stays
  frozen. A log whose ending event was lost polls for ever.
- `JunkUnlessCut` allows the cap to take the junk contact of the last company it leaves.

## 4. Proofs

Each theorem holds for every value of the constants that satisfies the named assumptions of its
module, which say no more than that values are of their types (`Null` is no call, the initial
credits are numbers, submits are not cancels, candidates are finitely many, requests name companies
and roles, a key is not the number of a job). What goes beyond them is a hypothesis of the theorem
and is named below. The argument is the same everywhere: an inductive invariant, which was checked
by TLC on the runs' instances first, is kept by each action (one step or lemma per action), and the
properties follow from it.

**Money** (`SearchTransactionsProofs`). Any organizations, keys, submits,
cancels and initial credits: the type invariant (with it `credits >= 0`), `LedgerTruthful`,
`OneJobPerKey`, `PaidOnce`, `RefundMatchesCancel`, `ConflictHasJob`, `AnswersAgree`,
`CancelAnswersFinal`. None of the row properties is inductive. That a commit writes the previous
balance minus one depends on nobody else having written in between. `IInv` adds `TxnInv`: what a
call knows at each statement (`StartKnows`, `CancelKnows`: its job is not there yet, the slot it
holds is empty, `balance` is the committed balance minus or plus one, the job it flips is still
cancellable), and that each lock has one holder. Steps that commit nothing keep the rows
(`RowsSame`) and are done per action; the worker's writes share `WorkerWrite`; the two commits
share the lemmas on what appending a ledger row adds (`AppendBooks`, `BookedRows`, `BookedOnce`,
`BookedTruthful`). What was answered rests on `ToldInv`: a call that committed or answered tells
of a row that is there, and of a status that is terminal for good.

`Refinement` proves that the transactions implement `CreditLedger`: the commit of a submit is
`Charge` of its search, the commit of a cancel is `Refund` (`StartCharges`, `CancelRefunds`), and
every other statement, abort, replay or write of the worker is a stutter (`OthersStutter`).
`CreditsConserved` proves that the abstract ledger conserves credits, by two cardinality lemmas
on the searches of an organization; `CreditsAccounted` brings that down to the transactions.

**Pipeline** (`PipelineProofs`). Any jobs, candidates, slots, attempts, stalls and faults, and
any set of steps that may throw: types, `CheckpointMeansDiscovered`, `CompletedMeansSettled`,
`RefundedNeverDelivered`, and the action properties `SettledLeadsKept` and `EndedJobsStayEnded`.
`IInv` has three parts besides types. `QueueInv`: a handler that holds a lock has an active
entry, and alone. `RowTruthful`, `LeadsTruthful`: what a row says was done was done. `ItemKnows`,
`HandlerKnows`: a verify entry exists only for a job whose candidates are all leads, so that a
verify handler may trust its snapshot, and at each statement what it has settled so far is
settled still, whoever else works on the job. The invariant never says who holds a lock when
leads are written: the proof shows that overlapping handlers are harmless because all of them
write the same verdicts, which is where it uses that the provider decides by the lead alone.

**Rate limiter and search form** (`SearchFormProofs`). `WindowCap` and `WindowFixed` of
`LimiterSpec`, for any number of calls and organizations and deaths at any step: there is no
hypothesis. That at most the cap passes is not inductive, because it is the counter that decides:
`LInv` adds what the counter stands for (a call in a window is past its INCR, and is in the window
of its own organization only), and `Bounded` that those which may go on are neither more than the
counter nor more than the cap. The two cardinality steps are a call that joins the window with a
count within the cap, and a call that leaves it. `WindowFixed` is inductive above `LInv`: INCR of an
absent counter makes the one call that owes it its end, every other INCR makes none, and that call
stays the one that owes it if it dies. So a counter that runs has an end nobody puts off, or one
call, alive or dead, stands for the end it lacks (`WindowStaysFixed`). `LimiterRefined` proves that
the form's specification implies `LimiterSpec`, so both hold in the composition (`FormWindowHolds`).

Of the form: types; `AcceptedJobOfThisSearch` with no hypothesis at all, so under any switches,
losses, leaving and without `sessionStorage`, from `KeyInv` (a key belongs to the search of the call
that minted it) and `JobInv` (a job was created under its own call's key); `ChargedOnce` with the
hypotheses that `sessionStorage` works and that no tab switches while a search is unacknowledged,
from `OneKeyInv` (the submits of one search carry one key) and `SessionInv` (the server acts for
one organization in all of them); the action property `SubmitsReported`. The first hypothesis is
what `idempotency.ts:27` accepts, the second what `form_twice` violates. The theorem allows a page
that is left amid a submit, which the run leaves out for its size.

**Polling and job view** (`PollingProofs`, `JobViewProofs`). Any limit of failures, with strict
mode or without: types, `OneRequestEach`, `LogTruthful` and the action property `EndStaysShown`.
The lemmas are about one hook and any endpoint, and are instantiated for the card and for the
log. `PollInv` says who owns a chain: of a hook on screen one chain is current, and whatever else
is alive is a request that was aborted; of one that was left nothing goes on. One request at a
time follows. `EndInv` says that an end is on show only where the chain has ended for it, so no
late answer can set it back. `EventsAgree` says of every event appended, or still to be, what the
status has become by then.

**Session** (`SessionProofs`). Any organizations, tokens and number of calls in flight, with any
kind of call lost: types, `RevokedMeansNoData`, `ShownBelongs` and the action property
`SessionsByLogin`. `Shape` says which steps a call of each kind takes; `Checked`, that a tenant
call past its check acts for an organization of the user, or a membership was revoked since;
`Mounted`, that the page is that of the scope. `ShownBelongs` is the hard one: the lists come
from the session's row and the heading from the tab's copy. `Agrees` says that as long as
the calls that change the session come one at a time and are answered (`Apart`), every answer on
its way carries the organization of its row (`AnswersAgree`), and the tab's copy, the row and
what was found for the page agree (`RowAgrees`, `PageAgrees`) but between the UPDATE of a
switch and its adoption (`Switching`). That a switch which is adopted mounts the page anew needs
that it is to another organization than the one on show, which `Pick` and `SelectOrg` see to
(`Sensible`). Each step of a route is brought to one form first (`Served`), each use of an answer
to another (`Heard`), so that the invariant is proved once for each.

**Providers and inbox** (`InboxProofs`). Any searches, requests, dice, fan-out, cap and page size.
`ScoreIsSum`: for every candidate the factors sum to between 4 and 100, so the clamp of
`mock-verify.ts:69` never hides points. It rests on `TitleTier`, that the most senior tier of a
title exists and has one of five values.

The properties of the screen are proved from `InboxInv`, in four parts. `ServerInv`: a row says of
its candidate what the providers said (`Truthful`), and the rows of a search are those `Discover`
gave, with the junk of each company the cap did not cut. `ScreenInv`: a list that was read has
each candidate once, as a truthful row, but possibly an old one, since the worker goes on after
the read. `ViewInv`: the page number is one that the filters have, and open rows are on that
page; every control that changes the filters must bring it back, which is what the effect after
the render does. `LinkInv`: a job in the URL was made before the page began to read, so it is
among the jobs it reads, which is why a filter the select cannot show hides everything
(`HiddenFilterAlwaysEmpty`) and never a part. A copy need not be a state the server was ever in,
and neither need the two lists be of one moment: the invariant says nothing of that, and the
properties hold without it.

Under them are the lemmas about the operators, each stated once: what picking elements by a set
of indices gives (`PickedElements`, `PickedSet`), what a concatenation of sequences has at each
position (`Flattened`, `Joined`, `Positions`), which contact of which company stands where and
what the cap leaves of it (`Discovered`), that the three sorts lose and double no row
(`SortedRows`), and that pages of a size cover a list of any length (`PageArithmetic`, `Leafed`).
Induction is over natural numbers with the property given as a set (`Smallest`, `Induction`, from
`WFMin`), because a theorem with an operator parameter is beyond the provers.

**Mock** (`MockApiProofs`). Any users, memberships, credits, keys, requests, number of handlers and
thresholds. `MockInv` says what a handler may rely on when it comes back from its await (the
organization it took is one, though not that the user is still in it) and that a key without an
entry in the idempotency map has no job. `MockChargesAsLedger` proves from it that the mock
implements `CreditLedger`: a created job is `Charge` of a pair that no job has (`NewlyPaid`), all
else is a stutter. That the check of the key and of the credits and the charge come in one turn,
after the await, is what the proof uses.

`JobAlwaysAgrees` is about two computations of one thing: `deriveStatus` branches on the status,
`deriveLeadsFor` goes by two ramps. `CountsNow` brings the first to the form of the second,
phase by phase, from what the ramps are at their ends (`RampBounds`, where Math.round stays
within the total) and from a count of clean leads that is the same in a prefix and up to its end
(`FirstClean`, `Parted`). `ProgressAlwaysForward` follows from that form, a status that takes
one step a tick since the thresholds differ (`StatusMoves`), and ramps that never go down, rounded
as they are (`RampGrows`, `PartsGrow`).

Model-checked only: liveness (`CallsEnd`, `EveryJobEnds`, `ViewSettles`, `NothingHangs`), which is
beyond the prover, and the properties that runs show violated (section 5).

## 5. Where the code and its documents differ

Shown by runs:

- *A dropped hand-off does not always heal* (`pipeline_handoff`; `README.md:290-291`). The
  checkpoint moves the job to verifying, `enqueueVerify` throws once, and BullMQ retries discover.
  A sweep in between sees verifying and enqueues verify. The retried discover moves the job back
  to discovering (`discover.ts:36`); verify runs meanwhile, cannot complete, and its entry is
  retained as completed. Discover moves the job to verifying again, and neither its own
  `enqueueVerify` nor the sweeper can add an entry whose id is there.
- *A terminal status may change* (`pipeline_terminal`; `state-machine.ts:3`). `onFailed` reads the
  job and then writes `failed` unconditionally: a cancel in between is relabelled. The refund
  stands, and `EndedJobsStayEnded` shows that nothing worse than the relabelling can happen.
- *One submit may be charged twice, in two organizations* (`form_twice`; `idempotency.ts:1-2`).
  The key is picked by the organization the tab shows, the charge goes to that of the session.
  If another tab switches between a submit whose answer is lost and its retry, the retry's key
  is new to the other organization, which is charged too.

Seen while modelling, without a run of their own:

- A counter of the limiter may have no end (`README.md:141-142` and `rate-limiter.ts:5-6` promise a
  fixed window). The process dies after INCR made the counter and before PEXPIRE: `search_form`
  reaches this state, `WindowFixed` names it. No later call sees a count of 1, so none sets the TTL;
  over the cap, every start of the organization is blocked from then on.
- `README.md:285-286` says that a job found discovering on restart is run again and carries on.
  BullMQ returns a stalled entry once. When the worker dies on it twice the entry fails with
  attempts left, so `onFailed` marks nothing (`runner.ts:59`), and the sweeper takes the retained
  entry for work. A death between BullMQ's failure of an exhausted entry and `setJobStatus` leaves
  the job running as well (`runner.ts:55-56` and `README.md:111` say that it is marked failed).
- `README.md:104` says that the form shows an error after a 402. When the refresh that is awaited
  before the message is set throws (`search/page.tsx:84`), it shows nothing.
- `login/page.tsx:265` says that a successful pick redirects. When the membership is revoked after
  it was checked, the answer succeeds without an active organization and the picker stays pending.
- `state-machine.ts:4` says that `assertTransition` blocks illegal moves; it is called nowhere,
  and a re-run of discover goes from verifying to discovering, which is not declared.
- `verify.ts:19-20` says that a re-run never re-scores a settled lead. Two overlapping handlers
  of one entry work through the same snapshot and do. `SettledLeadsKept` shows that the verdict is the
  same, as long as the provider decides by the lead alone, as the mock does.
- `http.ts:84-86` says that a revoked membership forces the client to pick again. The tenant
  routes answer 401, and the page shows its error with a Retry; the client picks again when a
  refresh or a reload adopts a `/api/me` without an active organization.
- A sign-out whose call fails leaves the cookie and the row, so the next load is signed in; a
  refresh that was answered before a sign-out and is adopted after it shows the tab signed in again.
- A user without an organization is signed in and stays at an empty picker.
- An inbox with a `?job=` of another organization (the URL outlives a switch) filters by it while
  the select shows "All jobs"; choosing "All jobs" then changes nothing. `HiddenFilterIsEmpty` shows that
  this hides all rows and never some. A `?job=` that changes on a mounted inbox is ignored.
- `README.md:158-160` promises a junk contact for each company; the cap of 50 may cut it. A company
  whose slug contains "noreply" has all its leads rejected.
- The mock differs from the server: no membership check on the tenant routes, no rate limiter,
  no cancel and no events, blank companies are kept, no cap, a submit without a key is charged
  each time, and clean leads of a "noreply" domain are verified although `db.ts:198-199` says
  that it never diverges. Its active-org handler checks the user it read before it awaited the body, and writes
  the session of the user that is signed in after.

## 6. Not modelled

- The real providers: stubs that throw.
- Request schemas and serializers: they rename and validate fields and hold no state. An invalid
  request is one of the failed answers of `SearchForm`.
- Database client, configuration, logging, seed, health check and deployment files: pure I/O and
  settings.
- Formatting, icons, tones and styles.
- Several accounts in one browser, and granting memberships: the program has no operation for it.
- Names, addresses and the pseudo-random generator: all dice are tried instead.

## 7. State of the plan

Done: all modules of section 2, and a theorem for every invariant, action property and refinement
of the passing runs. What is left is out of the prover's reach (liveness) or not modelled
(section 6).
