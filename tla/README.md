# ARVEN Trade: a TLA+ model

ARVEN Trade (`src/`) runs a graph of language-model agents over market data and
returns an investment decision for a ticker and a date. Around that graph stand
an HTTP job service, a production guard (run rate, daily cost), a decision
memory, an analysis history with later performance, a disclosure alert outbox,
data vendors with caches, and a console. This directory holds TLA+ modules for
the parts whose behaviour over time is hard to get right, the TLC runs that check
them, and TLAPS proofs of their main properties for every value of the
constants.

## The system

| component | source | state it keeps | who calls it |
|---|---|---|---|
| job service | `service/` | SQLite table `analysis_jobs`; executor queue and threads in memory | HTTP callers; calls the runtime |
| state lock, guard | `operations/guard.py` | `run_rate.json`, `daily_cost.json`, a `.lock` file for each | runtime, from any process on the host |
| runtime | `operations/runtime.py` | a run lock in memory | job service, scripts; calls guard, retention, graph |
| agent graph | `graph/` | message state, debate counters, SQLite checkpoints | runtime, console |
| memory log | `agents/utils/memory.py` | one markdown file: pending and resolved decisions | graph, before and after a run |
| history | `history/` | SQLite tables `analyses`, `performance` | last node of the graph; read by the service |
| alerts | `alerts/` | watchlist file; state file: seen ids, pending, history, tracked tickers | command line; fetches KAP disclosures |
| dataflows | `dataflows/` | global configuration, per-day price cache files | agents' tools, two HTTP endpoints |
| llm clients | `llm_clients/` | none | graph |
| console | `src/cli/` | answers of the operator, `.env`; message buffer: agent statuses, report sections | user |

How they interact: a caller submits a job over HTTP; the service commits a row
and schedules it; a thread claims the row, passes through the runtime (run lock,
then limiter slot, then cost reservation), runs the graph, writes the outcome and
prunes old rows. The graph first resolves this ticker's pending memory entries,
runs its nodes with an optional checkpoint after each, records the decision in the
history in its last node, and then logs the state, appends to the memory and
clears the checkpoint. Processes share nothing but files: the two SQLite
databases, the guard's two JSON files, the memory log, the alert state and the
caches.

What is hard, and what makes each part correct:

- **Job service.** Requests race for the last place of the queue; a client
  retries what it never saw answered; a process dies between committing a row and
  scheduling it, or during a run; another service starts on the same database
  and takes back jobs that are still running; a store call fails inside a thread;
  the table is pruned meanwhile. Correct: bounds hold, a key names one live job,
  nothing accepted is lost or stranded, nothing ended is overwritten, every job
  ends.
- **State lock.** Two file-system calls separate judging a lock file stale from
  removing it. Correct: one process at a time, and a dead process's file does not
  lock the others out.
- **Guard.** Two files, two locks, one rollback; the clock is read before the
  lock. Correct: the window and the budget hold, and a refusal costs nobody a slot.
- **Alert outbox.** Claim, deliver, acknowledge with bounded lists and crashes
  between. Correct: an alert is delivered at least once, and claimed once while
  its id can still be known.
- **Memory log, history.** Read-modify-write of a shared file; first-write-wins
  snapshots; oldest-first backfill. Correct: no decision lost, none resolved
  twice, no baseline moved, no row starved.
- **Graph.** Debate rounds and a recursion limit; one message channel used by all
  analysts; several files written after a run. Correct: every side speaks its
  turns, no analyst sees another one's messages, only tools exhaust the limit.
- **Dataflows.** A chain of vendors with several kinds of failure; a cache file
  judged by its age and written in place without a lock. Correct: the verdict names
  its cause, no look-ahead, current answers are fresh and historical ones final where
  the market's day ends by the host's midnight.
- **Console.** Prompts compete with the environment; reports and statuses are
  derived again from every chunk of the stream. Correct: the client asks the endpoint
  of the chosen account, log, statuses and wall times follow the graph, and every
  report ends as its finalizing agent's text.

`PROJECT.json` lists every component with its status, the hazards with their
lines, and which definition models which lines.

## Modules

| module | models | state | actions |
|---|---|---|---|
| `AnalysisJobs` | `service/jobs.py`, `core.py`, the submit endpoint of `api.py`, the runtime's run lock | the table (`inserted`, `rows`, `ended`), each process's life cycle, handlers, executor queue and threads | submit in its four outcomes, schedule, claim, load, run, finish, prune, failing store calls, start-up in its steps, close, crash |
| `JobLedger` | what the service promises, without processes | accepted requests and what became of each | accept, start, requeue, end, forget |
| `StateLock` | `_state_lock` in `guard.py` | lock file and its age, each process's position and wait | one action per file-system call, crash, a second passes |
| `OperationalGuard` | `RunRateLimiter`, `DailyCostLedger`, `OperationalGuard.before_run`, and the run it lets through | clock, both files, each process's step | acquire, reserve, refusals, rollback, run, lock timeout, crash, a second passes |
| `AlertOutbox` | `alerts/service.py` as hardened by rounds 15, 18, 19 and 20; the selection of `dataflows/kap/service.py` | date, publications, watchlist, state file, capacity file, each check's locals | a check in its locked sections and requests, claim, acknowledge, publish, midnight, watchlist edits, failed request, crash |
| `MemoryLog` | `agents/utils/memory.py`: the operators on the log's text | | |
| `AnalysisHistory` | `history/store.py`, `history/tracker.py`: the operators on rows, series and points | | |
| `RunRecords` | what a run leaves on disk: `graph/trading_graph.py`, the tracker's wrapper of the last node, the resolve command, the checkpoint's thread; EXTENDS the two above | calendar, log and its temporary file, state logs, checkpoint threads, history tables, each process's step | resolve pending decisions, graph, record, load, fill, measure, log the state, store the decision, clear the checkpoint, a failed load or store, a dead run, a session closes |
| `AgentGraph` | `graph/setup.py`, `conditional_logic.py`, `propagation.py`, the nodes of `agents/` | next node, channels of the state, steps | one per kind of node, a failing node, the recursion limit |
| `Questionnaire` | `cli/utils.py`, `get_user_selections`, `_build_run_config`, `llm_clients` | none: operators on a session | |
| `Console` | `cli/main.py`, `graph/analyst_execution.py`, `reporting.py`; composes the two above | session, message buffer, wall times, saved tree | start, refuse, one chunk per superstep, finish, raise, save |
| `VendorRouting` | `dataflows/interface.py` and what each vendor, tool and endpoint makes of a response | none: operators on a scan of the chain | |
| `OhlcvCache` | `stockstats_utils.py`, `y_finance.py`, `market_data_validator.py`; composes the above | clock, cache files, each call's step | begin, ask a vendor or source, read, judge, fetch, begin and end or fail a write, return, die, a tick |
| `Subsequences` | comprehensions over lists and sorted collections, by position | none: operators | |
| `MC...` | | | instances for TLC (symmetry, sessions, the disclosures and calendars of an instance) |
| `..._proofs` | | | theorems; `Subsequences_proofs` has the lemmas the others share |

**AnalysisJobs.** One store call is one SQLite transaction (`with self._connect()`,
`BEGIN IMMEDIATE` in `create_or_get`) and one action. `inserted` holds the columns
of a row that never change, by position: `uuid4` names are unique and only the
order of `created_at` is read. `ended` is the order of the terminal rows'
`updated_at`, as the transactions commit: the code reads that time just before the write
lock, so two overlapping ends may be stored the other way round, which decides only
which of two ended rows is pruned first. That the transaction of `create_or_get` is
indivisible is what SQLite promises of `BEGIN IMMEDIATE`, and an assumption here: the
checks of the queue's bound are about everything that may come between two
transactions, not about SQLite. What dies with a process is kept apart from the table: `handed` (a
request between its commit and `executor.submit`), `backlog` (recovered ids not
yet scheduled), `queue`, `worker`. `prune_terminal` selects and deletes in two
statements; they are one action here, and the comment at `PruneTerminal` says why.
`reply` is the answer in the step that gives it. `runs`, `requeues` and `orphans`
are history variables; no action reads them.

**JobLedger.** Every job moves queued, running, succeeded or failed; it may go
back from running to queued; it is forgotten only after it has ended and while
enough ended jobs remain. `AnalysisJobs!ImplementsLedger` is the refinement: a job's
state is its row's status, "forgotten" when the row is gone.

**StateLock.** Time is relative (age of the file, time waited) and saturates, so
that liveness can be checked over infinite behaviours. Two history variables say
what went wrong so far: `robbed`, whose file was removed by somebody else, and
`overran`, whether a holder still held a file older than the threshold (30 s in the
code, against a critical section that rewrites one small file).

**OperationalGuard.** The body of each `with _state_lock(...)` is one action;
`StateLock` says when the lock delivers that. What the code does *before* the
lock is kept apart: `seen` is the clock as read by `acquire`, or the date as
computed by `reserve`, and `Tick` may happen in between, up to `MaxWait` seconds.
The two files have two locks, and a run takes them one after the other. Each
process reads its policy from its own environment: `Limited` and `Budgeted` are the
processes with the limiter and with the budget on. `starts` (runs let through),
`spent` (reservations per day) and `late` (an amount was booked on a day already
over) are the truth the properties compare the files with.

**AlertOutbox.** What runs is what the import chain installs: `check_watchlist` of
round 15, wrapped by rounds 18 (capacity by reachable count), 19 and 20 (one
watchlist snapshot). Each `with ...locked()` is one action; a check holds no lock
between reading the known identifiers, its requests, the capacity rule and the
claim, so those are steps. Disclosures are numbered by publication; company, day
and classified score are constants of an instance. `Begin` fixes the dates of a
check as the code does, before anything else, so midnight may pass under way. The
outbox and the history are sets: their order only matters for which alerts the
history keeps, and `Best` says that. `tracked` is written and read by nothing that
decides. `acked`, `claimed`, `reclaimed` and `passed` are observers.

**RunRecords.** Nothing locks the decision log, and a statement of the history store
commits by itself, so every read and every write is a step; `batch_update` is read,
write of the temporary file, replace. A decision's text is the run that made it. The
day's session stays open for the whole day, so a series loaded twice on one day may
end in different closes. `Die` stands for a crash and for a run that raises: both
leave the files as they are. `raced` and `slept` are observers that say when a
property's premise is gone. A graph's shape is one, so the signature in a thread's
name is left out, as is continuing from a checkpoint: the program invokes the graph
with an input, and what LangGraph then does with the thread is outside `src/`.

**AgentGraph.** One step is one superstep of LangGraph, which runs exactly one node
here. A text is `"text"` or `""`: the code tells a report from a missing one by
truth value, and a provider may answer with nothing. A batch of tool results is one
message. At exactly the limit LangGraph may finish or raise, so both are allowed.

**Questionnaire, Console.** A session is an environment and the operator's answers,
cancelled ones included; `Outcome` says whether it exits, raises or streams. An
endpoint is named by the provider whose accounts it serves, so that "which key goes
where" can be asked. The effort of a client is the one it is given: three of the clients then leave it
out, or replace it, for models that do not accept it (`openai_client.py:328`,
`anthropic_client.py:70`, `google_client.py:49`), and model names mean nothing here.
The display thread only draws, so the model's states are the
displayed ones, one per chunk. The analysts shown (`chosen`) and those of the graph
(`shape.plan`) are kept apart: the graph drops KAP when it is disabled, the display
does not.

**VendorRouting, OhlcvCache.** A call keeps its place in the vendor chain; the
methods without state answer in one step from `VendorResponses`, the yfinance
indicators and the verified snapshot go through the cache step by step. Time is in
ticks; a frame is its last day and the instant its prices are from. A file being
written may be read empty, as a header or cut off (`Readable`); writers that overlap
leave the rows of one of them or lines of several (`Written`). A day is one of the
host's calendar and its bar is final at any instant from its start, after the host's
midnight too (`Final`). What is computed from a loaded frame may raise, and an unknown
indicator raises before the load (`AskIndicators`). Holidays are not
modelled; a list of indicators is a sequence of calls.

## Runs

| run | instance | shows |
|---|---|---|
| `jobs_one` | 1 service, 2 threads, 3 jobs, 2 payloads, queue of 2, 1 ended row kept, 1 stop, 1 store error | bounds, keys, replies, nothing lost or stranded, and `TypeOK` |
| `jobs_two` | 2 services on one table, 1 thread each, 2 jobs, 1 stop | recovery against a live worker, also in the bound on the runs of a job; the refinement of `JobLedger`; every accepted job ends |
| `lock_all` | 3 processes, 2 crashes, any slowness | exclusion until a holder overstays or dies; one rightful holder; an abandoned file goes away |
| `lock_break_race` | 2 processes, 1 crash | *violated*: two waiters break one stale file and both enter |
| `guard` | 3 processes, two with each control, one slot per 2 s, days of 2 s, `MaxWait` = 1, 1 fault | the window shortened by the wait, the budget until a late booking, the rollback |
| `guard_midnight` | 2 processes with a budget, `MaxWait` = 1 | *violated*: the budget, across midnight |
| `alerts` | 2 checkers, 2 share classes, 3 disclosures over 3 days, seen list of 2, history of 1 | nothing discovered is lost; nothing is alerted twice while the history lasts, or while every check observes it |
| `alerts_live` | 1 checker, 2 share classes, one disclosure per request, two reachable, one crash, failed request or watchlist edit | nothing discovered is lost through faults; every important reachable disclosure is claimed, however narrow the request |
| `alerts_duplicate` | 1 checker, no fault | *violated*: with the capacity rule satisfied, no alert is repeated |
| `records` | 2 processes, 2 analyses and the resolve command, older log of 4 entries, cap of 2, 2 days, 1 fault | the log keeps cap, pending decisions and one entry per analysis; what is logged is recorded; snapshots stay, points match them, measurable rows get measured |
| `console` | 11 run sessions, 9 072 sessions about the provider, limit of 24 steps | turns of the debates, isolation of analysts, the limit, the log, reports, display, statuses, the client |
| `ohlcv` | 2 calls, one cache file per day, 4 ticks around the close and midnight | answers fit the day asked for, current ones are fresh, historical ones final where the bar is final by midnight, verdicts name their cause |

Why the bounds are enough: three jobs are the least with which a pruned row, a
kept ended row and a pending row coexist with a queue of two; two payloads tell a
replay from a conflict; two threads are what it takes for a finish to overlap a
claim and a prune; a stop lets every step of a run and of start-up be interrupted
once. Two services are
enough for one to take back what the other runs. Two waiters and a holder are the
least for a lock to be broken wrongly. In the guard the clock runs past the window
and past two midnights, so that slots expire and are reused and a day follows a
day with spending on it; two processes compete for each file while a third one
has the other control only. Three disclosures are one more than the seen list and
two more than the history hold, so both forget, the capacity rule refuses some
checks and lets others pass, and two share classes let one check observe more than
one request returns. In `records` the older log holds one pending
entry of each analysed ticker, resolvable at once, a pending one of a ticker that no
run analyses and a resolved one, so rotation, resolution and context all have something
to choose from; one ticker's benchmark lacks a day; one fault is enough to break any
single step. Caps, horizons and `HoldDays` are 1 or 2 instead of 5 and more: the code
compares them with lengths and never with each other. In `console` the limit of 24
leaves between 0 and 7 batches of tools beside the nodes' own steps, as the 100 of
the code leave 31 and more beside at most 38; the eleven run sessions have every
asset, every source of the rounds and one to five analysts, and the others combine
provider, region, endpoint, key, model and effort from environment and answers. In
`ohlcv` a day has five ticks and its bar is final at the fourth, and the stretch from
tick 13 to 15 holds a partial bar, the close and midnight; `TTL` = 0 makes a file stale
after one tick, one retry stands for three, `MaxStale` = 1 for ten days; one caller
does everything and the other only loads today's frame, since what a call does to
the cache does not depend on its tool. `PrivateAtOnce` takes steps that touch nothing
shared as soon as they are enabled, which removes only orders nobody can observe.
Every bound of the other modules is a constant whose comment starts with "bound:"
and is read only by a guard.

All runs but `ohlcv` and those of the lock set `CHECK_DEADLOCK FALSE`: a service with no caller
left, a run that is over, or a behaviour at its last instant, has nothing more to do.

### The violated properties

They state what the documentation says and the code does not do. `Mutex` after a crash: `guard.py:60` unlinks
whatever file is there by then. `BudgetHolds`: a date computed before midnight and
booked after it replaces the new day's ledger. `DuplicatesPrevented`: the message of
the capacity rule (`service.py:755`) promises that a large enough `alert_seen_limit`
prevents duplicate alerts, but `claim` orders the list by when an identifier was last
*returned*, not by whether it is still reachable, so an expired one may push out one
that a narrow request left out; when the history has dropped it as well, it is
alerted again. Each of these holds in the weaker
form another run checks: `MutexUntilCrash` and
`OneRightfulHolder`, `BudgetHoldsUntilLate`, `OnceWhileHistoryLasts` and
`TwiceOnlyIfPassedOver`. The limiter has the same weakness as
the ledger: a slot granted late carries an early timestamp and leaves the window
early, so the full window is not a property either, and `RateHoldsUpToWait` is.

### Other disagreements between code and text

Met while modelling, true of the modules as well, not stated as properties of a run:

- *Lock.* A holder that overstays unlinks by name when it leaves (`guard.py:73`), that is,
  the file of whoever broke its lock. `OneRightfulHolder` and `MutexUntilCrash` exempt
  this case: no weaker promise is left to state.
- *Jobs.* `prune_terminal` deletes keys with their rows, so a retry after that starts
  a second job, while `docs/ARVEN_WEB_API.md:46` promises the same one
  (`UniqueLiveKey` is what holds).
- *Console.* The provider table's endpoint for `glm` is the China one (`utils.py:356`),
  while the key and the client's own default for `glm` are the international
  account's. The menu corrects it through the region prompt; a provider named by the
  environment keeps it, so that `TRADINGAGENTS_LLM_PROVIDER=glm` sends the
  international key to the China endpoint, against `utils.py:342`. `ClientAsChosen`
  names this exception. A cancelled region prompt returns `None`, which is unpacked and
  raises; every other required prompt exits. `TRADINGAGENTS_LLM_BACKEND_URL` is
  ignored by the Azure and Bedrock clients although `resolve_backend_url` says it is
  honored regardless. Setting one of the two model variables skips both prompts and
  leaves the other model at OpenAI's default, whatever the provider.
- *Console.* With KAP disabled by configuration and selected at the prompt, the graph
  has no KAP analyst but the display waits for its report: it shows KAP as running
  and the analysts after it as pending until each reports, and times them as zero.
  `DisplayFollowsRun` is stated for runs in which nothing is filtered out. An analyst
  with an empty report has the same effect. The comment at `main.py:1246` speaks of
  per-node deltas; the stream has whole states. The console run uses no checkpointer,
  memory log or past context, which `README.md:240`, `:246` and `:251` promise. An
  empty final text leaves the interim debate text in the section's file.
- *Run records.* A crash between storing the decision and clearing the checkpoint
  leaves the thread of a completed run. A second run of one date keeps the first
  decision in the memory log while history and state log hold the second. Outcomes
  align stock and benchmark by position and may resolve with a shorter holding
  period than asked. An intraday close of the target day is stored as final, and a
  stored entry price is compared with series that are adjusted for later splits.
  With `ResolveLimit` = 1 an older row that cannot be measured keeps newer ones
  waiting, so the run takes 2.
- *Price data.* A day is historical as soon as the host's date is later
  (`stockstats_utils.py:143`, `:165`). Where the market's day ends after the host's
  midnight (UTC bars of crypto assets, futures, New York seen from Istanbul in winter), a
  request in between stores a moving bar as a past day's and every later one of that
  day is given it, although `:140` and `test_ohlcv_cache_freshness.py:54` call past rows
  immutable; `HistoricalExact` is conditioned on bars that were final at midnight. The
  age of a file is taken after its rows were read (`:184`, `:145`), so a file rewritten
  in between passes old rows for fresh ones, although `:139` lets the TTL govern every
  current-day cache; `FreshUnlessReplaced` names the exception. `read_csv` raises on a
  file without a byte, which a writer that fails or dies after opening it leaves,
  although `:180` calls an empty file a miss. A file torn by a crash is reused all day by historical requests, and a
  stale one served as no data. Failures that
  `y_finance.py` and the Alpha Vantage indicator turn into text end the chain as
  answers, though `interface.py:90` says core categories still raise. A request older
  than the download's window is answered "N/A".
- *Sources.* `sentiment_analyst.py:67` says no exceptions surface; StockTwits bodies of
  an unexpected shape and news failures do raise. A failing Reddit request is
  reported as no posts. A deleted IPO page raises the HTTP error and not
  `NoMarketDataError`.

### Fairness

- `AnalysisJobs!FairSpec`: executor threads run, a submitted handler continues, the
  loop of start-up and `close` go on (weak fairness, the operating system's
  scheduler). A graph run returns: `propagation.py` sets a recursion limit and
  vendor and model calls have timeouts. `BeginRun` has strong fairness, because the
  run lock is taken and released by the other threads. A stopped service is started
  again (weak fairness of `Boot`): an operator's or a supervisor's duty
  (`docker-compose.yml`), without which no job could end. Nothing is assumed of
  callers, stops or store errors; `jobs_two` has none of the latter, since a row
  whose store call failed waits for the next start.
- `StateLock!FairSpec`: time passes, a process in the loop runs on, and processes
  keep coming back to the lock. The last one is needed: waiters give up long
  before a dead process's file is stale, so only a later arrival removes it.
- `RunRecords!FairSpec`: sessions close (weak fairness of `Tick`), and the operator's
  process keeps making progress, that is, runs the resolve command again and again
  and goes on with it once begun. Nothing is assumed of analyses or faults.
- `AlertOutbox!FairSpec`: a check that has begun goes on, and the scheduler that runs
  the command starts a check of the watchlist again and again (strong fairness,
  since other checks may run in between). Nothing is assumed of KAP, midnight, the
  consumer or the operator; failures are bounded.

## Proofs

Checked with `tlapm`, for all values of the constants that satisfy the named
`ASSUME`s.

| theorem | says | argument |
|---|---|---|
| `AnalysisJobs_proofs!TypeCorrect` | types | `IType`: `TypeOK`, every handler holds an inserted row, every busy thread has a job |
| `!PendingIsBounded` | queue bound | `EveryTableStep`: each step inserts one row when the queue is not full, or changes statuses without adding pending rows, or deletes; cardinalities follow |
| `!KeysAreUnique` | one live row per key | inductive with the types: only an insert adds a row, and it found no holder of its key |
| `!EndedRowsAreFinal` | `TerminalFinal` | by `EveryTableStep`: no step changes the status of an ended row |
| `!AcceptedJobsAreKept` | `NoJobLost` | strengthened by "an ended row is in `ended`" |
| `!RepliesNameTheirRequest` | `ReplyNamesRequest` | `EveryAnswer`: what each step may answer, by the types |
| `!RunsAreBounded` | `RunsBounded` | `RunsPaidFor`: runs made, threads about to make one and the claim still possible together are at most one more than the requeues |
| `!NothingIsStranded` | `NothingStranded` | `WorkInHand`, which also holds while services drain and while a starting one has recovered jobs to schedule, with what each phase can hold in memory (`MemoryOK`) |
| `!ServiceIsALedger` | `ImplementsLedger` | `EveryTableStep` again: each kind of step is one ledger operation or none; `EndedOnce` (a job ends once) shows that pruning leaves as many ended jobs as the ledger asks for |
| `StateLock_proofs!TypeCorrect` | types | |
| `!OneHolderIsRightful` | `OneRightfulHolder`, any crashes, any slowness | a holder that was not robbed owns the file that is there |
| `!LockExcludes` | `MutexUntilCrash` | until something goes wrong, the file is there exactly while its creator holds it and is never older than the threshold, so nobody reaches the unlink |
| `OperationalGuard_proofs!TypeCorrect` | types | |
| `!RateUpToWait` | `RateHoldsUpToWait` | every recent run is still in the file: its timestamp is at most `MaxWait` older than its start, so no pruning by an old or new clock reaches it; the file never holds more than `MaxRuns` after a grant; a rollback removes no slot of a run let through |
| `!BudgetUntilLate` | `BudgetHoldsUntilLate` | the file is never ahead of the clock, agrees with what was spent on its day, and nothing is spent on later days |
| `!RefusedRunsKeepNoSlot` | `RefusalsLeaveNoSlot` | inductive with the types: only its own rollback ends a process's duty to give a slot back, and it removes that slot |
| `AlertOutbox_proofs!AlertedOnce` | `OnceWhileHistoryLasts` | a claimed alert is in the outbox or was acknowledged; the history holds only acknowledged alerts, and all of them while they fit (`ShortHistoryKept`), so the claim's own test finds each |
| `!SecondAlertWasPassedOver` | `TwiceOnlyIfPassedOver` | `SInv`: a check that passed the capacity rule observed no more than the seen list holds (`EnoughCapacity`), so the trim keeps all of it (`RememberProperties`); what every later check observed is still remembered |
| `!NoAlertIsLost` | `NothingLost` | the candidates of a check are exactly the important ones it observed; types in the same invariant |
| `RunRecords_proofs!LogStaysWellFormed` | `LogWellFormed` | `LogInv`: until a write raced, the text a process holds, or left in the temporary file, is a rewrite of the log as it is, within the cap, and who is about to append has no pending entry |
| `!PendingEntriesSurvive` | `PendingSurvives` | same invariant: the outcomes a rename brings are resolvable and of its ticker |
| `!LoggedAnalysesAreOnDisk` | `LoggedIsRecorded` | `RecordedInv`: the log, a text in hand and the temporary file name only analyses with a state log and a row; a thread belongs to a run past its graph |
| `!SnapshotsAreFixed` | `SnapshotsFixed` | `RowsChange`: how each step changes a row |
| `!ReturnsDivideBySnapshots` | `PointsMatchSnapshots` | `PricesInv`: a row in hand has the table's snapshots, or those were filled in since from a load of the same day, and two loads of one day choose the same baseline |
| `!ContextsAreLatest` | `ContextIsLatest` | induction over the log: what the pass has taken after n entries from the newest is what is latest among them (`PastContextProperties`), since an older entry belongs to the latest ones exactly while they are too few (`PassTakesOlder`) |
| `OhlcvCache_proofs!AnswersFitRequests` | `AnswerFitsRequest` | `CacheInv`, first half: every frame, whole or torn, and every file is of one instant, not before the day in its name; an accepted answer keeps the three promises (fit, fresh, historical) when it is given (`AcceptedOK`) |
| `!CurrentDayIsFresh` | `FreshUnlessReplaced` | who has read a file that nobody rewrote holds rows of its mtime; a file being written was opened at this moment |
| `!HistoryIsExact` | `HistoricalExact` | a file of a later day is captured on that day, so after a bar that was final when it began; a bar final only later is outside the claim |
| `!VerdictsHaveACause` | `VerdictNamesCause` | `CacheInv`, second half: what the scan of the chain remembers (no data, the first error) agrees with what was heard (`ScanFits`), for every outcome a vendor can make of a response (`VendorFits`, `SourceFits`) |
| `Console_proofs!DebatesKeepTheirRounds` | `RoundsHeld` | `GInv`: at each speaker its count has the speaker's place in the turn and is below the configured rounds, so the judge is reached exactly at the end |
| `!AnalystsSeeTheirOwn` | `ContextIsOwn` | same invariant: the channel of the analyst at work alternates its calls and their results; only `Clear` hands it on |
| `!OnlyToolsMeetTheLimit` | `LimitOnlyByTools` | `StepsSpent`: at each node the supersteps so far are twice the analysts passed and the batches of tools, plus the turns spoken |
| `!LogIsTheTranscript` | `LogIsTranscript` | `Transcribed`: what was seen is what was produced, so a message of the chunk is new exactly if this superstep added it; a superstep adds at most one message |
| `!ShownReportsAreFinal` | `ReportsAreFinal` | `Displayed`: what the buffer shows is a function of the graph's state (`Shows`), although each chunk updates it piece by piece |
| `!DisplayCompletedStays` | `CompletedStays` | the same function before and after a chunk, and a report or judgement once there stays there (`Later`) |
| `!DisplayShowsTheRun` | `DisplayFollowsRun` | `Displayed` at each next node, and `Timed`: when an analyst was started and what its time was are the supersteps of the answers before it and of its own |
| `!ClientsAreAsChosen` | `ClientAsChosen` | by cases on the provider in the functions of `Questionnaire`; no invariant is needed |

None of the invariants is inductive alone: the bound on the limiter says nothing of
what the file has forgotten, the budget nothing of what the file says, mutual
exclusion nothing of who created the file, the shape of the log nothing of the texts
in hand, an answer nothing of the files it comes from, the turns of a debate nothing
of whose turn it is. The strengthenings above are
the parts that relate file, memory and truth.

The console's invariant `CInv` has a part for the graph and parts for what is derived
from it. `GInv` is about the graph alone: types, supersteps spent, the turns of each
debate, the channel of the analyst at work, one answer per analyst in the order of the
plan, and which texts are still empty at which node. The rest says what the buffer, the
log, the wall times and the saved tree are *of such a graph*. `ChunkStep` then has to
show only that the sequence of updates a chunk triggers leads from the buffer of the
old state to the buffer of the new one, for each of the nodes that may have run.

Assumptions worth naming: limits are numbers, thresholds positive, sets of tickers and
of analyses finite. The log a behaviour starts with is one a program with the same cap
leaves (`PriorLogAssumption`): at most one pending entry per analysis, no more
resolved ones than the cap. In `OhlcvCache` a bar may be final at any
time of its day or later, the observed stretch begins late enough for a whole window, callers use methods the
program has, and a configured chain is any list of names. In
`Console`, `None` is neither a text, a name of a side, a provider nor a number
(`TextsAssumption`, `NoneAssumption`), and the rounds a session settles on are integers,
which may be negative: the environment's are parsed with `int` and not checked, and a
debate of zero or fewer rounds still has its opening turn.

The types of the lock and of the guard are only proved, and not properties of a run.

Lists that the code filters or sorts are written with `Subsequences`, by position, and
not with `SelectSeq` or `SetToSortSeq`, about which the prover knows nothing; the lemmas
of `Subsequences_proofs` say that the filtered list has exactly the chosen elements in
their order, a sorted one every member once, and how a filtered list grows at either end.

Induction over data is not available as a rule (the library's theorems take an operator
as a parameter), but a set of numbers has a least member (`LeastOf`, from the
well-founded order of the library): `PastContextProperties` takes the first place at
which a recursive function and its closed form would differ. The function itself exists
because the closed form satisfies its equation.

Only model-checked: liveness (`EveryJobEnds`, `AbandonedFileGoes`,
`EventuallyClaimed`, `EventuallyMeasured`), which the prover does not reach. Every
invariant and every other action property of a passing run, and the refinement, is a
theorem. No module declares a recursive operator.

## Plan

1. `AnalysisJobs`, `JobLedger`: done, proved but for liveness.
2. `StateLock`: done, proved but for liveness.
3. `OperationalGuard`: done, proved.
4. `AlertOutbox`: done, proved but for liveness.
5. `MemoryLog`, `AnalysisHistory`, `RunRecords`: done, proved but for liveness.
6. `AgentGraph`, `Questionnaire`, `Console`: done and proved, but for continuing from
   a checkpoint.
7. `VendorRouting`, `OhlcvCache`: done, proved.
8. The installation chain of the alert rounds under reloads; retention.
9. `ProductionRuntime`: the job service composed with the guard, so that a
   re-executed job's reservations are seen.

## Not modelled

Text classification of disclosures (pure pattern matching), the wording of prompts,
parsing of remote data, model catalogues, report formatting, drawing the console,
its date and language prompts, retention, redaction, credential and request
validation: no state, and no question that exploring states would answer. Corrupt
JSON in the guard's files raises before anything is written and is left out. Costs
are integers: rounding of floats near the limit (the code's `1e-12`) is not
modelled. Alert state files written by older versions are repaired on load; the
model starts from files of this version, which load as they are. `replace` of the
whole watchlist has no caller in the repository.
