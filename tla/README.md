# Wind-MCP: TLA+ models and proofs

Wind-MCP is an MCP server (FastMCP) in front of the Wind financial terminal.
Its tools fetch data through WindPy, a synchronous SDK with one process-wide
connection that is not thread-safe, may drop, and whose calls may never return.
The program's own logic is what keeps that usable: one shared session, one
worker thread, deduplication, timeouts, a cache, and the parsing of irregular
responses.

This directory holds TLA+ models of that logic, the TLC configurations that
check them on small instances, and proofs that TLAPS checks for all instances.
`PROJECT.json` indexes all of it: components, runs, mutants, which source lines
each definition stands for, findings, hazards, theorems. Paths below are
relative to `src/src/wind_mcp/`.

## The system

| component | state | operations | status |
|---|---|---|---|
| Wind session, `core/session.py`, `core/resilience.py` | `_started`, `_needs_reconnect`, `_lock`, the SDK's connection | `get`, `_start`, `reconnect`, `invalidate`, `_shutdown`, `wind_call_with_resilience` | `WindSession`, `SessionContract` |
| Executor, `core/executor.py` | `_executor`, `_executor_running`, `_inflight`, their two locks, the pools | `_get_executor`, `_recycle_executor`, `run_wind`, `_await_with_timeout`, `_abandon_query`, `run_wind_sync`, `shutdown_executor` | `Executor`, `RunWindSync`, `RunWind` |
| Query cache, `core/cache.py` | `_store`, counters, the lazy singleton | `get`, `stale_get`, `set`, `_evict_if_needed`, `clear` | `WindCache`, `CacheContract`, `Server`, partly |
| Query handlers, `handlers/*.py` | none of their own | look up, fetch through the executor, parse, store | `Serving`, `Handlers`, `Tools` |
| Composite and screening, `handlers/composite.py`, `handlers/screening.py`, `core/universe.py`, `core/filters.py` | none | three queries of which each may fail; filter, rank, slice | `Serving`, `Screening`, `Tools` |
| Parser, `core/parser.py` | none | recognises the layout of a response and turns it into rows | `Parser`, dates of `tdays` left out |
| Field sets, `tools/` | none | expand names of field groups | `Handlers`, contents abstract |
| Converter and validators, `core/converter.py`, `core/validators.py` | none | normalise and check security codes, dates, fields | `Converter`, `Validators`, `Translation`, partly |
| Metrics, `core/metrics.py` | counters, samples, per-tool counts, their locks | record, snapshot | `Server`, latencies left out |
| Configuration, `core/config.py` | the lazy singleton | defaults, then file, then environment | `Config`, `Server` |
| Server, `server.py` | exit hooks | tools, lifespan, `_process_cleanup` | `Server` |
| Inputs, `models/`, `utils.py` | none | schemas | `Handlers` |
| Formatting, `formatters.py` | none | text | not modelled |

How they interact: a tool (server) calls a handler; the handler looks in the
cache, calls `WindSession.get()` on its own thread, and hands the query to
`run_wind_sync`, which submits `wind_call_with_resilience` to the shared pool
and blocks. On the pool's thread that function calls `get()` under the session
lock, runs the query outside it, and after the transport error -40521010
invalidates, reconnects and retries once. `run_wind` is the asynchronous way
to the same pool, with deduplication and a timeout; today only tests call it.
`shutdown_executor` and `_shutdown` run at exit and are written to be called at
any time.

### What is hard, and what must be true

*Session.* Threads of several kinds share it: the pool's worker, workers of
abandoned pools that may wake up at any time, handlers, the event loop's thread
that disowns a query. A session that failed must not be handed out as if it
were sound, however restarts and invalidations interleave; the flags and the
SDK must agree whenever the lock is free; a query that never returns must not
block recovery.

*Executor.* Getting a pool and submitting to it are two steps, as are the two
halves of a shutdown; a pool may be abandoned while its worker is stuck. New
calls must find an open pool; accepted jobs must be run and their callers
woken; after a timeout the next call must neither join nor queue behind the
stuck one, and must rebuild the session; every call must end.

*Cache.* An entry must not outlive its TTL, the entry just stored must survive
its own eviction, a failure must not be stored as data.

*Handlers.* One of several queries may fail; what is stored for the whole TTL
then should say so. Two calls that share a key must ask the same, on every day;
a default date must be today's when it is used; a field must be asked for once,
as a row keeps one value per name. *Screening.* Filters chain, the ranking is
stable in both directions, and the cut keeps the best. *Parser.* Layouts are recognised from lengths that may
coincide; a value must land under its own field and code. *Converter.* One share
must be one code, however it is written. *Validators.* A range of days that is
checked must run forward. *Metrics.* Two components count one call in two places, and the totals
must add up. *Configuration.* What the user set must be what is in force,
whoever reads it first. *Process.* Two threads use the SDK, which must not be
entered twice; hooks run in reverse order of registration and after the pool's
threads are joined, unless that is interrupted, and the process must not end
with the SDK started.

The full list, each at its line, is under `hazards` in `PROJECT.json`.

## Modules

```
SessionContract          what the session promises (abstract)
  ^ implemented by         ^ instantiated by
WindSession              RunWind -----> Executor <----- RunWindSync

CacheContract            what a call may be answered with (abstract)
  ^ implemented by
Serving ---> WindCache

Tools ---> Screening ---> Handlers

Translation ---> Parser, Converter, Validators

Server ---> WindSession (as Session), Executor, Config
```

**WindSession** translates `session.py` and `resilience.py`. `started`,
`needsReconnect` and `lock` are the class attributes; `sdk` is what
`w.isconnected()` tells apart; `pc` says where a thread is. Every call of
`w.start`, `w.stop` and of the query has a state of its own, so other threads
and a dropped connection come in between; what happens under the lock without
an SDK call is one step. The lock is reentrant, and `reconnect` called inside
`get` stays in it: the model takes it once per outermost `with`. One path
through `wind_call_with_resilience` is `CallQuery`, `Get*`,
`QueryHitsTransportError`, `Invalidate`, `RecoverReconnects`, the restart, then
the retry (`op = "retry"`), whose failure invalidates once more.

**SessionContract** says the same without program counters: who holds the
lifecycle, whether a thread that looks now may query, who has blamed the session
and not marked it yet. `WindSession` implements it under
`holder <- lock, usable <- Open, fresh <- Restarting, owing <- Owing`; checked
by TLC and proved.

**Executor** has the operations on the globals of `executor.py` and on the
thread pools, which are external (`concurrent.futures`): one worker each, first
in first out, refusing jobs once shut down, finishing those accepted. A critical
section under `_executor_lock` is one step.

**RunWindSync** is any number of threads in `run_wind_sync` and
`shutdown_executor`. `handle` is the pool a thread got in one step and uses in
a later one.

**RunWind** is `run_wind` on one event loop. A step is one run of a coroutine
from await to await, cut where it can block the whole loop: at
`_inflight_lock`, which a dedup hit keeps while it awaits, and at the session's
lock. The workers run `wind_call_with_resilience` with the session replaced by
its contract. A timeout and a cancellation are the same step, `CallerAbandons`:
both call `_abandon_query`. Each caller makes one call.

**WindCache** has the operations of `core/cache.py` on `_store`. The order in
which a dict keeps its keys is part of the state (`order`): the eviction sorts
by last access and `sorted` is stable, so it decides between entries of the same
moment. The eviction is stated by what it leaves (`Survives`): as many as are
not to go, and all that goes is older than all that stays.

**Serving** is the handlers' way through cache, session and queries. The tools
are plain functions, which FastMCP runs on the event loop's thread, so one call
at a time; only the clock runs on while a query does. All handlers with a cache
but one make one query and let its error end the call; `company_profile` gets
the session before it looks in the cache, makes three queries and swallows the
error of each, so an answer is modelled as the set of its parts that are
missing. `WindSession.get()` and `run_wind_sync` appear by their outcomes, which
are the subject of the other modules.

**CacheContract** is what the caller can rely on whatever the cache forgets: an
answer is what Wind has just given, or what was kept for the same query for at
most its time to live. `Serving` implements it under the mapping `Kept`.

**Handlers** has, for each of the 21 tools with a cache, what its input model lets
through and what its handler makes of it: the key, the category and the query.
A key is the function name and the arguments passed to `cache.get`, which
`_make_key` is taken to hash without collisions. Lists stand for the texts that
the code joins with commas, and composed options for the lists of their parts.
`ToWind` and `Lower` are the two conversions of a name, as constant functions:
the instance has a share with a Bloomberg and a Wind name and a field in both
cases. `stock_connect` never reads its two dates; they are not in its inputs. An unknown
event type is refused before anything is looked up; an unknown kind of `holders`,
which is any text, is looked up and has the session started before it is refused:
it has a key and no query (`NoQuery`).

**Screening** is `dynamic_screen` after its queries. A row is a function of the names
it has: the fields, in lower case, and `code`, which `parse_wss` puts in every row
and a filter or a ranking may name like a field (`ValueOf`, `RowOf`). A value is a number or a
text of some magnitude, or missing; comparisons between kinds raise in Python
and are caught by a filter but not by the sort (`CanRank`). A missing value, 0
and the empty text all rank as the number 0. Which text contains which, the
filter `contains`, is a constant. `ScreenIsTop` follows rows by their positions in
Wind's answer (`from`), since two rows may have the same values. Lists are gone
through by recursive functions of the position (`ApplyFilters`, `ExpandFields`,
`Apply`, `Number`), one step per turn of the code's loop.

**Tools** puts calls of them one after the other while the days pass. It is about
which answer a call gets, so expiry and eviction are one action, `Drop`, that may
come at any time, and the longest time to live by default, 24 hours (`CACHE_TTL`), is
what `NewDay` enforces: a configuration may raise it, and then the one-day bound of
`TypeOK` does not hold. Queries are compared as they are written, so
`AnswersTheQuestion` does not see that an empty or relative date meant another day
when the answer was given; `EmptyEndIsToday` does. Seconds, sessions and sections of a profile are in `Serving`.
A call reads the date once, though `calendar` may read it twice.

**Parser** has the table Wind means (`table`), the nested lists it sends
(`data`, in every order and folding that the comments and tests of the
repository describe) and what the parsers make of them. Names of fields, codes
and times are positions: two that become equal by `lower()`, or a field called
`date` or `code`, are not modelled here (what `Screening` makes of a field called
`code` is in `RowOf`), nor is the formatting of dates. That the fields
a handler sends differ by `lower()` is `FieldsAskedOnce` of `Tools`.

**Converter** is `ensure_wind_codes`. A code is taken apart where the regular
expressions take it apart, into ticker, market or suffix, and form; a number is
the list of its digits, because it is padded, stripped and told by its first
one, and a name is one word. The static maps are constants. **Validators** is
`validate_date_range`, with a text as the list of its parts, since dashes are
what distinguishes one writing of a day from another. Only `HistoricalInput` and
`SectorSeriesInput` call it (`models/inputs.py:52-56, 153-158`): minute bars, ticks,
macro, trading days, days count and the portfolio series send their ranges
unchecked, and `RangesRunForward` says nothing of them.

**Translation** composes the two with `Parser`: a caller's codes are converted and
its dates refused or let through before anything is asked of Wind, and what comes
back is parsed. What is said and what comes back do not depend on each other, so
the words are enumerated with one small table and the tables without words.
`SameListing` compares the code sent with the number it stands for, by
arithmetic, for numbers as the exchanges give them: below a hundred thousand in
Hong Kong, of at most six digits on the mainland (`zfill` does not shorten a longer
one). Its second half, that what was sent is not changed by sending it again (which does
not make it Wind's name: `EURUSD` is one such, see below), leaves out mainland names that are no numbers: such a name is filled up with zeros
as it is, and put in capitals only the second time. A Wind code is taken at its
word by the program: `700.HK` goes out as it is, and only the mainland's suffixes
are put in capitals.

**Config** is `load_config`: the flattening of the file's sections, the cast of an
environment variable, and the two layers of `setattr` over the defaults.

**Server** is the process as `server.py` wires it, over the detailed session
(`WindSession`, with one caller, the main thread, and one worker) and the
executor. FastMCP runs plain tools and the lifespan on the event loop's thread,
so `main` is one program counter for all of them; a request ends before the next
one begins. The clients' lifespans get the session without
looking in the cache, `wind_metrics` and `wind://health` look at the cache
without the session, and any of them may be the first to create it. A tool's call
takes one of three ways. Most look in the cache (`AnswersFromCache`, `AsksWind`),
unless they refuse their arguments at once (`RefusesAtOnce`, the event calendar), and
then get the session; `holders` may refuse after that (`SessionReady`).
`company_profile` gets the session first and then looks. `dynamic_screen` gets the
session twice, once for itself and once in `resolve_universe` (states `screening`
and `resolving`), sends one query, two or none (`UniverseReady`: an index or a sector
is asked of Wind, a list of codes is not, and an empty universe or one of no known
kind ends the call), and neither looks in the cache nor stores to it. So
`MetricsAddUp` counts screens apart: they are calls that have no look. Which entry an
eviction or expiry takes is left open here; `Serving` has that.

A process ends when its transport closes (`Leaves`) or by a `KeyboardInterrupt`
in the middle of a call, which unwinds the session's lock but none of its flags,
and is no `Exception`, so `_timed_call` counts it as a call without error.
At exit the interpreter joins the pool's worker first, then runs the hooks, the
latest first: the session's `_shutdown`, registered at the first connection,
before `_process_cleanup`, registered at import. A second interrupt may end the
join early (`JoinInterrupted`), and the worker then runs on beside the hooks.

`MCWindSession`, `MCRunWindSync`, `MCRunWind`, `MCServing`, `MCTools`,
`MCTranslation` and `MCServer` give the constants values for TLC. Each model has its mutants beside the definition they change: one line of
the code written wrong, under which a property must fail.

## Runs

| run | instance | shows |
|---|---|---|
| `session` | 2 workers, 1 other thread, 4 operations, 2 retries | `FailureNotForgotten`, `FlagsMatchSdk`, `ImplementsContract`, `WedgedQueryBlocksNobody` |
| `run_wind_sync` | 2 callers, 2 terminators, 5 calls | `GetReturnsOpenPool`, `RejectedOnlyIfOvertaken`, `AcceptedAndJoined` |
| `run_wind` | 3 callers, two with one key, 3 pools | `CurrentPoolIsClean`, `InflightIsLive`, `QueriesStartOnRebuiltSession`, `LosesPoolOnlyToLateTimeout`, `OnlyDedupHitsBlock` |
| `serving` | 2 plain queries and a profile, `maxsize` 2, 5 calls, clock to 4, times to live 1 and 2 | `SizeBounded`, `LeastRecentlyUsedGoes`, `ImplementsCacheContract` |
| `tools` | two names of a share, 2 lists of fields, 3 days, 2 calls; screens of 3 rows with 5 values and 8 lists of filters, by fields and by the code | `AnswersTheQuestion`, `FieldsAskedOnce`, `ScreenIsTop`, and `TypeOK`: no answer outlives the next day |
| `translation` | up to 3 fields, 3 codes, 3 times and 12 cells, a value and NaN; every pair of some 40 codes, of some 25 dates | `ValuesInPlace`, `RefusesOnlyAmbiguous`, `SameListing`, `RangesRunForward`, and `TypeOK`: no NaN gets through |
| `server` | 2 requests, of a plain query, a profile and a screen, 3 pairs of file and environment | `SdkUsedByOneThread`, `StoppedWhenGone`, `MetricsAddUp`, `CacheObeysSettings`, `MainComesBack` |
| `dedup_hit_blocks` | 2 callers, one key | `EveryCallEnds` violated |
| `duplicate_query` | 3 callers, one key | `NoDuplicateQuery` violated |
| `not_serialized` | 2 callers, 2 terminators | `CallsAreSerialized` violated |
| `today_is_stale` | as `tools` | `EmptyEndIsToday` violated |
| `settings_ignored` | as `server`, one file | `SettingsTakeEffect` violated |

*Bounds.* In `session`, 4 operations are enough for a query that fails, a
second thread's restart in progress, an invalidation and a shutdown at once;
two workers are the current pool's and an abandoned one's. `MaxRetries` is the
argument of `reconnect` in `get()`, 3 in the code; 2 already has a first, a
failing and a last attempt, and recovery uses 1 as in the code. In
`run_wind_sync`, 5 calls allow get, shutdown, get, shutdown and one more;
`MaxExecutors` is as large as the number of calls that can create a pool, so it
never disables a step. In `run_wind`, a pool is made only by a task that
starts, so 3 callers need no fourth pool.
In `serving`, filling the cache, touching an entry and overflowing it take 4
calls; the times to live differ so that entries expire in another order than
they came. `len // 5 > 1`, the eviction of more than one entry, needs a cache of
ten and is not reached: with two entries exactly one goes. In `tools`, one call that is kept and one
that meets it on the same or the next day are all that `AnswersTheQuestion`
speaks of, and every pair of inputs is tried; a screen does not touch the cache
and is tried alone (`OnlyCall`); three rows have ties, a best and a dropped one.
In `translation`, three of
each have more fields than codes, fewer, and as many, one time and several, and
12 cells hold 3 by 2 by 2; a parser never compares values, so two will do. The codes
have every first digit of a mainland number, numbers short of their zeros and with
too many, and a mapped and an unmapped name of each form; the days differ in each
of year, month and day, in opposite directions, and each is written in all four
ways. In `server`, one request that starts or wedges the session and one that
meets what it left, cached or not, precede any end of the process; a client's
warm-up counts as a request. The pairs of file and environment are none of either;
numbers, where the environment overrides a text of the file, whose size of 1 makes the
second answer evict; and texts, with which every later hit and every store raises. One pool is all there is, as nothing recycles it;
`MaxCalls` of `WindSession` is large enough never to bind (`ServerBounds`).
The proofs remove the bounds on threads, retries and calls for the properties
they cover.

*Deadlock* is not checked: operations are counted, or each caller calls once,
so the models stop when all are done, and `Server` when its process is gone.
`OnlyDedupHitsBlock`, `AcceptedAndJoined`, `MainComesBack` and
`WedgedQueryBlocksNobody` say what would be wrong with stopping earlier.

*Fairness.* In `WindSession`, of each thread's steps in the lifecycle (the lock
is granted to somebody, `w.start` and `w.stop` return, the backoff is a finite
sleep); a thread that waits for the lock could be starved by endless others
under weak fairness alone, but not by a bounded number of operations. Nothing
is assumed of queries. In `RunWindSync`, of the workers, since `run_wind_sync`
has no timeout ("The executor waits for WindPy to return", repository README),
and of a shutdown that has begun. In `RunWind`, of the event loop's ready
callbacks, of timeouts (`_call_timeout` is always finite and positive), of
lifecycle steps of workers; nothing of queries. In `Server`, that the main
thread and the worker run on, queries included, for the same reason as in
`RunWindSync`; arrivals, interrupts and drops of the connection need not come.

## What the code does otherwise than it says

Each of the five is a violation run above; the traces of the first three were
also reproduced by driving the code with a stand-in for WindPy.

* A dedup hit in `run_wind` awaits while it holds `_inflight_lock`
  (`core/executor.py:116-120`), a `threading.Lock` that the awaited task, every
  timeout and every later call must take on the same thread: the loop stops.
* The `finally` of an abandoned task pops its key even when the key leads to a
  later task by then (line 133), and a duplicate is submitted.
* While `shutdown_executor` waits for the old pool, `_get_executor` makes a
  new one (line 196): two Wind calls run at once.
* The key of a historical query has its dates as the caller left them, and the
  answer is kept for 12 hours (`handlers/historical.py:30`): after midnight an
  empty end date, documented as today, gives the series up to yesterday. The same
  holds of relative dates, and of `macro`, `sector_series`, `minute_bars`, `ticks`
  and `portfolio_series` within their times to live. The handlers of dates and of
  the event calendar put the date itself in the key.
* The settings of `[session]` in the repository's `wind_mcp.toml`, and the
  environment variables it describes for them, flatten to names that are no
  fields (`core/config.py:148`), and `reconnect` uses its default arguments: a
  lost connection gets three attempts whatever is set.

`_get_executor().submit(...)` is not atomic (line 182): a shutdown in between
makes the call fail, where the comment at lines 189-191 promises a fresh pool.
`RejectedOnlyIfOvertaken` of `run_wind_sync` is the promise that does hold.
Likewise `_abandon_query` recycles whatever pool is current (line 169), where
`run_wind` promises that "the wedged executor is abandoned": the second of two
timeouts on one wedged pool discards the healthy pool made since.
`LosesPoolOnlyToLateTimeout` says that nothing else does. `EveryCallEnds` fails
by the dedup hit alone; `OnlyDedupHitsBlock` says so.
"All Wind API calls MUST go through this executor" (`core/executor.py`), but
starts, restarts and stops of the SDK run on the main thread as well;
`SdkUsedByOneThread` says that they still exclude each other, until an exit's join is
interrupted. An interrupt during the very first `w.start()` leaves the SDK
started with both flags down, and no hook stops it.

Seen while reading, and not in a run: `except TimeoutError` (line 151) does not
catch `asyncio.TimeoutError` on Python 3.10, which `pyproject.toml` admits: the
models take 3.11 or later. `_abandon_query` waits for the session's lock on
the event loop's thread (line 174), so a `w.start` that never returns stops the
loop; `run_wind` assumes it returns.
`company_profile` gets the session before it looks in the cache
(`handlers/composite.py:32`), so a cached profile is not served when Wind is
down, unlike every other cached answer. A TTL in the configuration that is not a
number is stored as it is and makes `cache.get` raise on every later hit
(`core/cache.py:71`); a size that is not makes `cache.set` raise after it has
stored (line 100). Of all settings only those of the cache are ever read.
`record_wind_api_call` is never called, so `wind_metrics` reports no Wind calls.
The repository README (line 291) has `EURUSD Curncy` become `EURUSD.FX`; the map's
key is `EUR`, so `EURUSD` is sent. `GY` has a rule in `_convert_equity` but is not
among the markets of `BBG_FORMAT_RE`; an index named with a market (`HSI HK
Index`) becomes `HSI HK.GI`. `ED-1y` is refused where `ED-1Y` and `-1y` are
accepted. A query that wedges in `run_wind_sync` also wedges the exit. A negative `top_n` of `dynamic_screen` cuts off that many rows
at the end, and one text among the numbers of the ranking field makes the sort
raise, after both queries succeeded. An element `"close,pe_ttm"` of a list of
fields is not split, so it escapes the deduplication; the models have lists of
single names.

## Proofs

`WindSession_proofs`: `TypeCorrect`, `FailureRemembered`, `FlagsTruthful` and
`Implementation`, for any finite or infinite sets of threads, any `MaxRetries`
and `MaxCalls`. The inductive invariant has, besides `TypeOK`,

* `LockInv`: a thread inside the lifecycle holds the lock, and whoever holds it
  is inside. Without it two restarts could overlap.
* `DownInv`: from the entry of `reconnect` to its end the flags say unusable.
  `FailureNotForgotten` needs it: an invalidation that waited for the lock finds
  flags that the restart has set, not ones it is about to set.
* `SdkInv`: flags that say usable never meet a stopped SDK, whoever holds the
  lock. `FlagsMatchSdk` is the part of it that other threads can see.
* `BlameInv`: as `FailureNotForgotten`, and the same of a restart that is under
  way: a start that began before the failure, or whose failure nobody is left to
  mark, cannot end in a session that looks sound.

There is one lemma per conjunct and in it one step per action. `ContractStep`
maps every step to a step of the contract or a stutter; `Implementation`
follows by temporal logic.

`RunWindSync_proofs`: `TypeCorrect`, `SharedPoolOpen`, `RefusalsExplained`. The
invariant adds that who holds, closes or joins a pool has one
(`HandleTypeInv`), that pools are numbered as they are made, so a new one is
known to nobody (`MadeInv`), and that a pool a caller got is the shared one as
long as no shutdown has begun since (`HandleInv`).

`Executor_proofs` has what the operations on the pools do, for the modules
that use them. `RunWind_proofs`: `TypeCorrect`, `PoolClean`, `JoinsAreLive`,
`KeepsTheContract` (every step of the loop and of the workers on the session is
one the contract allows, so the two halves of the system fit),
`FirstTimeoutSparesOthers` and `QueriesOnRebuilt`, for any callers, keys and
number of pools. The invariant
adds where a caller's job is while it waits (`CallerInv`), what a queued or
running job may be (`JobInv`), the numbering of pools (`MadeInv`), that what
was abandoned was so together with its pool (`AbandonInv`), which is why a later
call cannot meet it, and that the pool of a query that has begun is shut down or
still the shared one (`PoolsInv`), so that the first to give up on a pool meets
it as the current one. `QueriesOnRebuilt` follows from the contract's own
invariant (`PromiseKept`), carried over by `KeepsTheContract`.

`Serving_proofs`: `TypeCorrect`, `NeverTooMany`, `EvictsLeastRecentlyUsed` and
`Implementation`, for any queries, answers, clock and size limit. The invariant adds to
the types that the cache is finite and that `used`, the history of last uses, is
what the entries hold in `last_access` and never lies in the future
(`AccessInv`): an entry is as old as its last hit, not as its last write, and
the entry just set is the youngest, so that it is never the only one to go.
`SetResult` is the lemma about eviction: at least one entry goes from a cache
over its limit, and only from such a one. `ContractStep` maps a hit to the contract's
`Repeat`, a set to `Answer` with the evicted ones left out, a miss to `Forget`.

`Server_proofs`: `TypeCorrect`, `OneThreadInSdk`, `SdkReleased`,
`MetricsTruthful` and `SettingsHonoured`, for any keys, files and environments, any number of requests,
retries and pools, and interrupts wherever the model has them. It is built on
`WindSession_proofs`: by `SessionStep` every step of the process is a step of
the session with the two threads, or leaves it alone, or is an interrupt that
unwinds `get()`; so `LockInv` and `DownInv` are taken from there, and only the
interrupt is looked at again (`SessionInvStep`). On top of it the invariant has

* `MainInv`: what the main thread is at says what it wants of the session.
* `JobsInv`: at most one job, in the shared pool, and none while the main thread
  may be in the session, unless the join at exit was interrupted (`hurried`).
  `OneThreadInSdk` follows from these two: the lock is not enough, since a query
  runs without it.
* `FlagsInv`: if both flags are down, the SDK is stopped or a history says why
  it is not; and they are down when the process is gone. That nothing happens afterwards
  (`NothingAfterGone`) needs the last join, of `shutdown_executor`.
* `CallInv`: a call that has looked in the cache has made the limits known, and
  no call is lost before the process begins to leave.
* `MetricsInv`: the counters' sums, sharper than `MetricsAddUp`, which counts
  any call in progress: here only one that has looked and missed (`Pending`), with
  the dynamic screens on the side of the calls that never look. It needs of
  `CallInv` that only screens resolve a universe.

`SettingsHonoured` needs none of these: the settings never change and the limits
are either unknown or what they make (`LimitsOnlyLoaded`), whoever loads them. Its
argument is `LoadPriority`: `load_config`, which goes through the file and then the
environment, setting by setting, gives a field the last value set for it in the
environment, else in the file, else its default, for any number of settings.

`Translation_proofs`: `TypeCorrect`, `EveryValueInPlace` and `RefusalsJustified`, for
tables of any size. The invariant says in which of Wind's forms `data` is
(`Arrived`); from it follow the lengths the parsers look at, and from those that
the branch taken is the one for that form. They are theorems of `Parser`;
`ParsesAsParser` carries them over to `Translation`, which the run checks.
`RangesForward`, for the ranges that are checked: a text is at most one day, since a dash is no month (`OneDay`),
and the order of dashless texts is that of the days (`AfterIsLater`), because
each part but the year stays below a hundred.

`ListingsSame` is about numbers of any length. What is sent is
what `ConvertSingle` makes of what was said (`CodesInv`), and the rest is about that
operator: zeros before a number do not change it (`PaddedNumber`), `lstrip("0")`
takes off what `zfill` puts back (`StrippedPads`), a number that does not begin
with 0 and is below a hundred thousand has at most five digits (`LongNumber`), so that
Hong Kong's width is always reached and never exceeded, and the first digit of six
tells the hundred thousands and with them the exchange (`BoardIsExchange`). For the
second half, `EquityStays`, `ByMapStays` and their like say of every branch that it
ends in a form that is left alone; only the mainland's has to be looked at, since a code of
any other place is passed through. A number is written in one way in a given
width (`OneWay`), hence `OneShareOneCode`: two names of one share give one
code, and so one key of the cache.

`Tools_proofs`: `KeyDeterminesQuery`, for any codes, fields, options and dates,
with one case per tool: a key says of itself which query and category it stands
for (`QueryOf`, `CategoryOf`), so no two tools and no two inputs can be mixed up
under one key. With it the invariant `KeptAnswers`, that the cache holds under a
key what the key stands for, is kept by every call, and `RepliesAnswer` and
`TypeCorrect` follow for any number of days and calls.

`EachFieldOnce` and `ScreenReturnsTop`, for lists of any length. By
`ShownHolds` a screen's fields are the expansion of its input's and its result is
the outcome for the rows quoted; a reply's query is known from its call.
`ExpandedOnce`: after each field, what is kept has one of every field so far and
nothing else. A
filter's result is a selection of the rows by ascending positions, and so is the
result of one filter after the other (`FilteredPicks`, `PickAgain`, `FiltersPick`);
the ranking is one permutation of these that puts nothing behind what it is ahead of
and keeps ties in place (`RankingRanks`), and a cut keeps the beginning of it
(`CutKeeps`). `OutcomeIsTop` puts them together.

What a loop over a list computes is proved by induction on the position. The
library's induction rules take an operator, so each of these modules has
`Induction` over a set of numbers, from the least element of a well-founded order
(`WFMin`, `NatLessThanWellFounded`), and `Iteration`, that there is a function with given
first value and steps: TLA+ says what a recursive function is only if one exists.

They rest on the named assumptions of the modules: `NoThread` is no thread,
`NoJob` no job, `NoAnswer` no answer and `NoLimits` no limits a configuration has,
callers and terminators are disjoint, the main thread is not the worker, bounds
are naturals (of `MaxCalls` in `Server`, that it is never reached), `MaxRetries`
is positive (`reconnect` with 0 would not try), a cell of a response is not a
list, a dash is no month, and parts of a day of the same width are in the order
of the numbers they stand for (`CalendarAssumption`). Settings, fields, filters,
codes and rows come in finite lists (`ServerLayerings`, `FieldsAssumption`,
`ScreensAssumption`, `WindAssumption`, `CodesAssumption`), magnitudes, those of codes
as texts included, and `top_n`
are integers, screens are no calls the cache keeps (`ServerKeys`), and the defaults are a function of the configuration's fields
(`DefaultAssumption`). Of `str.upper`, that capitals, digits and the mainland's
suffixes are their own (`UpperAssumption`, `DigitsAssumption`); of the tables in
`converter.py`, that no market or suffix but the mainland's is written `SH`, `SZ` or
`BJ` (`MarketsAssumption`), and that the maps hold codes in Wind's own form
(`MapsAssumption`).

*Only model-checked*: liveness, which needs fairness: `ENABLED` is beyond the
provers (`AcceptedAndJoined`, `OnlyDedupHitsBlock`, `WedgedQueryBlocksNobody`,
`MainComesBack`). Every safety property of a passing run is a theorem.

## Not modelled

`health_check`, which reads two flags without the lock: on the event loop's
thread nothing of the session changes meanwhile unless a worker is recovering,
and nobody acts on its answer. The text of messages, the
length of backoff delays (only that they end and are slept with the lock held),
WindPy itself beyond what is visible to the code, FastMCP and asyncio beyond
the order of callbacks. In the cache: `clear` and `stale_get`, which nothing in
the server calls, and a clock that is set back. In the converter and the
validators: `wind_to_bbg`, `validate_wind_codes`, `validate_edb_codes` and
`validate_sector_codes`, which the server does not call, and the contents of the
maps. In the parser: the dates of the `tdays` family. Of the metrics: latencies
and uptime. A process that is killed, or interrupted while its exit hooks run, and
threads that FastMCP may start of its own.

## Plan

1. A day's end within a call (`calendar` reads the date twice).
2. `wind_to_bbg`, once the server calls it, as the inverse of the conversion.
