# Couchbase Analytics MCP Server: TLA+ models, model checks and proofs

This directory holds TLA+ models of the parts of `cb_analytics_mcp` in which the order of
events matters, the TLC configurations that check them on small instances, and TLAPS proofs
of what holds for every size. Paths below are relative to the repository; `http_client.py`
and the like are under `src/cb_analytics_mcp/`.

    tlc -config MCCircuitBreaker.cfg MCCircuitBreaker      # check one instance
    tlapm HttpClient_proofs.tla                            # check the proofs

`PROJECT.json` lists the components, the runs, which source lines each definition stands
for, the hazards, the findings and the theorems.

## 1. Inventory

The server is one asyncio process: MCP clients call tools over HTTP, each tool runs in a
wrapper that limits, times, counts and audits the call, and most tools make one REST request
to a Couchbase Analytics cluster. A web GUI may run in the same event loop. Nothing is
multi-threaded; what interleaves are coroutines, and they can only be interrupted at an
`await` that really suspends (a network request or a sleep: the asyncio locks of the code are
never held across one, so taking them never suspends).

| component | state it keeps | operations | hard behaviour |
|---|---|---|---|
| circuit breaker (`http_client.py`) | `_state`, `_fail_count`, `_opened_at` | `call` = admission, then the coroutine, then `_on_success` / `_on_failure` | outcomes of calls admitted under an earlier state; late failures; cooldown |
| HTTP client (`http_client.py`) | attempt of each request | verb methods, retry loop, mapping of status codes | retries inside one breaker call, cancellation, budget |
| rate limiter (`rate_limit.py`) | buckets per (token, category) | `check`, `reset` | lazy creation and refill, rounding of `retry_after_sec` |
| result cache (`cache.py`) | `_cache`, `_pagination` | `get`, `set`, `clear`, `store_/get_/drop_pagination` | two kinds of entries under one limit; two dictionaries that must agree; expiry |
| query tools (`tools/query.py`) | a `PaginationState` per handle | read-only query, paginated query, next page | state read before and after an await; evictions, failures, lost replies during a walk |
| tool wrapper (`tools/shared.py`) | local `success`, `error_str` | `call_tool_observed` | exactly one record per call on every path, cancellation included |
| client pool (`pool.py`, `couchbase/client.py`) | `_clients`, `_names`, `_capella` | `startup`, `shutdown`, `resolve` | overlapping lifespans, cancellation between two pings, a client that cannot be made |
| process (`__main__.py`, `config.py`, `cli.py`, `gui/app.py`) | the two server tasks, the pools, the exit code | `main`, `_run_both`, `_call_offline`, `_call_remote` | one server ending or failing while the other runs; signals and Ctrl-C at any point; exit codes |
| log tail (`gui/routes/logs.py`) | open file and position of each websocket | initial tail, open, poll, send | rotation, truncation, lines between two reads, bursts |
| audit log (`observability/audit.py`, `gui/routes/admin.py`, `gui/routes/dashboard.py`) | `audit.log`, `audit.log.1` ... | `record`, rotation, reading back | kills between two renames, half-written lines, what falls off when |
| redaction, parsing of variables, models, other tools, other GUI pages | none | pure functions and adapters | none that depends on order |

Interactions: a tool call (`ToolCall`) consults the limiter, then runs an implementation;
the query tools read and write the cache and await `HttpClient`; every `HttpClient` request
runs inside its breaker. The pool owns one `HttpClient` per cluster. The audit log, the
metrics and the log file are written by the wrapper and read by the GUI.

What makes each part correct:

* breaker: nobody is let through during a cooldown that follows `fail_max` consecutive
  failures, everybody otherwise; a cooldown ends;
* HTTP client: a request, retries and all, is one call of the breaker; the retry budget is
  spent, and never exceeded; the load on a failing backend only drains;
* limiter: as if each bucket refilled continuously; never more than `rate * (1 + L)` calls in
  `L` seconds; waiting `retry_after_sec` is enough;
* cache: bounded, the two dictionaries agree, the victim of an eviction is the entry with
  the least to lose;
* walks: each row once and in order, the end announced truthfully, nothing left behind;
* cached reads: a bound on how stale an answer can be;
* wrapper: one audit record and one count for each call, telling what the caller was told; a
  tool runs just when the bucket that the calls of its category share has a token for it;
  what changes a cluster is limited as a write, and was done if it is recorded as done;
* pool: what it offers is consistent at any instant, only a shutdown takes clients away, and
  a lifespan leaves nothing behind;
* log stream: no line twice or out of order, and none left out without one of three reasons;
* audit trail: what the files hold is a run of the records up to the latest, a record falls
  off only when the retention is used up, and the pages show the newest;
* process: a failing server ends it, a stopping one does not; its pools are shut at the end;
  the exit code of a tool call tells what became of the tool.

## 2. Modules

| module | models | extends / uses |
|---|---|---|
| `BreakerContract` | what a breaker promises | |
| `CircuitBreaker` | `_AsyncCircuitBreaker` | refines `BreakerContract` |
| `HttpClient` | `HttpClient._request`, `_do_request` | extends `CircuitBreaker` by the retry loop; its requests are a `BreakerContract` |
| `TokenBucket` | a bucket that refills at every tick | |
| `RateLimiter` | `RateLimiter` | refines `TokenBucket` |
| `RateLimiterClients` | clients that obey `retry_after_sec`, and an observation window | `RateLimiter` |
| `ResultCache` | `ResultCache` | |
| `PaginatedQuery` | `execute_query_paginated`, `fetch_next_page` | `ResultCache` |
| `ReadonlyQuery` | `execute_query_readonly` | `ResultCache` |
| `ToolCatalog` | the 55 tools, their categories and their requests | |
| `ToolCall` | `call_tool_observed` around any of them | composes `RateLimiter`, `ToolCatalog`; the calls that run are a `TokenBucket` |
| `ClientPool` | `ClientPool` and the lifespans of the server, the GUI and the command line | |
| `LogTail` | the websocket follower of the log file | |
| `AuditTrail` | `AuditLog` over its rotating file, and the pages that show it | |
| `ServerProcess` | `main`, `_run_both`, the tool calls of the command line | |
| `HttpClient_proofs`, `RateLimiter_proofs`, `ResultCache_proofs`, `PaginatedQuery_proofs`, `ReadonlyQuery_proofs`, `ToolCall_proofs` | the theorems of section 5 | the module, what it is built on, and TLAPS |
| `Lifecycle_proofs` | theorems about pools and processes | `ClientPool`, `ServerProcess` |
| `Logs_proofs` | theorems about the log files | `LogTail`, `AuditTrail` |
| `MC*` | instances for TLC (`ServerProcess` has no constants and needs none) | |

### Circuit breaker

`state`, `failCount` and `sinceOpened` are `_state`, `_fail_count` and
`time.monotonic() - _opened_at`; `calls[c]` says whether caller `c` is awaiting the wrapped
coroutine. `Admit`/`Refuse` are the critical section at the head of `call` including
`_maybe_half_open`; `Succeed`, `Fail`, `Excluded` are its three ends. `BreakerContract` knows
only a streak of failures and the time since the latest trip, and lets a caller through unless
the streak has reached `FailMax` and the cooldown is not over. The refinement mapping is the
identity on count and clock; what has to be shown is that the three-valued state decides the
same.

The clock is capped at `ResetTimeout` and the count at `FailMax + 1`, because the code only
compares them with `>=`. `_opened_at` starts at 0, that is, the host's boot; `sinceOpened`
starts anywhere.

### HTTP client

`phase[c]` and `attempt[c]` are the position in the retry loop, `outcome[c]` the result of the
latest request. `AttemptEnds` is one round of `async for attempt`: it retries only after
`AnalyticsServerError` (an httpx error has become `AnalyticsConnectionError` inside
`with attempt`), otherwise the request ends and the breaker is told. `Resume` sends the next
attempt without consulting the breaker. `stop_after_attempt(0)` still makes one attempt.

`RequestsMeetContract` counts requests without asking the breaker: `Seen(c)` is a request that
has begun and not been answered, read off `phase` and `attempt`, and `failures` is history, the
failed requests since the latest success, kept from what callers are told. With these
in the place of the breaker's variables, the client implements `BreakerContract`: a request is
let in and refused as if it were one call with one outcome. A client that told the breaker of
every attempt, or asked it before every attempt, would not (the breaker's own
specification would still hold); the run's mutant counts the attempts.

### Rate limiter

Time advances in ticks of `1/Hz` second; `tokens[k]` counts `1/Hz`-ths of a token, so one
tick adds `Rate(k)` units and a call costs `Hz` units: exact arithmetic where the code uses
floating point. `known` is the domain of `_buckets`, `sinceRefill[k]` the time since
`last_refill`. `Refilled(k)` is what the bucket holds once `check` has brought it up to date.
`TokenBucket` refills every bucket at every tick; the refinement maps its `level` to
`Refilled`. `RateLimiterClients` adds clients that wait `retry_after_sec` when refused, and a
window that any observer may open.

### Result cache

`entries` is `_cache` with each key's payload and remaining life, `pagination` the domain of
`_pagination`. Every method runs without suspending and is one action. `PutOutcomes` is an
insertion with `_evict_if_full`; between entries that expire equally soon the victim is any
of them.

### Query tools

Each call is cut at its await. In `PaginatedQuery`, `pstate[h]` is the one mutable
`PaginationState` of a handle, shared by every fetch in flight: `Fetch` reads `next_offset`
before the await, `NextPage` reads it again after it, advances it, stores the state and drops
it when the page was short. `walk[h]` is what the clients of `h` were given, with two bits of
history: `overlapped` (two fetches of the walk were once in flight together) and `lost` (a
reply did not reach its client). The properties of a walk say which of the two they need to be
false; TLC explores both. `Abort` is a query that fails or is cancelled at its await. In
`ReadonlyQuery` a payload is the version of the data it was computed from.

Assumed of the backend: during a walk the result and its order do not change (LIMIT/OFFSET
without ORDER BY promises neither); a query takes at most `MaxLatency`.

### Tools and their wrapper

`ToolCatalog` has one record per class of the REST API, with a field for each method, and one
per module of `tools/` (`Groups`), with a field for each tool: which method the tool calls, what the
method's request does to the cluster (reads, changes, runs the caller's statement) and whether
a malformed body matters. `QueryCategory` and `WriteCategory` are what `TOOL_CATEGORY` lists;
everything else, listed or not, is a read.

In `ToolCall`, `Enter` is the wrapper and the implementation up to the await of its request,
`Unsent` a call that ends without one (a cached result, refused arguments), `Refused` the
rate-limited path, `Leave` every way the request can end, with the `finally` block. `Apply` is
the backend doing what it was asked, at any time before its answer or without one.
`ClusterEndings` and `CapellaEndings` are the mapping of answers to results by `HttpClient` and
by `CapellaClient._request`. No tool passes a `client_id`, so all calls use the token
`"anonymous"`. `Kinds` groups tools whose calls are alike, so that TLC need not repeat them.

`used` and `verdict` are history of the tools and not of the limiter: a call whose
implementation ran has used one token of its category's budget (`Uses`), one that was turned
away before it ran has used none (`TurnedAway`), and time gives the budget back (`WearsOff`).
`CallsShareBuckets` says that what is left of the budget behaves as a `TokenBucket`: an
implementation runs only on a token, and is refused only for want of one. A wrapper that
does not ask the limiter, asks it twice, or runs the tool whatever it said, breaks this.

### Client pool

A lifespan `s` is at one of its suspension points: pinging its i-th cluster, up, closing a
client, closing Capella's. The client it makes for the i-th cluster is the pair `<<s, i>>`,
Capella's is `<<s, 0>>`; `open` is the set of those made and not closed. `_clients` is an
insertion-ordered dictionary and so a sequence of items; `LoopFrom` is Python's iteration over
it, which raises `RuntimeError` when the dictionary's size has changed across an await. A ping
never fails the startup (it is logged), but making the next client may: httpx raises when it
cannot read its certificates or does not accept a proxy or a header, outside the `try` of the
ping and before that of the lifespan, so nobody shuts the pool down (`StartupRaises`). A close
that fails still makes its client unusable, and a cancellation may hit any of them. `quiet[s]`
and `serial` are history: nobody else has shut the pool down while `s` was in; lifespans have
not overlapped and none was cancelled or broken off. At least
one cluster is assumed to be configured.

### Log tail

A line is its number and a file is the sequence of the lines in it; `file` has one entry for
every file that was ever created at the path, `path` is the one `LOG_FILE` names now, `writer`
the one the server's `FileHandler` has open, `fh` and `pos` the one the follower has open and
its position. `Log` appends a line. The operator truncates (`CopyTruncate`), renames and
creates; a restarted server opens the path anew (`Reopen`). The follower's steps end at its
awaits: `ReadTail` reads the last lines of the last `_TAIL_BYTES`, `Send` is one frame, `Open`
seeks to the end, `Poll` compares the size of the path with the position and reads
(`ReadNew`), keeping the first `_WS_MAX_LINES_PER_TICK` lines. The browser goes without
telling; the next frame fails (`SendFails`). How many lines fit into `_TAIL_BYTES` is chosen
from `TailWindows`.

`past` is history: the three things that may explain a line the browser never gets. `rotated`:
the file was truncated or renamed. `raced`: lines were appended while the first tail was being
sent, before `Open`. `cut`: a poll found more lines than it may send. `StreamContiguous` says
that without any of them there is no gap; each is a state of the code that really loses lines.

### Audit trail

`gen[i]` is the sequence of lines of `audit.log.i` (`gen[0]`: `audit.log`) and `DOMAIN gen` the
files that exist. A line is the number of the record it ends with, its size, and whether it can
be read; `written` is history, the records that were written whole. `Record` is the tail of `AuditLog.record`; when the library finds the file
full it starts a rotation, of which each rename or removal is a step (`Rotate`), because the
process may be killed between two of them (`Kill`, `Start`). A write may be whole, fail, or
stop half way, in which case the next line is glued to it and neither can be read (within
one process Python's stream would keep the rest in its buffer and write it before the next line,
so that gluing is possible in more states of the model than of the code); the library
reports none of this to the caller. `RotateBytes` and `RotateKeep` are sets, so that one run
checks several configurations, among them 0 and negative ones. `AdminPage` and `Dashboard` are
what the pages show. Both are filled by the loop `Places`, which goes over the lines from the
last one back; `Filters` are the filters a reader of the page may set. A date is the number of
a record, the clock being assumed not to go back. The library's rotation is modelled from its documentation
and marked external.

### Process

`phase` is where `main` is, `task` the state of the MCP server's and the GUI's task, `pool` that
of the GUI's and the command line's client pool, `tool` what became of the tool a command
called, and `env` the settings the code's decisions tell apart. `Init` chooses every command
line and all settings. What uvicorn decides by itself is left open: a lifespan that fails makes
`serve` return, a port that is taken makes it exit, a signal reaches one server or both.
`Wait` is the `asyncio.wait` of `_run_both`, or the end of a server that is alone; `Cancel` the
cancellation of what is left. `Refuse` with exit code 1 is an exception nobody expects. A pool
is `abandoned` when its startup did not end, `leaking` when a client of it was not closed.

`Resolve` is `_call_offline` from the pool's startup on, which is awaited outside any `try`
(`cli.py:142-143`): when a client cannot be made, the command ends with a traceback and exit
code 1, no tool having run and the pool `abandoned`. Whatever is printed may find its reader
gone; `env.stdout` is FALSE when it does, and `PrintAndExit` has the codes that follow: 1
for the exception of `print`, 120 when only the interpreter's last flush fails.

## 3. Runs

| run | instance | shows |
|---|---|---|
| `breaker` | 3 callers, `FailMax` 2, `ResetTimeout` 3 | consistency, the contract, cooldowns end |
| `http` | 2 requests, 2 attempts, six status codes | budget, drain, requests as calls of the breaker's contract, requests end |
| `rate_limiter` | 3 categories (one unlimited), 4 ticks per second, windows up to 5 ticks | refinement of `TokenBucket`, the window bound, rounding costs at most half a quantum |
| `paginated` | results of 1, 3 or 4 rows in pages of 2, 2 clients, 2 handles, 1 cached query, room for 2 | what walks deliver under overlap, loss, failure, eviction and expiry; the cache under them |
| `readonly` | 2 callers, 3 versions of the data, latency up to 2 | how stale an answer can be |
| `tool_call` | 2 clients, all 55 tools, one change or query per second, reads unlimited | one record per call, agreeing with the answer and with what the cluster did; what changes the cluster is charged as a write; the tools that run and those turned away share one token bucket per category |
| `pool` | 3 sessions, 2 clusters and Capella, startups that end, raise or are cancelled | names and clients agree, only a shutdown harms, nothing is left |
| `log_tail` | 5 lines, up to 3 files, batches and first tails of 2 lines, `_TAIL_BYTES` worth 1 or 3 lines | order and gaps of the stream, delivery, which rotations are noticed |
| `audit_trail` | 5 records of 2 sizes, rotation at 4 bytes or never, -1, 1 or 2 files kept, pages of 2 | what the files hold, what falls off, what the pages show |
| `process` | every command line and configuration, startups that fail, output that is not read | exit codes, pools at the end, how servers end together |

Three callers are what a stale outcome, the trip and a fresh call need. Two failures trip the
breaker, so there are states below, at and above the threshold. The cache has one key more
than it has room for. A walk of one row ends with its first page, one of three with a short
page, one of four with an empty page. Three sessions are one that leaves, one that joins while
the first is leaving, and one that stays. TTLs of 1 and 2 keep the order of the code's 60 s
and 1800 s.

Five lines are a first tail, a batch, the line that is cut from it and one more file's worth;
three files are the one that is followed, the one it is renamed for, and one created while the
server still writes to the first. Five records fill two files of the two that are kept, the
active one, and one record that must go. With -1 files kept `max(0, rotate_keep)` matters.

`pool`, `log_tail` and `audit_trail` check a type invariant too, because theirs bounds the
sequences and places the other properties speak of; section 5 has every module's type
invariant for all instances.

`pool`, `log_tail` and `process` do not check deadlock: lifespans are entered once each, the
bounded log ends, and a process exits. `CatchesUp` and `NoticesRotation` are about a follower
that can move, and `FailureEndsProcess` about a process that must stop.

### Disagreements found while modelling

Each of these runs checks one sentence of the repository's documents or comments, and TLC
shows a behaviour of the code that contradicts it.

| run | sentence | what the code does |
|---|---|---|
| `http_retries_doc` | connection errors are retried (`docs/configuration.md:30`, `http_client.py:109`) | they are converted before the retry predicate sees them |
| `pool_sessions_doc` | the pool belongs to a lifespan (`pool.py:7`) | `server.py:77` makes one pool for all sessions; the first to end closes it under the others |

Others that the models carry as they are, without a run of their own:

* the cache is not bounded in size, as `cache.py:63-64` says: `_cache` is, but `_evict_if_full`
  (`cache.py:121-122`) leaves the victim's state, with its last page, in `_pagination`, from
  where only a later call with that very handle would remove it;
* fetching a page twice is not idempotent, as `cache.py:53-54` hopes: two overlapping
  `fetch_next_page` calls deliver one page twice and advance the offset twice, so the next page
  is delivered to nobody, and nothing reads `last_page`; `WalkIsPrefix` therefore speaks of
  walks whose fetches do not overlap;
* failures are not always answered with `"ok": false` (`docs/tool-reference.md:13-16`):
  `cluster_api.py:206` takes any answer of Capella's without a body for a success, so
  `AuditedChangesApplied` is about clusters only;
* `AUDIT_ROTATE_KEEP=0` makes the file grow without bound (the library does nothing when
  nothing is to be kept), while `audit.py:33` and `docs/observability.md:57-58` say that it
  does not; `RotatesAt` begins a rotation that renames nothing;
* the log stream does not always close "cleanly when the client disconnects or the file
  becomes unreadable" (`logs.py:131-132`): the follower of a quiet log is not told that its
  browser has gone, and one whose file is missing sleeps for ever;
* `docs/gui-guide.md:74` says the log page streams new lines; those appended between the first
  tail and the seek, those beyond 100 in one poll, and those of a new file that outgrew the old
  position before a poll are not (the `past` of `LogTail`, the last disjunct of
  `NoticesRotation`);
* a server that fails next to the GUI makes the process exit with 0, alone with 1: `_run_both`
  logs the exception and returns 0 (`__main__.py:168-175`);
* `except KeyboardInterrupt` in `_run_both` (`__main__.py:171`) is not what a Ctrl-C runs: `asyncio.run`
  turns the first one into a cancellation of the main task;
* an error that the MCP library words as plain text makes `tools call --remote` exit with 0
  (`cli.py:313-324`), while `cli.py:16-17` says it "exits non-zero on a tool-level error";
* `tools call` offline does not call `validate_config`, so of two clusters with one name it
  leaves the first one's client open; interrupted while its pool starts, it shuts nothing, and
  neither does it when a client cannot be made, which ends it with a traceback and exit code 1
  although no tool has failed;
* `--check` accepts URLs that `build_server` rejects with a traceback;
* a cancelled call is counted and audited as a success: `success` is initialised to True and
  neither except clause sees `CancelledError` (`tools/shared.py:78-128`), which is why
  `AnswersAudited` and `AuditedChangesApplied` leave cancelled calls out;
* `list_dataverses` and `list_datasets` run a query and are charged as reads, while
  `rate_limit.py:136-137` says reads are the tools that do not run one;
* an open breaker may close without passing half-open: a success of a call admitted before the
  trip closes it (`http_client.py:73`; the docstring at 39-41 knows only half-open);
* `retry_after_sec` may be rounded down to less than the next token needs
  (`rate_limit.py:103`); `PromiseAlmostKept` bounds by how much;
* a handle does not always live through 30 minutes of inactivity
  (`docs/tool-reference.md:78-79`): a full cache evicts it. `HandleKept` lists the reasons;
* a walk that ends with its first page leaves its handle (`query.py:192` stores it whatever
  the page's length); `FetchedOutIsDropped` therefore speaks of walks that ended in a fetch;
* the fetch that ends a walk stores the handle once more before it drops it
  (`query.py:247-253`), and so may evict somebody else's entry for nothing;
* `docs/architecture.md:15-22` says the GUI shares the server's pool, audit log, metrics and
  lifespan; `__main__.py` gives it only the configuration and `gui/app.py:48-57` makes its own.

## 4. Fairness

Only time and the network are fair. `WF(Tick)`: real time passes. In `HttpClient` also
`WF(Resume(c))`, since the event loop runs a coroutine whose sleep is over, and weak fairness
of an attempt's end, since httpx raises a timeout at the latest. No client ever has to call,
retry or cancel.

In `LogTail`, `WF(Follow)`: the follower polls for ever, since its task runs whenever it is
neither sleeping half a second nor awaiting a frame. Nobody has to log, rotate or restart. In
`ServerProcess`, `WF(WindUp)`: a task whose exception is there is seen by `asyncio.wait`, a
cancelled task ends, and closing clients ends (a client's close has no unbounded wait). A
server never has to start, stop or fail.

## 5. Proofs

The theorems hold for every value of the constants that satisfies the assumption of the module:
`BreakerAssumption`, `HttpAssumption` and `LimitsAssumption` (thresholds and resolution are
positive, retry budgets naturals, rates any integers), `CacheAssumption` (query keys and
handles are different strings, lives and `max_entries` are naturals), `PagingAssumption` (sizes
are naturals, `page_size` is positive), `ReadonlyAssumption`, `WindowAssumption`,
`PoolAssumption` (there is a cluster), `TailAssumption` (the follower's limits are positive),
`AuditAssumption` (sizes are naturals, the number of kept files any integer, no record fills a
file alone) and `CallAssumption` (rates any integers, a positive resolution). `ServerProcess`
has no constants: what TLC shows of it is already complete, and the
proofs say why it holds. The sets of callers, tokens, keys, handles, clients and sessions are
arbitrary, and may be infinite. The bounds of the models, such as `MaxLines`, are constants too:
the theorems hold for each of their values.

`HttpClient_proofs`. Of the breaker by itself: `BreakerTypes`, `BreakerConsistency`
(`BreakerConsistent`) and `BreakerRefinement` (`ImplementsContract`). The invariant is
`BreakerInv == BreakerTypeOK /\ BreakerConsistent`: the refinement needs it, because an
admission in the closed state is one the contract allows only if a closed breaker's count is
below the threshold, even after outcomes of calls admitted long before. `StepRefines` has one
case per action. Of the client: each of its actions is a breaker step or leaves the breaker
alone, so that `ContractInUse`, the breaker's contract for what the client tells its breaker, is
the refinement once more. What it does not say is that the client tells it the right things;
that is `RequestsAdmitted` (`RequestsMeetContract`), the contract for what callers get. Its
invariant `SeenInv` says that the breaker's count and its calls in flight never part from the
requests that failed and those that wait; with the budget's invariant below it makes the end of
a request, and no end of an attempt, an outcome. `BudgetSpent`
(`ServerErrorSpendsBudget`) needs `Pending`: a request that backs off has attempts left, and one
in flight has no outcome yet. `Drains` (`CooldownDrains`) follows from the types, the attempts a
request has left never growing while the breaker lets nobody in.

`RateLimiter_proofs`. `TypeCorrect`, `Refinement` (`ImplementsTokenBucket`), `ObservedTypes`,
`Bounded` (`WindowBound`) and `Promise` (`PromiseAlmostKept`). A bucket of the code is stale between two calls, so the mapped level is
`Refilled(k)`; `TickLevel` shows that one more quantum of silence is one more quantum in the
bucket, up to the capacity, and `SettleLevel` that writing the refilled value back changes
nothing but the cost of the call. The window bound is not inductive: its strengthening `CInv`
says that what was granted in the window, together with what the bucket holds now, is at most
one full bucket and the inflow since the window opened. For the promise, `Owed` carries the
rounding error through the wait: what is missing from a token is at most what the rest of the
wait brings in and half a quantum's inflow.

`ResultCache_proofs`. `CacheInv` (types, a finite domain, `SizeBound`, `HandlesHaveState`) is
kept by each method, one lemma each, whoever calls them; `Consistency` (`CacheConsistent`)
follows for a cache used in any order, and the proofs of the query tools cite the same lemmas.
`PutSpares` says what an insertion does to an entry stored before it: it stays, or it is dropped
from a full cache and nothing that stays expires sooner; `HandlesSpared` (`SetSparesHandles`)
is that for every method.

`PaginatedQuery_proofs`. `TypeCorrect`, `Agreement` (`CacheConsistent`), `Prefix`, `InOrder`,
`Complete`, `OffsetRight`, `Dropped` (`FetchedOutIsDropped`, which has no run), `Kept`
(`HandleKept`) and `Spares` (`SetSparesHandles`): all properties of the run `paginated`. None of the walk's
properties is inductive, since all of them depend on what a fetch in flight remembers. `WalkInv`
adds the missing link, `SoleFetch`: while the fetches of a walk have never overlapped, the
offset the one in flight was sent with is still the shared `next_offset`. `HandleOK` then says
that the rows delivered are those before that offset (exactly, or in order when replies were
lost), that an exhausted walk has reached the end, and that its handle is gone. `Kept` relates
two clocks, the life of a handle's entry and the time its walk has been idle, so its invariant
`KeptInv` adds `AgeIsIdle`: a handle with an entry has been issued, and while it is alive the
two add up to the life of a handle. Each action then serves each handle (`Served`): it leaves
the entry alone, stores it anew, or drops it for one of the reasons that `HandleKept` lists.

`ReadonlyQuery_proofs`. `TypeCorrect` and `Staleness` (`StalenessBound`). The bound is the sum of
two waits, in the backend and in the cache, so the invariant has a part for each: `ResultInv`,
a result on its way has been out of date for at most the age of its call, and `EntryInv`, a
live entry for at most `DefaultTtl + MaxLatency` less the life it has left. `CurrentInv` says
that only overwritten versions grow old.

`ToolCall_proofs`. `TypeCorrect`, `Records` (`OneRecordPerCall`), `AnswersRecorded`
(`AnswersAudited`), `ChangesApplied` (`AuditedChangesApplied`), `BucketsShared`
(`CallsShareBuckets`) and `WritesCharged` (`ChangesSpendWrites`): all properties of the run
`tool_call`. Two facts are proved about all 55 tools, group by group: `GroupsHonest`, no tool
that changes something swallows the failure of its request, and `GroupsCharged`, every change
is listed as a write and every statement of a caller's as a query. From the first,
`SuccessApplied`: a change of a cluster ends well only after a success, which the backend does
not answer before it has applied the change.

`BucketsShared` rests on `UsageInv`: what the tools that ran have used of a category's budget is
what the limiter's bucket, brought up to date, is short of a whole one (`LevelIsLeft`). A check
that is granted settles the bucket and takes the token that the tool then uses (`SettleLeft`,
`RunUses`); a tick of the clock fills the one as much as it wears off the other, up to the
capacity (`TickLeft`), which takes a case for a bucket that nobody has asked for yet.

`Lifecycle_proofs`, the pool. `PoolTypes` (`PoolTypeOK`), `NamesAlwaysAgree` (`NamesAgree`),
`ServedTillShutdown` (`ServedWhileQuiet`) and `CleanBetweenTurns` (`CleanBetween`). `NamesAgree`
is inductive with the types, given what an assignment to an ordered dictionary does
(`StoredAssigns`, for startups that go on and for those that raise, `RaisedStores`). That a quiet session finds every cluster is not, since another session that is still
starting overwrites the entries: `QuietInv` adds that each client in the pool or about to be
closed has been left behind by its maker (`KeptPast`), that the one being pinged is open
(`FreshPing`), that nobody shuts the pool down next to a quiet session (`QuietAlone`), and what
it has been served so far (`QuietServed`). `TurnInv` describes a pool used by one session after
another: exactly which clients each place of the session has put into it, which are open, and
that between two sessions it is as new. `CleanBetweenTurns` assumes `DistinctNames`:
`validate_config` refuses two clusters of one name, and an offline tool call, which does not
ask it, leaves one of their clients open.

`Lifecycle_proofs`, the process. `TypeCorrect`, `ExitCodes` (`ExitTellsOutcome`), `Pools`
(`PoolsShut`) and `Reasons` (`StopsForAReason`). The invariant says, phase by phase, which
command it belongs to (`PhaseInv`), how the GUI's pool goes with its server (`GuiPoolInv`), the
command line's with its phase (`CliPoolInv`), which exit codes are already decided while the
pool is being closed (`CodeInv`, so that a code of 1 whose text was read comes from a tool that failed or a
pool that never came up), and that nobody leaves before there is a reason (`LeaveInv`).

`Logs_proofs`, the follower. `TailTypes` (`TypeOK`), `InOrder` (`StreamInOrder`) and `Contiguous`
(`StreamContiguous`). `FilesInv` is what the server and the operator keep, whatever is renamed,
truncated and reopened: each file holds a run of lines (`Runs`), a file created later holds
later lines (`FilesInOrder`), files newer than the one the server writes to are empty
(`NothingAhead`), and that one ends with the latest line (`UpToDate`). `OrderInv` ties the stream to
them: everything sent or queued is older than all that the position can still reach (`Ahead`),
in the file that is open or in one opened after it. `GapInv` adds where the stream ends while
none of the three explanations holds: at the line before the position, in the file that
`LOG_FILE` still names, after the first tail (`TailUnbroken`) and while following
(`FollowUnbroken`).

`Logs_proofs`, the audit trail. `TrailTypes` (`TrailTypeOK`), `TrailUnbroken` (`TrailContiguous`),
`RetentionKept` (`RetentionFloor`) and `PagesShowNewest` (`ViewIsNewest`). `TrailInv` says that what can be read was written and
that the record which caused a rotation has not been (`RecordsKnown`), and that a rename never
meets a file in its way but the last (`NextIsFree`), which is why no interruption of a rotation
loses a file in the middle. `RetentionInv` explains a loss: rotated files are full
(`RotatedAreFull`), and unless a rotation was interrupted the generations have no hole
(`NoHoles`) and a record is lost only when all of them are there (`LostFromTheBack`).
`LatestIsActive` says that the latest record, if it was written, is in `audit.log`.

What the pages show is computed by a loop over the lines, and so proved by induction. The
library's induction theorems are about operators, which no backend here can instantiate;
`AllNumbers` is induction for a set of numbers, from the fact that `<` is well founded on `Nat`
(`NatLessThanWellFounded`, `WFMin`). With it `LoopEnds` shows that the recursive function in
`Places` exists, so that `PlacesLoop` may say it computes what it is written to compute, and
`PlacesCollect` that after k turns the loop holds the wanted lines among the last k, all of
them or as many as fit.

Model-checked only:

* liveness (`CooldownEnds`, `RequestsEnd`, `CatchesUp`, `NoticesRotation`, `FailureEndsProcess`)
  and everything that rests on ENABLED, which the prover does not reason about. Every invariant
  and every action property that a run finds to hold is also proved.

## 6. Not modelled

* The content of requests and answers: SQL text (`_strip_trailing_limit`, EXPLAIN, the escaping
  of `infer_schema`), row values, field-by-field conversion in `couchbase/models.py`, the REST
  paths. One request is one step that ends in a status class.
* Redaction and the parsing of variables and of the cluster file: pure functions on strings and
  nested data, with no state, whose cases the unit tests enumerate. A model of them would spell
  out the same cases again.
* Threads of the libraries: the metrics exporter and the logging handlers write counters and
  lines that the models record as one step (the rotation of the audit log excepted).
* `auth.py`: one constant-time comparison per request, before any of the above.
* The GUI's other pages: each renders what one API call returned. Its session is a signed
  cookie. `health.py` reads and changes nothing.
* `AuditLog.span`: no code of the server uses it.
* uvicorn, httpx, the MCP library: by what the code here relies on, with their own decisions
  left open.

## 7. Plan

What is left, in the order of what it would add:

1. The GUI's query page with its own pool, as another client of `ClientPool` and `HttpClient`.
2. The refinement of an abstract log by `LogTail` and by `AuditTrail` together: both are a
   bounded window on an append-only sequence.
