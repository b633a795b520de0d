# Blue Team MCP server: TLA+ models and proofs

Models of the stateful and concurrent parts of the Wazuh MCP server
(`src/mcp_server/`), and of what its tools answer when the services behind them
fail, checked with TLC on small instances, with TLAPS proofs of the invariants
that matter most. `PROJECT.json` holds the inventory, the runs, the mutants, the map
from definitions to source lines, the findings and the hazards.

```
tlc -workers 2 -config MCServices.cfg MCServices    # any MC module with its cfg
tlapm ServiceProofs.tla                             # any *Proofs module
```

## 1. The system

One Python process serves MCP tools to a client over stdio or HTTP. Tool calls
are coroutines of one asyncio loop, so state in memory changes only between two
`await`s; SQLite stores are also used from worker threads and from other
processes. Nearly all state is either a module-level dictionary with an optional
JSONL file behind it, or a SQLite database.

### Components with state of their own

| Component | State | Operations | Interacts with |
|---|---|---|---|
| HTTP call path (`core/http_client.py`) | per upstream `_failures`, `_opened_at`, `_half_open` | `_api_call`: ask the breaker, send, retry with backoff; breaker outcomes | every tool that leaves the host |
| RapidAPI budget (`threat_intel/rapidapi*.py`, `_cache.py`) | monthly counter, arm window, answer cache (both in JSONL), one-slot limiter | cached lookup, acquire, check, charge, reload | HTTP call path |
| Long-term memory (`core/memory_store.py`) | SQLite rows per subject, deduplicated | `record_decision` (two transactions), consolidation, retention, withdrawal, recall | investigation history, investigation graph |
| Attacker registry, false-positive set (`core/attacker_registry.py`, `core/false_positive_kb.py`) | indicator to time stamp and source, derived domain set, JSONL file, last sweep | register, lookup with lazy sweep, forced sweep, flush with cap, load | history, IOC store, 3-Sum engine, redaction, validator |
| False-positive validator (`agents/fp_validator_graph.py`) | one run's evidence | lookups, corpus query, rerank, decision | both indicator stores, retrieval |
| Investigation graph (`agents/investigation_graph.py`) | a run's channels and logs, a durable checkpoint thread per subject | twelve nodes, routes, `run_investigation` | almost every tool; validator, memory, history |
| Playbook graph (`agents/playbook_graph.py`) | the same engine with another node table | playbook runs | as above |
| Investigation history (`tools/investigation_history.py`) | JSONL file with a bounded rewrite | mark investigated, summaries | indicator stores, memory |
| IOC store, case store (`core/ioc_store.py`, `core/case_store.py`) | dictionaries with files | record, promote, cap | attacker registry |
| Cluster, source, forecast stores (`core/*_store.py`) | SQLite tables with caps and TTLs | save, trim, purge, coverage records | their tools |
| Audit log (`core/audit.py`) | queue, daemon writer, per-minute counter | enqueue, flush at exit and on a signal, rate limit | every tool call |
| Wazuh session (`wazuh/auth.py`) | one token and its expiry | get, refresh, invalidate | Wazuh tools |
| Server authentication (`core/server_auth.py`) | sliding-window counters | authenticate, limit | HTTP transport |
| Knowledge base (`core/rag_store.py`, `tools/rag_kb.py`) | SQLite rows, an in-memory query matrix keyed by the file's time | ingest (clear, embed, count, insert), query, status | case store, embedder |
| Reports to AbuseIPDB (`threat_intel/abuseipdb.py`, `tools/abuseipdb.py`) | ledger of recent reports, cache of look-ups | harvest, look up, judge, submit | Wazuh indexer, AbuseIPDB |
| Rule staging (`core/rule_staging.py`) | files | check, write, rename | rule tools |

The rest keeps no state that a later call depends on, and is of two kinds. The
*pure cores* (three-way correlation, transition model and forward pass, lineage of
clusters, ranking of sources, sliding windows) compute one answer from their
input. The *tools*, some ninety of them, ask one to eight sources (indexer
queries, providers, backends) and make one answer of what comes back, with their
own guards, fallbacks and partial results. `PROJECT.json` lists every component,
also those left out, with the reason.

### What is hard here, and what makes each component correct

* **Call path.** Several calls are in flight while the breaker opens, so their
  late outcomes reach a breaker that has moved on, and an `await` can end in an
  exception no handler names. Correct: one trial at a time and always somebody's;
  nothing is sent while cooling; every call ends; an open breaker probes again.
* **RapidAPI budget.** The cache is read before a wait and used after it; a charge
  happens after the money is spent; cancellation, kills and refused writes lose it;
  the month rolls over in between. Correct: the account never pays beyond the
  allowance except for losses that can be named; the slot is one slot; an expired
  window stays expired for its month; nobody waits for ever.
* **Memory.** Writers of several processes count, fold, expire and insert in one
  transaction that may roll back. Correct: the cap; no confirmation lost or
  counted twice; audit rows are permanent; only an analyst creates authority; a
  note that is not due does not disappear.
* **Indicator stores and validator.** Two stores with their own TTLs, caps and
  sweeps speak about the same indicator; memory and file drift after a failed
  flush. Correct: the analyst's verdict is honoured while it is fresh; no answer
  outlives its reason; caps hold; nothing dropped comes back.
* **Reports, corpus, fits, sources.** Several transactions, threads or requests make
  one operation, and other callers come between them. Correct: what was reported
  is warranted and told; a cached query sees the table; a fit and its centroids
  are of one computation; nothing vouches for rows that were never written or seen.
* **Files.** A line is cut short anywhere, between characters or inside one, and read
  by other rules than it was written by. Correct: what was told to a caller comes
  back; the file heals and keeps its bound. The code fails both for some texts (section 6).
* **Tokens, windows, audit entries.** Timeouts add up, clients are forgotten, two
  threads drain one queue. Correct: the age of a token on the wire has a bound; no
  window admits more than its limit; every entry is in one place, once.
* **Pure cores.** Ties, orders and rounding. Correct: what is computed is what an
  independent definition says; a backtest does not see the future.
* **Tools.** A source that failed looks like a source with nothing to say. Correct:
  nothing is shown that no source stands behind; more evidence never makes a
  verdict milder; a walk that follows the cursor leaves nothing out.
* **Investigation graph.** A durable thread carries channels from one run to the
  next; runs of one subject overlap and overwrite each other's checkpoints; a node can
  answer, fail, stall or be switched off; a run can die between two nodes. Correct: what a run
  returns, and the way it goes, is its own; a verdict is recorded only on demand;
  the history told is true; every run ends.

## 2. How the project is laid out

| Layer | Modules |
|---|---|
| Call paths and shared stores | `ApiCall`, `RapidApi`, `MemoryStore`, `Verdicts`, `InvestigationGraph`, `PlaybookGraph` |
| Small services | `SourceStore` (implements `SourceLedger`), `ClusterStore`, `CaseStore`, `IocStore`, `HistoryFile`, `RagStore`, `AbuseReport`, `WazuhAuth`, `RequestGate`, `AuditLog`, `IndexerSweep` |
| Pure cores | `ThreeSum`, `ForecastCore`, `Lineage`, `SourceScore`, asked by `CoreQuestions` |
| Tools | `AlertPaging` (walks), `Evidence` and over it `AlertReports`, `Lookups`, `Hunts`, `Documents`, asked by `ToolAnswers` |
| Instances | `MC*` with their `.cfg` |
| Proofs | `CallPathProofs`, `MemoryStoreProofs`, `VerdictsProofs`, `InvestigationGraphProofs`, `ServiceProofs`, `StoreProofs`, `AnswerProofs`, over the lemmas of `DataLemmas` |

`Verdicts` composes two indicator stores, the false-positive validator and
their writers. `MCServices` and `MCToolCalls` put modules side by side that share
no state: a variable `focus` says whose steps a behaviour shows, so TLC explores
the sum of their state spaces and not the product, and no property relates two of
them. Each composition is proved to refine every one of its parts, so a theorem about a
part speaks of the run as well. What could still be added: the tables of the forecast store and the race
of two saves of one staged rule.

## 3. The modules

Every action is a stretch of code between two awaits, or a whole transaction, and
models the complete handler. Definitions whose names say what they get wrong
(`FailureKeepsTrial`, `CapsAtFront`, ...) are no part of a specification: they are
the variants the mutants substitute, and stand just before the definition they replace.

### `ApiCall` - breaker and calls

`failures`, `age` and `halfOpen` are `CircuitBreaker`'s fields; the failure count
saturates at the threshold and `_opened_at` is kept as its age, saturated at the
recovery time, because the code asks only these comparisons of them. `pc` and
`attempt` are the position of each `_api_call`. `Start`, `Retry`, `Respond` and
`Abort` are the stretches between awaits; the methods `before_call`,
`on_success`, `on_failure`, `on_throttled`, `on_liveness` are operators of the
same names. `Abort` is an exception that no handler names: the breaker is not told.
Breakers of different upstreams share nothing, so one is enough.

### `RapidApi` - quota, limiter, cache

`Ask` looks into the cache and queues; `Acquire` is `__aenter__` up to its sleep;
`Request` is check and send; `Answer` charges, gives the slot back and remembers;
`Cancel` is a client's cancellation in each of the three places; `Restart` reloads
what is on disk. Every append may fail. Time is abstract: the environment ends an
arm window, an answer's TTL and the month. A refusal by the breaker of `ApiCall`
is a choice of the environment.

### `MemoryStore` - one subject's rows

`db` is the committed table and `txn` the uncommitted one of the lock's holder.
`Start` computes `_now_iso`; `Begin` is `BEGIN IMMEDIATE` with the folding and
expiry the cap asks for; `Write` is the upsert, the second count and `COMMIT` or
`ROLLBACK`; `LockTimeout`, `Crash`, `PruneMemory` and `Withdraw` are the rest.
`Proceed` is what `record_decision` does next, including the second transaction
for the reason. No statement reads another subject's rows, so one subject is enough.

### `Verdicts` - what is remembered of an indicator

A store is a value (memory, file, last sweep, whether the last flush landed) and
each function of the Python module is an operator from a store to the stores it
may leave. `Verdicts` has two such stores, the registry's derived domain set, the
writers (`Lead`, `MarkTrue`, `MarkFalse`), the validator from `Assemble` over
`Retrieve` and `Rerank` to `Decide`, other readers that sweep, and restarts. The
lookup of a domain takes whichever matching domain the iteration meets, as the
code does, entries without a source included.

### `InvestigationGraph` - the workflow

`mem[r]` holds a run's channels and logs, `thread` the last checkpoint of each
subject. `Begin` reads the subject's history, `Input` applies the reset input to
the checkpoint, then there is one action per node, in the order and with the
routes of the graph. LangGraph itself is external: what is used of it is that
`ainvoke` starts from the last checkpoint and saves the state after each node.
A value in a channel remembers which run wrote it, and says only what a route
reads. `Plans` gives each run its request and, for each node, what its calls
meet: an answer, a failure, a stall or a feature that is off. `Kill` ends a run
at any point.

### `PlaybookGraph` - the hunts

`run[r]` is the state of a playbook run: its template, rung, what it found and
tried; `liveIndex` is the mapping from rule groups to templates, loaded once, in the first
run. One action per node, with `Rung` for the ladder of fallback templates.

### `SourceStore`, `SourceLedger` - observed sources

`feed` is what the indexer shows, `rows` the table, `ingests` the records that vouch
for windows. `Observe` shows an alert at its time or up to `IndexLag` ticks later, and
`Fetch` takes any window, one that ends in the future too (`_parse_time_window` accepts
it), so a complete sweep has what the index shows by then and no more. `looked` remembers
for the properties what that was. An ingest is `Fetch`, `SaveRows`, `SaveIngest`, `PurgeExpired`, each a transaction
of its own, and `IngestDies` between any two; a prediction is `LoadRows` and then
`Gate`. `SourceLedger` is the promise without transactions, trimming or deaths: it
looks, learns, and vouches for a window with what it saw there only when it has learned all of that. `SourceStore`
implements it (`LedgerKept`, checked and proved), with what was trimmed still counted as learned.

### `ClusterStore`, `CaseStore`, `IocStore`, `HistoryFile`

*ClusterStore:* `LookForFit` and `SaveFit` are apart, as the look precedes the
transaction; an assignment is recorded for a fit loaded earlier.
*CaseStore, IocStore:* a dictionary and its file, a flush that may fail, a restart;
an indicator is its last day and its count. A case is the number of things it was given, and of its
texts whether a separator that `json.dumps(ensure_ascii=False)` leaves and `splitlines`
breaks at is in them (`CaseTexts`): `ReadBack` loses such a case, and a "bare" one, a piece of
which is a JSON value without `get`, keeps the next process from starting (`up`).
*HistoryFile:* lines, a last line that may be cut short, and the rewrite in place
that may leave the file empty. A line cut inside a character (`Garbled`) makes the file
undecodable: the rewrite gives up after the append, and readers get nothing.

### `RagStore` - the corpus and its query cache

Ingesting calls go through the stages clear, embed, count, insert, each a
transaction in a thread of its own; a reader looks at the file's time, fetches and
fills the cache. The time changes when the write-ahead log is copied into the file, not
when a transaction commits: `keyed` says that the cache is stored under the present
time, `unsynced` that the log has commits the file has not. Rows are labels, numbers and parent marks.

### `AbuseReport` - reporting an attacker

A call harvests addresses, looks each up (a request), judges it, and, with the
operator's grant, posts the eligible ones (a request each). The ledger of recent
reports and the cache of look-ups are shared by the calls and lost at a restart.
`Accepts` is AbuseIPDB's own 15-minute rule, which is external.

### `WazuhAuth`, `RequestGate`, `AuditLog`, `IndexerSweep`

*WazuhAuth:* the token with its age and what is left of it, and of each caller whether it
asks for a token or sends a request, and which wait it is in: three to reach the
Manager (pool, TCP, TLS), `Writes` to send, `Reads` to receive, each with
`HTTP_TIMEOUT` to itself as `httpx.Timeout` has it; then, after a failed attempt, the backoff or the
Retry-After, and the same request with the same token again. The constants are small
because the proof is for all of them. *RequestGate:* both sliding windows
with their bounded table, the origin, key and scope checks in order, and the fixed
window of the destructive tools. *AuditLog:* the queue with its non-reentrant lock, the
writer, the flush in a signal handler. *IndexerSweep:* the page loop with its
two cursors, the response cache, and the closing count, while alerts come late or go.

### `ThreeSum`, `ForecastCore`, `Lineage`, `SourceScore`

The cores as operators, in whole numbers: a recency weight is a power of two of whole
half-lives, scores are thousandths, probabilities are counts over a common
denominator, ratios are compared crosswise. `ThreeSum` also has the calls around the core. A
source is worth any amount in a category and a window (`Levels`: rule levels times tactic weights),
and a call has its own threshold, category weights and vulnerability boost (`Requests`); with the attack graph a
source has the best scores of its cluster, and its rank and registry bonus (`Suspicion`)
on top. There are both engines, whose queries may fail, the tiers of a multi-resolution call with
their own thresholds (`TriggerAt`), and the false-positive context. The worths of `MCToolCalls` lie on both
sides of each threshold. `CoreQuestions` poses one question at a time
and compares with definitions that do not follow the code's steps: all paths of
a chain, the future that avoids a target, the sightings before a cutoff.

### `AlertPaging`, `Evidence` and the tools

`AlertPaging` is a client that follows `next_cursor` through seven tools, with alerts
indexed meanwhile, documents too large for an answer, and the shortening of an
answer by the byte limit. A relative window is computed again for each call, so it
slides and alerts drop out of it (`Slide`, `floor`). An answer of the domain look-up over the limit is
replaced by an error that carries no cursor (`Refused`): its walk ends there, as failed. In `Evidence` a question is a tool, its options, and an
outcome for each of its sources: `Lost`, or a number of hits or a score. An answer
has a status, the views it shows (a view is a set of sources that stand in for one another),
the sources it names as failed, a claim and a verdict: the risk, class or heading it
prints, also where that is "unknown". Each tool of `AlertReports`,
`Lookups`, `Hunts` and `Documents` is an operator of its name from questions to
answers, with the tool's own order of guards, fallbacks and early returns. What
a tool stores on the way is in the module of that store.

## 4. The runs

| Run | Instance | Properties |
|---|---|---|
| `services` | eleven services, each on its own bounds (below) | `VerifiedHasAll`, `LedgerKept` (sources); `CompleteIsExact` (sweep); `TokenAgeBounded`; `HistoryHeals`; `LimitsHold` (gate); `FitsKept`; `CasesKept`; `PromotionEarned`; `CapHolds`, `ConfirmationsConserved`, `AuditRowsKept`, `OnlyAnalystsConfirm`, `NotesSurvive` (memory); `ReportsAccountedFor`; `CorpusTrue`; `ServicesTypeOK` |
| `calls` | eight areas of a tool call | `HalfOpenHasOwner`, `NoRequestWhileCooling`, `ProbeUnlessAborted` (breaker); `SpendBounded`, `WaitersServed` (RapidAPI); `AuditConserved`, `ShutdownEnds`; `GivesUpAfterAll` (playbook); `EveryCallEnds` (breaker and playbook); `TriggersEarned`; `SequencesFaithful`, `LineagesStable`, `ForecastsHold` (cores); `NothingLeftOut` (walks); `NoBlindAnswer`, `EvidenceNeverLowers` (tools); `CallsTypeOK` |
| `verdicts` | a mail address and its domain, TTL 1, sweep interval 2, caps of 1, 3 registrations, 4 ticks | `VerdictsHonoured`, `AnswersFounded`, `NothingRevived` |
| `investigation` | 2 runs, 4 requests, 3 fates, log cap 14 | `SummaryIsOwn`, `HistoryTrue`, `RunsEnd` |
| `api_call_probe` | 3 calls, threshold 2, recovery 2 ticks, 1 retry | violated: an aborted trial leaves the breaker refusing for ever |
| `rapidapi_duplicate` | 2 callers, 2 answers, cache of 1, allowance 2, 2 months | violated: two callers of one key both pay |
| `investigation_crash` | as `investigation` | violated: a timeout in the analytics node ends the whole run |
| `audit_shutdown` | 3 entries | violated: a signal inside `put()` leaves the process waiting for its own lock |
| `paging` | 5 alerts, two pairs of one time, one too large | violated: a walk that ended has left out alerts |
| `source_future` | 1 source, 3 ticks, complete sweeps only, no indexing lag | violated: a verified history lacks what happened after its sweep |
| `token_expiry` | one caller, a life of 30 ticks and a buffer of 2, one wait to write and one to read, one retry | violated: a request goes out with an expired token |
| `history_unreadable` | 5 verdicts, room for two | violated: a file cut inside a character is never truncated again |

What each property says is in the comment above its definition. The ones that carry most:

* `VerdictsHonoured`: while an analyst's verdict is fresh and was not evicted, it is
  what the validator answers, whatever the other store says.
* `SummaryIsOwn`: neither the summary of a run nor the way it goes through the graph,
  nor whether it records a verdict, depends on another run or on what the
  subject's thread was left with.
* `ConfirmationsConserved`: over folding, expiry, rollback and two writers, the
  confirmations in the table are those that were answered as recorded.
* `LedgerKept`: the source store implements `SourceLedger`, step by step: only what was
  learned is vouched for, and for no more than the index showed to the sweep that the
  record stands for. `VerifiedHasAll` carries this to predictions. That a record vouches for what really
  happened in its window is refuted by `source_future`.
* `TokenAgeBounded`: a token on the wire is no older than its life without the buffer and
  every wait, sleep and try that the code allows between its arrival and its use. The bound is above the token's
  life (`token_expiry`).
* `TriggersEarned`: a flagged source has a chain of evidence, two categories or more, none of it
  suppressed, whose weighted sum reaches the threshold the caller asked for; and when
  every query answered, whoever has such a chain is flagged.
* `NothingLeftOut`: a walk that ended without an error has told of every alert that was
  there at its beginning and that its window, which slides while it is walked, did not lose.
* `CorpusTrue`: a rebuild that nobody disturbed leaves exactly what its source has; a
  cached query sees the table when no connection is open; the cap holds unless a row came
  between count and insertion; no parent without the chunks of its text, PDFs aside.
* `NoBlindAnswer`: an `ok` answer shows nothing that no source stands behind, blames no
  source that answered, and is not called complete when a source the claim is about is
  missing (the attack correlation of cve.now claims its searches only: `Unclaimed`). The code
  does break this rule in known places: the set `Silent` names every tool and view
  for which a failed source is shown as an empty one, so the property holds for all others
  and the list is the finding. Section 6 says more.
* `EvidenceNeverLowers`: on the verdicts that are meant as scales, as the answer shows
  them, a further hit, fact or signature never makes the verdict milder, whatever else failed. The one
  exception is named (`Misheaded`): the Markdown heading of a `SUSPICIOUS` page.

**Bounds and why they are enough.** *Breaker:* with three calls one can be the
trial while two late ones, sent before the breaker opened, report in either order;
threshold 2 is reached by one call with a retry or by two calls. *RapidAPI:* two
callers are what the one slot needs to be contended; an allowance of 2 runs out
in either month; a cache of 1 evicts; one loss a month tells a tolerated loss from
an overspend. *Memory:* two rows fill the cap with fresh rows, duplicates or
expired ones; of two notes that fold together one has the workflow's marker (a second space
hides it, and is folded away); two writers hold and await the lock; three instants pass the TTL and
its doubled horizon. *Verdicts:* an address and its domain are the only two kinds
of indicator that touch each other; a cap of 1 evicts on the second registration;
the sweep interval exceeds the TTL, so stale answers do occur. *Investigation:* a
third run would meet the same two parties, its own copy and the thread; the
requests take every route and the fates every branch of every node; the cap of 14 holds a run's
marker and longest log but not two runs' logs, so that trimming always happens, as in the code, where
the cap of 200 is far above a run's length. Plans that differ by exchanging the
two runs are represented by one; of the pairs with different subjects, which
share nothing, one is kept.
*Sources:* a cap of one row trims at once and a retention of one tick purges
within three; an index late by one tick shows an alert before or after a sweep, and a window of
three ticks can end after the sweep that fills it. *Sweep:* pages of one document and three documents, two of
one time stamp, cross a tie between pages. *Token:* two callers; a life of two ticks less a
buffer of one; the request waits for a connection, once to write and twice to read, sleeps for
a backoff or a `Retry-After`, and is tried twice, so that its token outlives its life. *History:* a file of two lines is rewritten from the
third verdict on, and six verdicts suffice to tear it, heal it and tear it again, each time between
characters or inside one.
*Gate:* two peers overrun a table of one. *Fits:* two writers, three fits and room
for two. *Cases, indicators:* more of them than the cap, and one cap of 1; a case's texts are
plain, or break into pieces, or into a piece that is a JSON value. *Abuse:*
two calls, an ordinary address and a whitelisted one, and a clock that passes the duplicate
window. *Corpus:* two cases, a PDF of a long page, a text; five chunks, so that
the cap is met; batches of two, so that the page is split. *Playbook:* a
ladder of three and a template off the ladder. *Cores:* sequences, models and histories
are enumerated, long enough to hold ties, gaps and a split and merge of clusters. *Correlation:* two addresses with amounts of nothing, below and
above what a category counts for, weights and bonuses that carry a sum over the threshold or leave
it below, two thresholds, and an alert whose suspicion the cluster lends. *Walks:* five alerts, two
pairs of one time, one too large for an answer; the window loses the oldest while pages are
fetched. *Tools:* each source fails, is empty, or has one or many hits (a proof of concept also a
middling score); every option of a tool is on or off.

`Writers`, `Reporters` and `Ingesters` are the same two values and exchanged together:
symmetry is used in the one run without liveness. No run uses a state constraint; the bounds
`Months`, `MaxLost`, `MaxTime`, `MaxCalls`, `MaxWrites`, `MaxMoment`,
`MaxSweeps`, `MaxChanges`, `MaxVerdicts`, `MaxSecond`, `MaxRequests`, `MaxHour`, `MaxSaves`,
`MaxCases`, `MaxItems`, `MaxDay`, `MaxSightings`, `MaxClock`, `MaxEdits`, `MaxEntries`,
`MaxScan` and `MaxHorizon` are constants in guards.

**Fairness.** `ApiCall`: a request is answered or times out (every httpx client
has `HTTP_TIMEOUT`), sleeps end, time passes, and callers keep asking (weak
fairness of some `Start`; needed only for the probe). `RapidApi`: asyncio's
semaphore wakes its first waiter, the pacing sleep and the request end. `AuditLog`: the
thread that was told to stop is scheduled; nothing is assumed of the writer.
`PlaybookGraph`: each node is bounded by its timeout and the graph goes on by itself.
`InvestigationGraph`: `Advance` of each run is weakly fair because each remote
call of a node is under `asyncio.wait_for` or is itself bounded by the call path.
The other modules state no liveness and assume no fairness.
Deadlock checking is off where a behaviour ends when its bounds or its runs are used up.

## 5. What is proved

For every value of the constants allowed by the module's named `ASSUME`:

| Module | Theorems | Inductive invariant |
|---|---|---|
| `CallPathProofs` | `TypeCorrect`, `HalfOpenOwned`, `Cooling` | `HalfOpenHasOwner` with `ClockIsQuiet` (when open, the breaker's age is the time since anyone's last failure: the guard reads the first, the property speaks of the second) and with "a trial is in flight" |
| | `Spending`, `Slot`, `WindowClosed` | what was billed is on the counter, in flight or lost; the disk lags by at most the refused writes; an armed window is on disk unless a write was refused; the slot. `SpendBounded` alone is not inductive, since the counter may be reloaded from disk at any time |
| | `WalksAreWhole` | `WalkInv`: of what was there at the beginning and is still in the window (`base`, which shrinks as the window slides), whatever is not ahead of the cursor has been told (`Underway`), nothing ahead of it has, and a scan is the beginning of what is ahead of the cursor of what was there at the start (`Scanned`). Under it: the order of the pages is total, so a sorted page is determined by its set, and what follows its last alert is what it leaves |
| | `TriggersAreEarned` | `SumInv`: the triggers of a call in progress, and of the answer kept for throttled calls, are justified by a chain of evidence that reaches the threshold of the call (`Justified`), and exhaustive when no query failed (`Exhaustive`). `TriggersEarned` speaks of the answer alone. Under it: a chain of at least two categories exists exactly when the weighted sum of the best of each is enough, since each category adds what it is worth by itself |
| | `NoEntryLostOrDoubled` | `AuditInv`: the four places hold each entry once, and what a phase of the main thread or the writer leaves empty |
| | `WholeLadderTried` | `PlaybookInv`: a run on its n-th retry has tried the first n rungs, or is about to (`Climbed`) |
| | `EveryAreaIsItself`, `EveryAreaKeepsItsTypes` | the composition refines each of its areas: a step of the whole is a step of one area and a stutter of the others (`StepOfOneArea`). The types follow from the areas' own invariants, and for the correlation and the walks from `SumTypes` and `PagingTypes` |
| `MemoryStoreProofs` | `Capped`, `AuditRows`, `AnalystsConfirm` | `MemoryInv`: the lock's holder sees a trimmed version of the committed table (`Trims`), and the class of a row is the one in its dedupe key |
| | `ConfirmationsAreKept`, `NotesAreKept` | `CountInv`: what the holder sees and what it has expired make up the confirmations of the committed table, and every note recallable there is shown here. Under it: the sum over a set of rows is independent of the order it is taken in, folding a group into its survivor keeps the sum, and the survivor is as recent and as confirmed as any of its group, so it expires no earlier |
| `VerdictsProofs` | `TypeCorrect`, `CapsKept`, `Founded`, `NeverRevived` | every entry is no newer than its last registration and had not expired when its store was last swept; while the last flush landed, memory and file differ by expired entries only |
| | `Honoured` | `HonourInv`: while nothing was forgotten, each store remembers, with its last time, every indicator that is neither expired nor crowded out by the cap (`Remembers`, `Due`), and a true positive is never newer than the last lead |
| `InvestigationGraphProofs` | `TypeCorrect`, `HistoryTold`, `ChannelsKept` | every channel of an active run is its own; a verdict in a channel or thread is recorded; a run's count is at most the inputs of its thread, and equal without overlap |
| | `SummaryOwned` | `OwnRuns`: at each node of an active run its log ends with its marker and the steps it took, of which there are at most so many (`MostSteps`), and enrichment and baseline were taken as its own answers say. It has the hypothesis `LogCap >= 14`: a run of thirteen steps and its marker fit; the code's `_STEP_LOG_CAP` is 200 |
| `ServiceProofs` | `EveryReportToldOf` | `ReportInv`: a call in a phase of an address has it in hand with the status the phase begins with; what became eligible was judged so; nothing is reported for a row that is still eligible, but by the call that waits for the answer |
| | `CorpusIsTrue` | `CorpusInv`: what a call that is alone has under its label in the table is what it has submitted so far (`IngestOK`, `RebuildOK`); until the count has raced, the rooms that calls found are still there (`RoomOK`); and the rows of a call have their whole groups and follow each other. It uses `CacheInv` |
| | `QueriesSeeTheTable` | `CacheInv`: while the write-ahead log is empty, the cache under the file's present time, and what a query has fetched at that time, is the table; without connections the log is empty |
| | `SeenThreeTimes` | `IocInv`: a count, in memory or on file, is at most the sightings, and either is within the cap |
| | `TokensStayYoung` | `AuthInv`: the age of a request's token and what is left of the present wait are less than the age at which it may be handed out (`Handed`), the laps behind it and the waits of this one so far (`Used`); a refresh's is counted from the request that fetched it (`AgeOK`) |
| | `VerifiedIsWhole`, `StoreKeepsLedger` | `SourceInv`: a complete ingest holds all of its window that the index showed when it looked, and after the save the store has learned its rows (`JobOK`); so what every record of a complete ingest has looked at was learned (`RecordsHold`), and so has every prediction that found one (`GuessOK`). `VerifiedHasAll` alone says nothing of the ingest between its transactions. The second theorem is the refinement: each step maps to one of `SourceLedger` or to none |
| `StoreProofs` | `CasesAreKept` | `CaseInv`: a case in memory holds what was answered, one that is safe holds it on file too, and is in memory with the same texts unless a load dropped it for what is in them; the newest are at most the cap |
| | `FitsAreKept` | `ClusterInv`: no enforced save has evicted, which rests on what each writer has looked up and whether that row is unchanged (`WriterOK`) |
| | `CompleteMeansAll` | `SweepInv`: the hits are documents that are or were there, and a cached reply belongs to its question (`ReplyOK`) |
| | `HistoryReadsBack` | `HistoryInv`: the last `clean` lines are the last `clean` verdicts, an open line means none is clean, and a file that decodes and whose last append was whole is within its bound |
| | `WindowsHold` | `GateInv`: the hits of a client end with its admissions of any window that contains now (`Ends`), so the sweep, which looks at the last hit only, cannot forget one; the executions since the running window began are at most its count, and those of the window length before it at most the limit more |
| | `EveryServiceIsItself`, `EveryServiceKeepsItsTypes` | as for the areas of the calls (`StepOfOneService`); the types of indicators, token, sources and corpus have invariants of their own (`IocTypes`, `AuthTypes`, `SourceTypes`, `RagTypes`), since the properties of those services need less than all of their types |
| `AnswerProofs` | `BacktestsAreBlind` (half of `ForecastsAreSound`) | none is needed: `Predicted` depends on the rows through `Training` only (`PointBefore`), and the training rows before a cutoff are the same with or without what came later (`SourcesBefore`) |
| | `PeaksAreExact` (the other half) | a posterior question is about a model and a context (`Posed`). What it rests on is `PeakAlgebra`: the weight that has not met the target after k steps, times the chance not to meet it in the steps that remain, is the same for every k, since a double sum may be taken in either order (`SumSwap`) |
| | `LineagesAreStable` | `FitsPosed`: a question is about fits. Under it an invariant of the fold over the fits (`LineInv`, in place of an induction over the data) and one of the fold over the claims of a fit: after each pair of a cluster and a lineage, in the order of their distance, neither is free while the other could still be had for less |
| | `SequencesAreFaithful` | `RowsPosed`: a question is about rows. The fold that collapses repetitions and the sorting by time are each described by what determines them: sorting by its ranks, which equal times share with their order of arrival. Each share is rounded to six decimals and off by at most half a millionth, so a row of the code's sixteen tactics, or of up to two thousand, is off by no more than the thousandth a load allows (`RoundedIs`, `SharesSum`, `SmoothedSum`) |
| | `NoAnswerIsBlind` | `NoBlindAnswer` itself, as `Honest(q, answer)`, which every tool keeps because each answer is made from its question alone: lemmas about the ways answers are put together, one lemma for each tool, and one for each family (`AlertAnswersAreHonest`, `LookupAnswersAreHonest`, `HuntAnswersAreHonest`, `DocumentAnswersAreHonest`) |
| | `EvidenceRaises` | `Answered`: an exchange is empty, or a question and the answer its tool gives to it. Of two questions of which the second has more (`Further`), the verdict of the second ranks as high (`Raised`): each score, decision and class is shown monotone by itself (`ScoreGrows`, `DecisionGrows`, `RiskGrows`, `AggregateGrows`, `RelationshipGrows`, `SignaturesGrow`), and a source that failed is the same in both. The aggregate compares providers in their order (`Precedes`), an unrated answer being as high as a clean one; the webshell verdict is the one shown, but under the heading `Misheaded` names |

The assumptions say that bounds are natural numbers, that thresholds, caps and
intervals that the code keeps positive are positive, that sets that are counted are
finite, that the refresh buffer is shorter than the token's life, that the
plans of `InvestigationGraph` are made of requests and fates, that a hidden model has
natural weights for finitely many states, that fits have whole centroids and radii, and that
tactics are few enough for the tolerance of a load.
The one theorem with a hypothesis of its own is `SummaryOwned`. Induction over numbers
and over finite sets is done in `DataLemmas` (`NumberInduction`, `SetInduction`) from
the well-foundedness of the naturals, with a set in place of the predicate the library's
rules take, so that every use of it is first-order. The same module has the facts about
sums over finite sets, that a fold keeps an invariant which each of its steps keeps, that a sorted sequence is determined by
the ranks of its elements, and that a function on the numbers may be defined by recursion
(`Recursion`), with a function in place of the operator.
Every proof follows the same line: lemmas about the
operators, one lemma per action or kind of action, `Init => IInv`,
`IInv /\ [Next]_vars => IInv'`, and each property from `IInv`.
`TypeCorrect` of three modules, `CapsKept`, `Slot` (one slot is never held twice),
`WindowClosed`, `ChannelsKept` and `QueriesSeeTheTable` are proved of formulas that
no run lists by themselves: some are parts of a property that a run checks, the others
are left to the proof.

**Only model-checked.** The five liveness properties (`EveryCallEnds`, `ProbeUnlessAborted`,
`WaitersServed`, `RunsEnd`, `ShutdownEnds`), which are out of the prover's reach: their proofs would
need `ENABLED` and the fairness of the actions. Every other property of a passing run is stated by a
theorem. What the proofs do not cover is the violations, which are counterexamples of their runs.

**What a proof found.** TLC had passed `NoBlindAnswer` with the searches of the attack correlation
either lost or full, which leaves its claim of completeness never made. Proving the claim
for the outcomes in between showed it made with the feed or the packages missing: it is about the searches of
cve.now alone, and the answer says of the feed that it is not exhaustive
(`threat_intel/cve_now.py:675`). The outcomes are now complete, and the property names the exception.

## 6. What the models showed about the code

Each is a `violation` run with the document it contradicts, in `findings`:

* An aborted half-open trial leaves `_half_open` set and the breaker refuses for
  ever (`core/http_client.py:220`).
* Two concurrent callers of one key both pay (`threat_intel/rapidapi.py:160`).
* A timeout in the analytics node raises and ends the investigation
  (`agents/investigation_graph.py:446`).
* A signal that meets the main thread inside `put()` never ends the process
  (`core/audit.py:88`).
* A cursor on the time stamp alone passes over alerts that share it
  (`tools/wazuh_siem.py:110`).
* An ingest of a window that is not over, or not indexed, is recorded as complete and later
  vouches for what happened after it (`tools/source_forecast.py:133`).
* The waits, backoffs and tries of a request reuse the token it was handed, which can expire
  before it is sent (`core/http_client.py:216`); a refusal then is an error of the call and does not
  make the manager forget the token.
* A history cut inside a character of several bytes cannot be read again, nor be truncated
  (`tools/investigation_history.py:264`).

Noticed while modelling; the models have the behaviour, and the properties above are
stated so as to allow it:

* *Cases.* A text may hold U+0085, U+2028 or U+2029, which `_flush` writes as they are
  (`ensure_ascii=False`) and at which `splitlines()` breaks the line: the next start drops the
  case, and if a piece is a JSON value that is no object, the module cannot be imported
  (`core/case_store.py:58`). `CasesKept` speaks of the cases whose text on file is plain; the others are in the model
  (`CaseTexts`), lost or in the way of the start.
* *Correlation.* The runs of a multi-resolution call come in the order week, hour, day, and the
  last is taken for the longest window (`tools/correlation.py:780`; `TierRuns`): what only
  the week flags is called a burst, against the order that `evaluate_multi_resolution` expects
  (`correlation/three_sum_core.py:497`).
* *Forecast.* The forward pass never applies the transitions between observations
  (`correlation/forecast_core.py:246`; `Forward`), so it is the posterior only of a chain that
  does not move, and `PeakIsExact` holds of the weights it returns.
* *Analysts.* The workflow's own verdict is registered with the source that `decide_authority`
  reports as an analyst's (`tools/investigation_history.py:64`).
* *Silent sources* (`Silent` in `ToolAnswers`). `blueteam_cve_kev` answers
  `in_kev=false` when both feeds failed; `blueteam_dependency_scan` treats a failed
  query as no vulnerabilities; `blueteam_investigate_ip` shows no alerts when its
  summary query failed; `blueteam_alert_cluster_assign` stores an
  assignment made from a profile with a failed category; the semantic search, the hunts, the mail look-ups,
  the comparison of two alerts and parts of the curated report are
  silent in the same way. The unified score shows ThreatFox failed and ThreatFox empty alike as
  "Not configured", and a failed CrowdSec too (`tools/alert_enrichment.py:541`).
* *Memory.* `record_decision` answers `ok` for a decision the cap refused
  (`core/memory_store.py:632`); a note written with an earlier time stamp can set `last_seen`
  back.
* *Validator.* A reranker that times out after retrieval is answered as an empty search
  (`agents/fp_validator_graph.py:182`, against the module's docstring at line 20).
* *RapidAPI.* A caller cancelled in the limiter's sleep keeps the slot
  (`leaked`, which `WaitersServed` must except).
* *Sources.* A record keeps vouching for a window whose rows the cap has trimmed since
  (`core/source_store.py:182`); `VerifiedHasAll` counts trimmed rows as held.
* *Reports.* The ledger's lock is released before the request: two calls post one
  address twice, and AbuseIPDB refuses the second (`tools/abuseipdb.py:737`);
  a look-up that fails leaves a whitelisted address eligible.
* *Corpus.* A source's rows are deleted before its new text is embedded, so a dead
  embedder leaves the corpus without it (`tools/rag_kb.py:346`); the cap is counted outside the
  writing transaction; a PDF page that is split over two batches can
  meet the cap in between; the query cache is keyed by a file time that a commit does not change while
  a connection is open (`core/rag_store.py:318`).
* *Playbook.* The address that the caller gives is said to override the one a hunt picks
  (`tools/playbook_runner.py:29`); the investigation prefers the hunt's
  (`agents/playbook_graph.py:219`).
* *Walks.* `has_more` of the indexer search turns false at 10 000 hits; the focused crawl
  renders 20 of its sample. An answer of the domain look-up that is over the limit is replaced by an error
  without its cursor, so the walk stops there, although the page was read. A relative window
  is computed again for each page, so its oldest alerts drop out while it is walked.
* *Webshell check.* The Markdown heading has no branch for `SUSPICIOUS` and is that of a clean
  page (`tools/webshell_check.py:369`; `Heading` in `Documents`): one more signature takes
  a page from `LOW_RISK` to a heading that says clean. The JSON answer has the verdict itself.
* *Velocity.* A rule or address that is in both windows appears in the top lists with the count of
  the previous one (`tools/wazuh_velocity.py:242`).
* *Baseline.* The bucket being judged is part of its own baseline.
* *STIX.* A stale cached bundle counts as a successful fetch, so every later call
  tries again under the lock (`tools/stix_correlation.py:90`).

## 7. What is not modelled

* The tables of the forecast store: each write is one insert-or-ignore or upsert
  transaction. The volume counts are keyed by the start of a bucket only, whatever its
  length, which no run looks at.
* Rule staging: the race of two saves of one name is the whole of it.
* Tools that render one request as it comes: host forensics, manager and SCA queries,
  fail2ban, asset context, the threat card; and those that compute from their
  arguments alone (subnetting, domain permutation, the prompt router).
* The registration decorator, metrics, subprocess helper, configuration, validation and
  redaction: no state that another component reads, or text.
* Text: alerts, notes, rationales, reports, redaction, STIX, rules. A note is a model
  value with the one equivalence the code computes (`Folded`); an alert text is
  one of three kinds; a document is its number of chunks.
* Floats, except as said under `ThreeSum`: decay weights are ages, corpus scores are three
  classes, vectors are rows.
* LangGraph, SQLite, asyncio, httpx, the indexer and the providers beyond what is said above.
* Functions without a caller outside the tests (`record_unit`, `clear_*`).
