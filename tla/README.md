# A verification model of the AI engine

This directory models the AI engine of the repository: the parts that decide
whether something is *done* to a production system (emergency stop, executor,
guardrails, scheduler, agents and their tools, control tower), the parts that keep
the knowledge base *true* (the pipeline from changes of the infrastructure to
rewritten wiki pages, the wiki with its syncs and its publisher), what leaves for
the language models (router, redacting proxy, honey tokens), and the analyses
(log search, patterns, documents, costs). The modules are written in TLA+, model-checked with TLC on small instances, and the theorems in
the `*Proofs` modules are proved with TLAPS for every value of the constants.

All paths below are relative to `src/apps/ai-engine/` unless they start with
`src/`.

## How to run it

    tlc -workers 2 -config MCKillSwitch.cfg MCKillSwitch     # any run of PROJECT.json
    tlapm TowerProofs.tla             # and the other *Proofs modules

`PROJECT.json` lists the components, the runs with the properties each checks,
the source lines every definition stands for (`map`), a faulty variant of the
code for every property (`mutants`), the disagreements between code and
documentation (`findings`), the hazards, and the theorems. The faulty variants
are the operators named `Faulty...`, or for the bug they plant
(`EmptyingUnlink`, `SkippingHint`, `EagerRecord`, `LastingGrant`, ...); no action
refers to them.

## 1. Inventory

The engine is one Python process (FastAPI on an asyncio loop, plus a thread
pool, plus watcher threads), a CLI that builds its own objects, Redis, and the
file system. A Go API and a web UI sit in front of it.

| Component | State | Operations | Talks to | Hard behaviour |
|---|---|---|---|---|
| **Kill switch** `killswitch/` | Redis key, flag file of the host, backend chosen in the constructor | `trip`, `release`, `status`, `is_active`, gate around tools | Redis (50 ms timeout), file system; read by guardrails, executor, scheduler, control tower | partial failure of two stores, stale choice of backend, check-then-act in the gate, several processes and hosts |
| **Resynthesis queue** `invalidation/resynth_queue.py` | live file, `.processing` files | append (by the engine), rotate, drain, unlink | invalidation engine, scheduler job, `resynth_func` | appends during a drain, overlapping drains, crash in a drain |
| **Kubernetes consumer** `state_subscription/consumers/k8s.py` | `_last_values`, bounded queue, stop event, threads | watch, compare, hand over, retry, stream, stop | API server, event loop, invalidation engine | threads against loop, reconnects, full queue, cancellation |
| **Invalidation engine** `invalidation/engine.py` | `_last_seen`, index, current batch | `consume_with_batching`, `handle_event`, `_mark_pending`, `_enqueue_resynth` | consumer's stream, vault files, queue | batching window with cancellation, edits by the operator in between, partial failure of a fan-out |
| **Guardrails** `guardrails/` | policy, audit file | `evaluate`: risk, policy, ladder cap, approvals, switch | approval gates, kill switch | rules that interact, a switch tripped while approvals are awaited, clamping and ceilings |
| **Executor** `executor/` | `_seen` of the audit log, audit file | `execute`: gates, switch probe, command, audit line | kill switch, command wrappers, guardrails' decision | concurrent calls in a thread pool, retries, a write that fails after the command, restart |
| **Scheduler** `scheduler/` | jobs, APScheduler, history ring | `start`, `stop`, `add_job`, `pause`, `resume`, `run_now`, runner | kill switch, the queue's drain | `run_now` bypasses `max_instances`; cancelled runs are not recorded |
| **MCP tool server** `mcp/` | manifest, catalogue, pending and granted approvals, rolling audit | registration, `execute_tool`, `grant_approval` | tools, scope configuration | imports in any order, an approval queued and granted several times under one key |
| **Agents, token tracker** `agents/orchestrator.py`, `services/token_tracker.py` | conversation, active records, history | `investigate` in phases, tool loop, tracking | Claude, tool server | one tool call of several fails, two runs of one incident |
| **LLM router** `llm_router/` | none between calls | `decide`, `generate`, `stream` | Ollama, Claude | fallback in the middle of a stream, markers that lower a score |
| **PII proxy** `proxy/` | placeholder maps by scope, with expiry | redact, restore, stream | Claude | threads, expiry in the middle of a request, overlapping hits |
| **Honey tokens** `honeytokens/` | registry, vault files, automaton | seed, scan, `invalidate` | vault | `invalidate` racing a scan, a crash in a seeding |
| **Control tower** `control_tower/` | investigations, register | `investigate` | kill switch, wiki, connectors, model, guardrails | sources and router that fail midway, a context over its budget |
| **Connectors** `connectors/` | none between calls | paginated search, pattern analysis | SigNoz | retries on every page, windows and ties |
| **Wiki** `wiki/` | vault files, overview, archive | ingest, merge, overview, archiving, lint, query | model, people at their editors | read, await, write on shared files; crashes |
| **Wiki syncs** `wiki/*_sync.py` | tracking files, sidecar | list, ingest, compare, keep | Confluence, SigNoz, the ingest | listings that change or break off, overlaps, crashes between two files |
| **Publisher** `wiki/publisher.py`, jobs of `routers/wiki.py` | git repository, publish log, jobs | stage, commit, push, rollback | git, remote | push lost after the commit, rollback or another job's commit in between |
| **Reconciliation** `reconciliation/`, `mcp/tools/read/docs_*` | documents of the sources | find, compare, sweep, check links | router, web hosts | sources read twice, a router that fails midway, robots rules shared by links |
| **Cost tools, log analysis** `mcp/tools/read/finops/`, `agents/analyzer.py` | none between calls | anomalies, top spenders, summaries, queries | cost backends | days without data, ties at a limit |
| **Telemetry** `telemetry/` | none | spans | OpenTelemetry | none the rest depends on |
| **Go API** `src/apps/api/`, **web UI** `src/apps/web/` | token buckets, store | rate limit, auth, CRUD | engine, database | buckets under one mutex |

What makes each of the components that are modelled correct:

* **Kill switch.** A trip that was stored stops every call checked later, on
  every host; a release that met no failure leaves nobody halted; nothing but a
  release clears a halted instance.
* **Queue.** A slug handed over is attempted, however appends, rotations and
  drains interleave, and what a crash leaves behind is on disk.
* **Consumer.** The baseline the threads compare against agrees with what the
  reader was told, the events of a field form one chain, and the reader ends up
  with the current values.
* **Invalidation.** A page with an event the engine took from the stream is about
  to be hinted, queued, under a resynthesis that read the event, or left behind in
  a way that can be named: its resynthesis raised, a crash left its file, or the
  event itself was dropped, because its fan-out or its append raised, because the
  stream raised, or in a crash. What is dropped takes nothing else with it. Events
  *are* forgotten in these ways; `lost` holds which.
* **Guardrails.** An approved `EXECUTE` was earned against every rule and both
  floors, and the switch is read last.
* **Executor.** Audit lines tell what happened, an answer names a line on disk,
  and a stored trip stops commands.
* **Scheduler.** Ticks of one job do not overlap, what ticks is in the table,
  nothing starts under the switch, every run that ends leaves its row.
* **Tool server and agents.** No blocked tool is served, one grant lets one call
  run, every tool call has a result and a line, usage is one's own.
* **Router, proxy, honey tokens.** A sensitive prompt stays local, no value goes
  over the wire, a reply is restored with the request's own values where it, or a
  single delta of a stream, holds the whole placeholder, a scan finds exactly what
  its automaton was built from.
* **Control tower, connectors.** An investigation that does not raise leaves a
  record, which tells its shortfalls; approval is the guardrails'; a search returns
  each row once and ends.
* **Wiki.** A merge keeps what it was given, the text above the overview's marker is
  put back, a crash loses no page, a deletion upstream is recorded, an incident is
  ingested once, a push that was reported is there unless the commit was taken off
  the branch again.
* **Analyses.** A failure of one source, backend, link or comparison is visible in
  the report and hides nothing of the others.

`PROJECT.json` lists the hazards one by one, each at the line where it bites and
with the properties that would catch it going wrong.

## 2. Modules

| Module | What it is |
|---|---|
| `KillSwitch` | processes on several hosts, each with at most one `KillSwitch` instance; two-step `trip` and `release`; the gate; failures |
| `ResynthSpec` | what the queue promises: slugs owed an attempt |
| `ResynthQueue` | files, drains and crashes; implements `ResynthSpec` |
| `ChangeFeed` | what a consumer amounts to for the engine: one line of changes, heard in order |
| `K8sConsumer` | threads, callbacks, bounded queue, reader; implements `ChangeFeed` |
| `K8sConsumerProofs` | `HandoverSound`, `HeardInOrder` |
| `Invalidation` | the engine, composed with `ResynthQueue` by `INSTANCE` |
| `InvalidationProofs` | type correctness, `Reread`, `PendingOwed`, and that the composition implements `ResynthQueue` |
| `Guardrails` | one evaluation beside a switch that changes |
| `Executor` | concurrent calls sharing an audit log and the switch |
| `ExecutorProofs` | type correctness and the three safety properties |
| `Scheduler` | the job table, APScheduler's registrations, runs by tick and by hand, the history ring |
| `ToolServer` | manifest, catalogues, approvals, rolling audit |
| `Agent` | investigations that share one `ToolServer` and one token tracker; extends `ToolServer` |
| `ActingProofs` | `SchedulerSound`, `ToolUseSound`; the queue whose drain the scheduler runs: its types, invariants and refinement |
| `Router` | one call: classification, decision, backend, fallback, pieces of a stream |
| `Ordered` | what `sorted()` makes of a set, and a list comprehension |
| `Detector` | how overlapping hits are resolved |
| `PIIProxy` | threads that redact, send and restore under one mapper |
| `HoneyTokens` | registry, seeder, automaton, scanning threads |
| `Scans` | `Detector` and `HoneyTokens` side by side: what is found in a text |
| `GuardProofs` | what stands between a model and the world: the guardrails, the router, the proxy, the honey tokens, the scans |
| `ControlTower` | concurrent investigations: switch, gathering, trimming, model, guardrails, register |
| `Connector` | one paginated search with retries |
| `TowerProofs` | the kill switch, the control tower, the search, the documentation tools and the reconciler |
| `PatternAnalyzer` | bursts, weekly anomalies, co-occurrence, clusters |
| `WikiEngine` | ingests, merges, overview and archiving over shared files |
| `WikiSync` | Confluence and SigNoz syncs with their tracking files |
| `Publisher` | publish jobs over git, and rollbacks |
| `WikiProofs` | publisher, syncs and engine of the wiki, and what is computed over its pages |
| `WikiLint` | staleness, orphans, related pairs, best pages for a question |
| `DocScores` | freshness and staleness of a document |
| `Reconciler` | find and compare over several sources; uses `DocScores` |
| `DocTools` | staleness sweep, link check; uses `DocScores` |
| `FinOps` | cost anomalies, top spenders |
| `LogAnalyzer` | summaries, anomalies, suggested queries; extends `FinOps` for what is said of both |
| `AnalysisProofs` | what computes figures over lists: `PatternAnalyzer`, `FinOps`, `LogAnalyzer`; the lemmas on sums, folds and sorted lists that `GuardProofs` uses too |
| `MCKillSwitch`, `MCK8sConsumer`, `MCInvalidation`, `MCExecutor` | instances of one module; the queue's needs no module (`ResynthQueue.cfg`) |
| `MCActing` | `Scheduler`, `Agent` (with `ToolServer`), `Guardrails` |
| `MCLlm` | `Router`, `PIIProxy`, `Detector`, `HoneyTokens` |
| `MCTower` | `ControlTower`, `Connector`, `PatternAnalyzer` |
| `MCWiki` | `WikiEngine`, `WikiSync`, `Publisher`, `WikiLint` |
| `MCAnalysis` | `Reconciler`, `DocTools`, `FinOps`, `LogAnalyzer` |

The last five put modules side by side that share no state in the code either.
Their variable `part` says which of them a behaviour belongs to; the others rest
in one initial state, so that the state spaces add up and do not multiply. Where
modules do interact they are composed: `Invalidation` with the queue, `Agent`
with the tool server, the switch with whatever reads it.

### KillSwitch

`Start(p)` is the constructor with `_initialize_backend`: the only place where
the backend is picked. A `trip` on a Redis backend is `TripRedis` and, when the
SET raises, `TripFile`; a `release` is `ReleaseRedis` (DEL, errors only logged)
and `ReleaseFile`. The two halves are separate actions because another process
may act, or this one may die (`Exit`), between them. Every Redis operation has
three outcomes: `ok`, `lost`, and `late` (the client times out, the server did
apply it). The gate is `CallCheck` then `CallBody`; `ReadsInactive` holds the
code's choice that a read which raises counts as "not tripped". The history
variables (`force`, `mark`, `grace`, `clear`, `cleared`, `ack`) remember what a
property needs of the past and guard nothing.

### ResynthSpec, ResynthQueue

A file is the set of its lines, since the drain removes duplicates. A step is
what runs between two awaits of the event loop: `Rotate` (rename and read),
`Take` (call `resynth_func`), `End` (it returned or raised), `Unlink`. `Crash`
leaves processing files behind as `orphans`. The refinement mapping takes
`owed` to the slugs in the live file or still to be attempted by a drain, and
`served` to the slugs attempted since. No drain need ever start: a drain that was
started goes on (`Continue`), and that is all the specification with fairness says.

### K8sConsumer

An artifact is one tracked field of one object with a log of the values it
took in the cluster. A thread is `Connect`, `Tick`, `Emit`, `Returns`,
`Fails`, `Wake`, `Stopped`; `pending` holds the callbacks given to
`call_soon_threadsafe`, `Put` runs one of them on the loop, `Get` is the
reader, `Close` its cancellation. `Emit` moves `_last_values` on the thread and
hands the event over; the event reaches the queue later, and is dropped when
the queue is full. `Unset` is `_UNSET`, no entry in `_last_values`, and is told apart
from `NoValue`, which is `None`: a tracked field may be `None`, and its first event
then goes from `None` to `None`. `Carried` says that a DELETED watch event carries the object
as it was last: the code does not look at the event's type.

The refinement mapping to `ChangeFeed` takes `way` to the queue followed by the
pending callbacks (`Sent`), `known` to the baseline, `heard` to what the reader
got, `open` to a stream that is neither raised nor closed, and `lost` to the
fields with a dropped event. `Put` on a queue with room is a stutter, `Put` on a
full one is `Lose`: it takes out the first item behind the `Room` that fit, which
is not the last one, since later callbacks may be waiting behind it.

### Invalidation

`Take`, `Quiet`, `StreamRaises` and `FannedOut` are the loop of
`consume_with_batching`; `Handle`, `Missing`, `Conflict`, `Load`, `Write`,
`Hint`, `HandleRaises` and `HintRaises` are `handle_event` over the dependents in
sorted order: a load or a write that raises, and an append that raises with some of
its lines written. The engine and the drain are coroutines of one loop and a fan-out never
suspends (its locks are uncontended), so the drain acts only while the engine
waits for its stream (`Awaiting`); the operator's editor and a crash are not
bound by that. The queue's actions are those of `ResynthQueue`. Two history
variables remember the events of a page from the moment the engine takes them from
the stream: `stale[s]`, the artifacts whose events no finished resynthesis of `s` has
read, and `lost[s]`, those among them that an exception or a crash dropped before the
slug of `s` was in the file (`Drop`).

### Guardrails

`Submit` computes risk, matching rules, cap and deny; `Approve` is the gate,
which may return fewer approvals than asked for; `CheckSwitch` is the last
step. Evaluations share nothing but an append-only file, so one evaluation at a
time is enough; what runs beside it is the switch (`BackendChanges`). The
penalties and ceilings are the numbers of the source, the tables and rules are
constants.

### Executor

A call is a thread of the pool: `Gates` (enabled, tier, approvals, verb),
`Connect` (a fresh `KillSwitch`, with its fallback), `Probe` (its `status()`),
`Run` (the wrapper), then `Record`, `Write` or `WriteRaises`, and `Note` of the
audit logger, which are steps of their own because only the write is under the
logger's lock.

### Scheduler

`table` is the scheduler's own, `registered` what APScheduler knows; they are
two states because the code keeps them in step by hand. A run is a tick or a
`run_now`; both go through the runner, which reads the switch first
(`Tick`, `RunNow`) and awaits the body. `Return` is its end with its row,
`Cancelled` the end of a tick that `Stop` cancelled (no row), `Disconnect` the
cancellation of a run by hand with its request.

### ToolServer, Agent

`Register` is the import of a module with a scoped tool, before or after
`Build`. `Ask` is `execute_tool` up to its handler, `Handled` the rest; `Grant` is
the operator's. An investigation is `Begin`, then per phase `AsksForTools`,
`CallTool` and `Collect` per tool call, `NextPhase`, and ends in `Complete` or
`ApiError`. A failed investigation reports no usage: `finish_tracking` files what it
spent, in the history, and the orchestrator throws its answer away (`kept` is the
record in the history, `usage` what the result tells). `execute_tool` is called without the investigation's id
(`agents/orchestrator.py:450`), so every investigation asks under one key
(`NoId`).

### Router, Detector, PIIProxy, HoneyTokens

A prompt of `Router` is the set of signals the classifier finds in it;
weights and thresholds are those of the source. A text of `PIIProxy` is a
sequence of values, plain words and placeholders. A stream's reply comes in deltas,
each a part of a text, and a cut may fall inside a placeholder: either half is
`Torn` and is restored by nobody. Each step takes the mapper's
lock once: `Redact` is one text of the request, so that a scope can expire
(`Sweep`) between two texts, as it can in the code. `Detector` takes a set of
intervals through the sort and the merge. `HoneyTokens` runs the Aho-Corasick
automaton character by character (`Match`) because an invalidation may come in
between; the two looks at the automaton are `Check` and `Run`. The automaton's
nodes are the prefixes of the markers, failure links and `Advance` are recursive
functions over them, as the loop of the code follows them.

`Ordered` is how these modules and the analyses sort: the k-th of a sorted list is
the element that has k - 1 others before it.

### ControlTower, Connector, PatternAnalyzer

An investigation is a sequence of awaits: the switch, one fetcher after the
other, the trimming, the model, the guardrails. A section of the context is a
number of rows; the trimming works with the fixed savings of the source.
The investigation that meets a blast radius it cannot convert raises out of
`investigate` and has no record (`lost`). `Connector` has one action for each thing a
request can come to: `Transient` (retried), `Permanent`, `Arrive`; an empty page ends
the search whether or not it carries a token. `PatternAnalyzer` takes one step from a list of
events to a report; its properties hold the report against definitions that do
not follow the code's loops (maximal runs, connected components, all pairs).

### WikiEngine, WikiSync, Publisher, WikiLint

A file of the vault is what its frontmatter says. `Begin` loads the vault and
asks the model, `Answer` is one answer and what follows it up to the next await;
`Edit` and `EditOverview` are people at their editors, `AutoArchive` and `Lose`
the archiving and a crash halfway through it. The overview is a version of the text
above the marker and a number of frontmatter blocks before it: what a rewrite keeps
is everything above the marker, the old block included, and a new one goes before it.
A sync is for one space: a listing request by
request, an ingest item by item, then the comparison and the two files, with a
crash between any two steps (`CrashSync`). The spaces share the vault, its tracking
file and its sidecar, and the comparison does not look at the space. A publish job is
a thread for stage and commit and another for the push; the first is `Stage` (add and
count), `TakeHead` (the tree and the parent of the commit) and `Commit` (HEAD is set),
because nothing is held between them: git's lock is for each write of the index.
`Rollback` and `Write` run beside it; `lost` has the commits that a job took off the
branch by setting HEAD past them.
`WikiLint` takes one step from a list of pages to a report. A page is its position
in the list; a ranking is the function that lists positions best first, and what
an answer gets is its beginning (`Cut`).

### DocScores, Reconciler, DocTools, FinOps, LogAnalyzer

`DocScores` has the two curves of a document's age in exact integers, with the
rounding of the source; where a float may fall on either side of a tie, the score
is either. In `Reconciler` a match is a place (`Spot`), that is a source and a
position in its listing, so that the search order, the pairs and the ranking are
relations between places and not sorted sequences; a ranking is the function that
lists the matches in that order. The module separates the search (`Search`) from
the dating of each match (`Score`), because documents change in between (`Edit`),
and has one step per question to the router (`Answered`). `DocTools` has the sweep
as one step and the link check with one step per request; the redirects behind a
request are any set of addresses. `FinOps` has one step per
day or backend, and one for the whole series of AWS; its z-scores are compared in integers without roots and divisions,
and the ranking is a list of positions, as in `WikiLint`. `LogAnalyzer` takes one step from a batch to its summary or its
anomalies, and from a question to its query; its properties relate the
separate computations to each other.

## 3. What the runs check

| Run | Instance | Shows |
|---|---|---|
| `killswitch` | 3 processes on 2 hosts, one of them forced to the file backend; 2 failures | `TripStopsCalls`, `ReleaseClears`, `StaysHalted` |
| `queue` | 2 slugs, 2 drains, 2 crashes, fair | `WorkOnDisk`, `Traceable`, `KeepsPromise`, `EventuallyTried` |
| `k8s` | 2 threads with one field each, queue of 1, 1 retry, 2 broken watches, 1 ended watch, fair | `HandoverSound`, `HeardInOrder`, `Converges` |
| `invalidation` | 2 artifacts, 2 pages, 2 overlapping drains; one change, edit, failure or crash, fair | `Reread`, `PendingOwed`, `UsesQueue`, `EventsSettle` |
| `executor` | 2 calls, 2 failures, a retry, a dry run, a call with one approver | `LinesTruthful`, `AnswerTraceable`, `TripStopsCommands` |
| `acting` | 2 jobs, 2 runs, a ring of 1; 2 investigations of 2 incidents over 3 tools; 6 rules in every combination, one of which takes risk away, actions on both sides of every ceiling | `SchedulerSound`, `ToolUseSound`, `DecisionEarned`, `SwitchReadLast` |
| `llm` | every pair of signals under 6 configurations; 2 threads with requests of 2 texts, a streamed delta cut anywhere; 3 hits over 5 positions; overlapping markers, one scanning thread beside registrations, deletions, invalidations and a seeder that crashes | `RoutingSound`, `ProxySound`, `ScansExact`, `HoneySound` |
| `tower` | an investigation in every mode beside a triage; 5 servers with empty, unreadable and full pages; some 100 lists of events, fair search | `InvestigationSound`, `PatternsExact`, `SearchSound` |
| `wiki` | 2 ingests of 2 sources into a page and the overview, an edit or an archiving run, a crash; 2 overlapping syncs, of two spaces that share a tracking file; 2 publish jobs whose commits overlap, 3 commits, 1 rollback; some 4 600 lists of three pages, fair | `WikiSound`, `SyncSound`, `PublishSound`, `LintExact`, `WorkEnds` |
| `analysis` | 3 sources, two of one name, 1 edit; ages on both sides of every threshold; 3 link lists, redirects to any of their addresses; a week of costs, by the day and in one statement; every batch of up to 4 entries of 6 kinds, every set of 7 words | `ReconcileSound`, `DocToolsSound`, `FiguresExact` |
| `executor_write`, `invalidation_window` | see section 5 | a disagreement each |

The properties of the runs of one module:

* `TripStopsCalls`: after a trip stored in Redis and until the next release or
  failure, only calls that had passed their check before it still run.
* `ReleaseClears`: after an undisturbed release no instance reads tripped that
  reads Redis or the releasing host's file.
* `StaysHalted`: an instance that reads tripped goes on doing so until some
  release takes a step, whatever fails, restarts or trips again.
* `WorkOnDisk`: what a drain has still to attempt is in a file on disk.
* `Traceable`: no slug vanishes: it was attempted, is owed, or lies in a file a
  crash left.
* `KeepsPromise`: until a crash every step is one of `ResynthSpec`.
* `EventuallyTried`: a slug that a drain has read from its file is attempted, or
  lies in such a file.
* `HandoverSound`: `Accounted`, the thread's baseline is the newest event
  delivered or on its way, unless that event was dropped; `EndUnread`, the
  sentinel for "all threads ended" is never read: the branch for it is dead.
* `HeardInOrder`: every step is one of `ChangeFeed`, so that threads, callbacks and
  queue lose nothing but what finds the queue full; and `Chained`: without a drop
  each event starts where the last one ended, and tells another value than the one
  heard before, if one was heard.
* `Converges` (consumer): when changes cease the reader has the current values.
* `Reread`: described in section 1. An event that arrives while its page is being
  rewritten is not settled by that rewrite, whichever of two overlapping drains
  finishes first, and a write or an append that raises drops the one event it was
  for.
* `PendingOwed`: no page stays marked `pending_revalidation` with nothing to come,
  except for the same named reasons.
* `UsesQueue`: the engine and the drain together behave as `ResynthQueue`.
* `EventsSettle`: an event does not stay with the engine, nor with a drain that was
  started: it ends in a rewritten page, in the live file, or in what an exception or
  a crash left. That the live file is ever drained is not claimed.
* `LinesTruthful`, `AnswerTraceable`, `TripStopsCommands`, `SwitchReadLast`: see
  the modules.

The properties of the runs of several modules are conjunctions, one for each
part; the mutants break their members one by one. Each member has its comment in
its module.

| Property | What it joins |
|---|---|
| `DecisionEarned` | `ExecuteEarned`: an approved `EXECUTE` meets every matching rule, cap and both floors; `PolicyNeverLoosens`: no rule raises a tier, unless the matching rules take risk away on the whole |
| `SchedulerSound` | `OneTickPerJob`, `TicksTheTable`, `StoppedIsQuiet`, `NoBodyUnderSwitch`: what ticks is what the table says, once; `EveryRunRecorded`, `LastRowIsNewest`: the ring |
| `ToolUseSound` | `BlockedNeverServed`, `OneRunPerGrant`, `AnswersAudited`: the server; `EveryUseAnswered`, `UsageIsOwn`: conversation and tracker |
| `RoutingSound` | `StaysLocal`, `DecisionTellsAll`, `PiecesInOrder` |
| `ProxySound` | `NothingOnTheWire`, `OwnValues`, `EchoRestored`, `ScopesLetGo` |
| `ScansExact` | `KeptDisjoint`, `LongestKept` of the detector; `HitsExact` of the scanner |
| `HoneySound` | `AutomatonFresh`: the scanner; `LocationsTrue`, `SeededOnce`: the seeder |
| `InvestigationSound` | `RecordsWhole`, `AskedWithinReason`, `ApprovalIsTheEngines`, `ShortfallsWarned`, `TrimKeepsSome` |
| `SearchSound` | `RowsOnce`, `AskedInOrder`, `SearchEnds` |
| `PatternsExact` | `BurstsMaximal`, `BurstNeedsCompany`, `VerdictsStand`, `CoExact`, `ClustersAreComponents` |
| `WikiSound` | `MergeKeeps`, `NothingVanishes`, `PreambleKept` |
| `SyncSound` | `ArchivedWasAbsent`, `LeavesIntoArchive`, `ArchiveGrows`: Confluence; `TrackedWasEntered`, `EnteredOnce`: SigNoz |
| `PublishSound` | `PushedIsThere`, `BehindUntilRollback`, `OwedShows` |
| `LintExact` | `AgeOnlyWorsens`, `OrphansStandAlone`, `RelatedAreAsked`, `TopIsBest`, `SnippetsAreBest` |
| `WorkEnds` | `IngestEnds`, `JobEnds` |
| `ReconcileSound` | `NoneHidden`, `RankedFreshestFirst`, `FailsOnlyWhenStirred`, `AskedOncePerPair`, `SilenceIsComplete`, `FindingsKept`, `CallEnds` |
| `DocToolsSound` | `WorseAlsoReported`, `WordsAloneReportNothing`, `SweepAgreesWithSearch`: the sweep; `DisallowedNeverVisited`, `RobotsAskedOnce`, `EveryLinkJudged`: the link check |
| `FiguresExact` | `FewDaysFlagNothing`, `OutagesOnlyLeaveGaps`, `NoBackendHidesAnother`, `NothingDearerLeftOut`: costs; `NoiseHasASource`, `NewMeansCountedOnce`, `EventsCoverPatterns`, `ExplanationFits`: logs |

The conjunctions include the type invariants of their modules.

### Why the bounds are enough

Every interesting interleaving needs at most two actors of a kind and one or
two failures: a drain overtaken by another, a call that retries one that is
under way, a host whose file survives another host's release, a broken watch
with a change behind its back, two ingests of one page. `QueueMax = 1` makes the
full queue the common case. Two crashes let a second one meet the files of the
first. A third value or page adds no new relation between those that exist:
events are compared for equality only, and pages interact only through the cap
and the index. The rules of `acting` are in the manner of the shipped
`guardrails/policies/default.yaml`, not the same: they match the same fields and have
the same kinds of effects, with numbers chosen to differ from each other (three
approvals after hours, where the file asks for one), and a rule with a negative
`add_risk`, which the file has none of and the loader takes. They are tried in every
subset, with actions at each ceiling and each step of the blast penalty. What
the theorems prove has no bounds at all.

Four instances leave behaviours out by more than a number:

* `k8s` starts one field at a value and one at `None`. Values are compared only with
  values of the same artifact, so the choice between the values makes no difference.
* `invalidation` has one change, edit, failure or crash in a behaviour
  (`MCNext`); two overlapping drains meet each of them at any moment. The
  theorems on `Reread`, `PendingOwed` and `UsesQueue` have no such bound.
* `tower` holds the second investigation to the triage mode: it is there to share
  the switch, the register and the trace with the first (`SecondIsTriage`).
* `wiki` gives each of the two calls a source of its own, has one edit or archiving
  run in a behaviour and a crash in or after the latter, and rewrites the overview
  beside at most one call (`OwnSource`, `FewTroubles`). Of its two spaces the second
  has one page, which stays (`OtherSpaceStays`).

`executor` and `acting` take calls, investigations and incidents as symmetric: they
are compared for identity only, and no temporal property of those runs has
fairness.

The pure functions are checked on every input of a family: lists of
events at the edges of a window or a day, ages at each threshold and one beside
it, all batches and questions of the given size, all sets of three hits. Bursts
need at least five windows at the threshold of two the instance uses, and lists
long enough for that are among them.

`MaxFaults`, `MaxCrashes`, `MaxFails`, `MaxReturns`, `MaxChanges`, `MaxEdits`,
`MaxLog`, `MaxRuns`, `MaxAdds`, `MaxTurns`, `MaxNow`, `MaxScopes`, `MaxArchives`,
`MaxLosses`, `MaxBlocks`, `MaxDeltas`, `MaxCommits` and `MaxRollbacks` bound counters that the environment
drives; the program has no such limits. `Cap`, `MaxAudit`, `MaxHistory`,
`FanoutCap`, `QueueMax`, `MaxRetries`, `TopCount`, `TextLen`, `Window` and the other
sizes are constants of the program made small enough to be reached.
`CHECK_DEADLOCK FALSE` is set where the system may stop: a stream that
was left, an evaluation that is done, a report that is finished.

### Fairness

* `queue`, `invalidation`: weak fairness of the steps of a drain after its rotation,
  since asyncio resumes a coroutine whose await is done. No drain is assumed to
  start: `default_jobs` builds no drain job (`scheduler/jobs.py:196-248`), `main.py:99`
  passes the scheduler no dependencies, and nothing else calls
  `drain_resynth_queue`. Nothing is assumed about appends, edits or failures either.
* `invalidation`: weak fairness of the engine's steps and of the window's end.
* `k8s`: weak fairness of the threads, of the loop's callbacks and of the
  reader. A watch need not break or end, and nothing forces the cluster to
  change.
* `tower`: a request of a search ends in some way, since each has a timeout; a
  server with finitely many pages.
* `wiki`: the model answers or fails (its client has a timeout), and a thread of
  a publish job comes back. Nothing is assumed about syncs or editors.
* `analysis`: a call of the reconciler goes on, and the router answers or fails.

## 4. What is proved

Every theorem is of the form `Spec => []Inv`, an action property, or a
refinement, and holds for every value of the constants that the named `ASSUME`s
allow; TLC evaluates those on every run, and the proofs use nothing else. The
argument is always the same: an invariant that is inductive (`...Inv`) is shown
of the initial states and step by step of every action, and the property
follows from it. What has to be added to a property to make it inductive, and
why, is the substance of each paragraph.

`TowerProofs` has the kill switch, the control tower that asks it, the search
that feeds the control tower, and the tools that search and judge documents.

* *Kill switch* (any processes, hosts, assignment of backends and number of
  failures): `TypeCorrect`, `TripStopsCallsThm`, `ReleaseClearsThm`,
  `StaysHaltedThm`. `TripStopsCalls` is not inductive alone: one must know that a
  stored trip leaves the key in Redis and that the history marks do not run ahead
  of the failures. `ReleaseClears` needs that a release in progress that met no
  failure has already cleared the key. `StaysHalted` is an action property.
* *Control tower* (any investigations, engines, ceilings, budgets and amounts of
  material): `InvestigationSoundThm`. `TowerInv` says what a running investigation
  holds at each place (nothing before it asks; calls, answers, reminders and
  warnings that add up while it asks; no record of one that raised; a context that is what the cuts left) and
  what the register says of those that ended (one record for each, under its own
  id, with the shortfalls it had). The trimming is proved cut by cut: a later
  section loses rows only when every earlier one that could lose some did. The
  assumption that no id is a trace is what makes `lookup` by either unambiguous;
  uuid4 and OTel ids differ in length.
* *Search* (any server that ends, any limit): `SearchRightThm`, the safety part of
  `SearchSound`. While a search runs it has exactly the readable rows of the pages
  before the one it asks for (`Searching`), which is what a retry must not
  disturb; a collection that is cut keeps every row before the last it has.
* *Documentation tools* (any documents, threshold, links and robots rules):
  `DocToolsSoundThm`. The sweep needs the arithmetic of `DocScores`: both curves
  are monotone in the age, scores two days apart differ by a thousandth whatever
  the ties do, and the signals lift nothing younger than 458 days. The first
  attempt showed that `SweepAgreesWithSearch` as first stated was false for ages
  the run did not have: of two ages a day apart both scores may round alike, and
  the fresher document can come first. The property now says so, the run has such
  ages, and section 5 has the stronger claim. `LinksInv` says that a link the check
  itself visited was allowed by rules its host really gave, and that rules are
  fetched once; where redirects lead is `followed`, of which nothing is claimed.
* *Reconciler* (any sources, contents, limit and router, whatever people edit
  meanwhile): `ReconcileRightThm`, the safety part of `ReconcileSound`. `SeenInv`
  ties what a call found to what is on the shelf: a match is as it was found or
  somebody stirred it, and whatever lies undisturbed in a source already searched
  was found. `AskInv` has the shape of the record at each place; that no two
  documents are asked about twice follows from the pairs being the first of their
  kind, since places are totally ordered.

`InvalidationProofs` (any vault, cap, number of drains, changes, edits, failures
and crashes): `TypeCorrect`, `RereadThm`, `PendingOwedThm`, `UsesQueueThm`. The inductive invariant is the types, `CurInv` (the event under
work is one of the stream's, so that a hint names pages), the queue's
`FilesCoverWork`, and `Reread`. `Reread` needs `FilesCoverWork` twice: `Rotate`
overwrites what the drain had to do, which is harmless because a drain without a
file has nothing to do, and a crash loses what is under resynthesis, which is
harmless because it is in a file. The events the engine holds are part of the
invariant, which is why an event counts from the moment it is taken from the stream
and not from its hint. `PendingOwed` needs `MarkInv`: the pages still to be marked are among
those that will be hinted, so a page marked is a page owed or one whose event was
dropped.
`UsesQueueThm` maps every action of engine, operator and drain to an action of
`ResynthQueue` or a stutter.

`K8sConsumerProofs` (any threads, fields, queue size, changes, broken watches and
retries; at least one field): `HandoverSoundThm`, `ChainedThm`, `HeardInOrderThm`. `WatchInv` says
that a watch is not ahead of the cluster and that a thread which compares has a
delivery of its own in hand; `AccountInv` extends `Accounted` to a field that lost
an event, as soon as another one of it is on its way, which is what heals the
baseline; `ChainInv` says that the events on their way form a chain from what the
engine heard last. `Chained`, which speaks of a step, follows from the latter.
Nothing is assumed of the values but that the mark for an absent entry (`_UNSET`) is
none of them, which the code guarantees with a fresh object; `None` may be one.
`HeardInOrderThm` is the refinement of `ChangeFeed`, step by step: the steps of
the threads are few kinds of effects on the line (`WaySteps`: nothing but an end of
the stream, a sentinel, a change, a callback, a reading), and each is an action of
the feed or a stutter. What makes `Lose` of a full `Put` is that the first callback
stands just behind the queue in the line (`FirstPending`).

`ExecutorProofs` (any set of calls, any number of failures, retries and restarts):
`TypeCorrect`, `LinesTruthfulThm`, `AnswerTraceableThm`, `TripStopsCommandsThm`.
`LinesTruthful` is joined by an invariant that ties a call's outcome and its
command to its place in `execute`; `AnswerTraceable` by one which says that what
the audit log remembers of a key is a line on disk (the log remembers after the
write, and never across a restart); `TripStopsCommands` by one which says where
a trip in force is stored and which calls may still run without having seen it.

`ActingProofs` has what decides to act, and the queue of what is to be done.

* *Scheduler* (any jobs, runs, cap): `SchedulerSoundThm`. The parts of
  `SchedulerSound` are inductive together with `RingsFit`, that no history is
  longer than its cap: a full ring drops its oldest row, so a run that ends is
  always the row last read.
* *Tool server and agents* (any tools, agents, turns and scopes):
  `ToolUseSoundThm`. `ServerInv` says that what runs is served, that what is served
  is not blocked and keeps its scope, and that the log has every line or is full;
  `AgentsInv` adds `AloneCounted`, that an investigation with no other of its
  incident has the tracker's record for itself, which is what charging it its own
  usage rests on. What it says of usage is said of the record in the history; the
  result of a failed investigation tells zero.
* *Queue* (any number of slugs, drains and crashes): `QueueTypeCorrect`,
  `WorkOnDiskThm`, `TraceableThm`, and `KeepsPromiseThm`, the refinement of
  `ResynthSpec`. The inductive invariant joins `FilesCoverWork` (a drain without a
  file has no work, which is what makes `Rotate` harmless to `owed`) with
  `Traceable`. Each action is mapped to `HandOver`, `Attempt` or a stutter; `Take`
  is an `Attempt` only when no other file holds the slug.

`GuardProofs` has what stands between a model and the world.

* *Guardrails* (any policy file, requests, environments and approvers):
  `SwitchReadLastThm`, `ExecuteEarnedThm`, `DecisionEarnedThm`. `Underway` says
  what has been established at each stage. `DecisionEarnedThm` has no hypothesis about
  the rules, which may take any whole number for `add_risk`: `PolicyNeverLoosens` is
  itself about policies whose matching rules do not take risk away on the whole, and
  section 5 has the others (`OnlyTightens`). Its lemmas on sums and
  folds over the matched rules are proved by induction over finite sets, in the
  form of a least subset without the property.
* *Router* (any prompts, configurations and failures): `RoutingSoundThm`. `CallInv`
  says that a call is as it was decided, or fell back once and says so, with the
  pieces of both voices in that order.
* *Proxy* (any values, categories, texts, callers and number of scopes):
  `ProxySoundThm`. `ProxyInv` says that the scope of a request numbers the values
  of its own texts and no other's, that no two requests share a scope, and that
  what was sent is told by that numbering. A delta is part of a text, and what a cut
  leaves of a placeholder is no item of the request, so nothing is claimed of it. `ProxyAssumption` says that no value is a
  placeholder and that names are told apart.
* *Honey tokens* (any markers, threads, files and crashes): `HoneySoundThm`.
  `ScanInv`: a scan that builds holds the lock; `SeedInv`: a seeding about to note
  a file has written it. `Nobody` is no thread, and a marker is not empty.
* *Scans* (any hits; any markers and texts, whatever threads build and invalidate
  meanwhile): `ScansExactThm`. For the detector, `Resolved` says of each step of
  the greedy pass that what is kept is disjoint and in order and ends with a hit
  already seen; the longest hit is kept at its turn, since the last one kept is
  shorter or does not reach it, and stays, since only a longer one would replace
  it (`MergeStep`). For the scanner, a node of the automaton is a prefix of
  some marker. `FailIs` says that the failure link leads to the longest proper
  suffix that is a prefix of a marker, by induction on the length of the node;
  `AdvanceIs`, that following the links ends at the longest suffix of the text that
  is one; `OutIs`, that what is reported at a node is every marker that ends there.
  With these, `HitsInv` (what a scan has found so far are the occurrences that end
  within what it has read) is inductive, one character a step, and holds when an
  invalidation takes the automaton away in between.

`AnalysisProofs` has what computes figures over lists (any lists of events,
entries, costs and amounts).

* *Patterns*: `PatternsExactThm`, joined from
  * *bursts* (`BurstsMaximal`, `BurstNeedsCompany`). The fold over the hot windows
    keeps `Runs`: what it has merged so far are the maximal runs of the windows
    seen. The lemmas on sums give Cauchy's inequality for finite sets
    (`SumOfSquares`), and so how far one of n numbers can be from their mean
    (`SpreadOfOne`): less than the root of n deviations, which is how many windows a
    burst needs beside its own;
  * *weekly verdicts* (`VerdictsStand`): the positions a list comprehension picks
    are in bijection with those of the list it makes (`PickedCount`), so that the
    list cut at a week has the counts of every week before it, and the mean and the
    deviation of those are the same sums;
  * *co-occurrence* (`CoExact`): the left edge of the moving window only passes events
    that are too old for every later one, so the tallies of the fold are those of
    all pairs within the window (`EvictedIs`, `MetSoFar`);
  * *clusters* (`ClustersAreComponents`): the union-find is a tree with a root and a
    depth for each template (`Tree`), on which `Find`, a recursive function along the
    parents, is defined; `Grouped` says that after each join the pairs joined so
    far have one root, that templates with one root can be reached from each other, and
    that a root has the greatest count of its tree. The counts of the clusters add
    up because the clusters are disjoint.
* *Cost tools*: `CostsExactThm`. `SpreadOfOne`, for one and for two of the days, says
  how many days a spike takes to be flagged, and two spikes: six and eleven at a
  sensitivity of two. `SeriesInv` and `SpendInv` say how much of the history and which
  backends have been asked. TLC checks it for a week; the bound for two days is
  beyond that run and is the proof's.
* *Logs*: `FiguresExactThm` joins the costs with `LogsExact`. For `NoiseHasASource`, the
  entries and the errors of the services add up to all of them, so if no service
  were above the threshold, neither would the whole (`SharesAdd`). The other parts compare a top
  list with another: while both are shorter than the limit nothing was cut, and
  both have the messages of all errors.

Folds over sets and recursive functions are dealt with in the same way throughout:
an induction over a finite set or a length is the choice of a least subset, or
number, without the property (`LeastSubset`, `LeastNat`); that the recursive function
which the library or the model defines by `CHOOSE` exists is proved first.

`WikiProofs` has the wiki (any pages, alerts, calls, jobs, overlapping runs and
crashes).

* *Publisher*: `PublishSoundThm`. `JobInv` says that a job which pushes has its
  commit on the branch, or an operator rolled it back, or another job took it off.
  Setting HEAD may put commits back that a rollback had removed, so head, remote and
  every branch a job has taken for its parent are compared: a commit stands at one
  place, with the same commits before it, on each of them that has it (`Coherent`).
  With that, a branch that contains every commit of the remote extends it.
* *Syncs*: `SyncSoundThm`. `PagesInv` says what a run knows of the pages of its space
  that it has passed (`HonestRun`): those it did not see were gone at some time of the
  run.
  `AlertsInv` says what holds while no two runs overlapped and none crashed, which
  is when an alert is ingested once.
* *Engine*: `WikiSoundThm`. The types carry the proof, with the places a page may be
  saved to; the rest is a statement about each step, the merge first.
* *Lint and ranking* (any list of pages): `LintExactThm`. There is one step, so the
  invariant says only that a report is of the pages as they are; the argument is in
  the lemmas: `BestFirst`, that the beginning of a ranking leaves out nothing
  better, and the equality of two definitions of the pairs that are asked about,
  by clusters and by shared topics.

What stays with TLC, and why:

* liveness: `EventuallyTried`, `Converges` of the consumer, `EventsSettle` of the
  invalidation, `WorkEnds` of the wiki, and the parts `SearchEnds` of `SearchSound` and `CallEnds`
  of `ReconcileSound`, whose safety parts are proved. They need fairness and
  ENABLED, which are out of the prover's reach.
* the two disagreements that have a run (section 5), where TLC finds a
  counterexample, and what section 5 lists beside them.

No safety property of a passing run is only model-checked.

## 5. Where the code and its documentation disagree

Two disagreements have a run, in which TLC must find the counterexample:

* `executor_write`: the command runs, then its audit line is written; when the
  write fails the caller reads `refused` (`executor/executor.py:332` against
  `executor/README.md:57`, "We never run an unaudited command").
* `invalidation_window`: `wait_for` cancels the stream's `__anext__` at the end of
  a quiet window, the generator is finalised, and no later event is heard
  (`invalidation/engine.py:192` against `:168-169`).

The following are stated as definitions in their module, mostly in its last
section. Each was found violated by TLC when added to a configuration of that
module; the counterexample is told here in a line.

| Definition | Source | What happens |
|---|---|---|
| `TripAcknowledged` | `killswitch/switch.py:190` | SET times out, the file write fails too and is swallowed: `active=True` is returned and nothing was stored |
| `ReleaseAcknowledged` | `killswitch/switch.py:235` | DEL fails, is logged, and `active=False` is returned while the key stands |
| `FleetHalted` (`Requested <- MCAllRedis`) | `cli/panic.py:99` | a process built during an outage reads its own file for life |
| `CrashSafe` | `invalidation/resynth_queue.py:95` | a crash in a drain leaves a `.processing` file that no drain reads |
| `NothingDropped` | `state_subscription/consumers/k8s.py:108-110` | a full queue drops the event; it blocks no thread |
| `ExhaustedRaises` | `state_subscription/consumers/k8s.py:319-320` | the sentinel of an exhausted thread is dropped by a full queue (`:475`) and the stream never raises |
| `DeletionReported` | `state_subscription/models.py:31-32` | a DELETED event carries the old fields and is passed over as unchanged |
| `BatchFlushed` | `invalidation/engine.py:172-173` | a stream that raises takes the collected batch with it |
| `OperatorWins` | `invalidation/engine.py:302-305` | an edit saved between load and write is overwritten |
| `ConflictMeansHuman` | `invalidation/engine.py:127-130` | a rewrite by the drain moves `last_updated` and is taken for an edit |
| `IndexCurrent` | `invalidation/dependency_index.py:4-6` | `upsert_page` is called nowhere, so new dependencies are unknown until a restart |
| `OnlyChanges` | `state_subscription/models.py:59-66` | a tracked field that is `None` is reported at first as a change from `None` to `None` (`k8s.py:434-446`) |
| `OnlyTightens` | `guardrails/tiers.py:146-147` | a rule with a negative `add_risk`, which `policy.py:136` takes, raises the tier |
| `SuggestNeedsNoApproval` | `guardrails/tiers.py:90` | a rule's approvals apply to a SUGGEST, whose gate collects nobody |
| `FailsClosed` | `executor/executor.py:515-516` | with Redis unreachable the probe falls back to the host's flag file, or `status()` swallows the error (`:521`), and the command runs while the fleet is halted |
| `EveryRunHasALine` (`Request <- MCOneRequest`) | `executor/audit.py:3` | a retry runs again and its line is suppressed |
| `OneLinePerKey` (`Request <- MCOneRequest`) | `executor/audit.py:12`, `:116` | two threads look the key up before either notes it |
| `DistinctApprovers` (`Request <- MCGateRequest`) | `executor/README.md:11` | one person listed twice meets the floor of two |
| `DisabledNotRegistered`, `DisabledNeverRuns` | `scheduler/jobs.py:41`, `:255` | replacing a live job by a disabled one leaves the old registration ticking; `run_now` runs a disabled job |
| `AlwaysLocalIsLocal` | `llm_router/config.py:52` | with the fallback allowed as well, or the sensitive backend set to the cloud, a prompt goes to the cloud |
| `KeywordsForceSensitive` | `llm_router/config.py:52-55` | a listed keyword adds to a score, which the marker of a sanitized prompt lowers again: the prompt goes to the cloud |
| `OneVoice` | `llm_router/router.py:351` | half an answer of Ollama is followed by a whole one of Claude |
| `AlwaysDropped` | `proxy/proxy.py:17-21` | the scope of a stream whose iterator never ran stays for good |
| `NoPlaceholderSeen` | `proxy/proxy.py:9-11` | each delta of a stream is restored alone (`:192-243`), so a placeholder cut by a delta reaches the caller in two halves |
| `EchoExact` (a request with the text `<<v1, <<HOST, 1>>>>`) | `proxy/proxy.py` | a caller's text that looks like a placeholder is replaced by another value |
| `DroppedMeetsKept` | `proxy/detector.py`, `_merge_nonoverlapping` | a hit is dropped for one that itself gives way; nothing covers it |
| `NeverRaises` | `honeytokens/scanner.py` | an invalidation between the two looks at the automaton makes the scan raise |
| `NewTokensSeen` | `honeytokens/scanner.py` | `create` does not invalidate, so a new token is missed |
| `BudgetKept` | `control_tower/context_builder.py:406` | each section is cut once; metrics and the analyzer's report never |
| `LargestFirst` | `control_tower/context_builder.py:408-409` | the sections are cut in a fixed order, whatever they contribute |
| `MalformedIsNone` | `control_tower/action.py:11-12`, `:67-69` | a blast radius that is no number raises (`:41`) out of `investigate` (`orchestrator.py:289-294`), which leaves no record |
| `FewerOnlyAtEnd` | `connectors/log_fetcher.py:46-48` | an empty page that carries a token ends the search (`:71-72`) before the rows of the pages after it |
| `SwitchStopsCalls` | `control_tower/orchestrator.py:156` | a switch thrown during the gathering does not stop the calls that follow |
| `ScoreIsProbability` | `connectors/pattern_analyzer/README.md:18` | one event counts once for each it meets, and the score exceeds one |
| `SilenceCounts` | `connectors/pattern_analyzer/time_patterns.py:203` | windows without an event are left out of mean and deviation |
| `SourcesSurvive` | `wiki/engine.py:162` | two ingests of one page: the later save drops the source of the earlier |
| `SavedIsFound`, `OneFileEach`, `DependenciesLast` | `wiki/synthesizer.py:309`, `:176-182` | a page saved under another type has two files, of which a load finds one; a merge drops dependencies |
| `OneFrontmatter` | `wiki/engine.py:31-33` | a rewrite keeps the old YAML block as part of the text above the marker (`:240-243`) and `to_markdown` puts another before it (`:303`): one more with each rewrite |
| `StaysArchived` | `wiki/staleness.py:262` | a call in flight saves the page anew |
| `BackIsCurrent` | `wiki/confluence_sync.py:243` | a page that is upstream again keeps its archived flag |
| `FlaggedWasAbsent` | `wiki/confluence_sync.py:325-344` | there is one instance for a space (`:77-80`) and one tracking file for all (`:32`, `:96`): a sync of one space flags the live pages of another as archived |
| `AlwaysOnce` | `wiki/signoz_sync.py:353` | overlapping syncs, or a crash before the ids are kept, ingest an incident twice |
| `SucceededIsPushed` | `wiki/publisher.py:312` | the job succeeds although the push failed |
| `CommitsStay` | `wiki/publisher.py:243-291` | two overlapping jobs take one HEAD for parent; the later one's sets HEAD past the other's commit, which is on no branch any more |
| `Idempotent` | `wiki/publisher.py:238` | the line in the log makes the tree dirty, so the next publish commits |
| `AskedOnce` | `wiki/contradiction.py:443` | two pages of one name are asked about twice |
| `SelfLinksDoNotCount` | `wiki/staleness.py:159` | a page only its own body links to is no orphan |
| `TopPairFirst` | `reconciliation/reconciler.py:11` | pairs are compared in search order, not by rank |
| `EveryTwoCompared` | `reconciliation/reconciler.py` | files of one path in two vaults of one name are taken for the same |
| `OnlyWhatExists` (`MaxEdits = 2`) | `reconciliation/sources.py` | `load_from_sync` keeps the copy of a page that is gone |
| `SuspiciousIsReported` | `reconciliation/drift.py:128` | the other signals add 0.155 at most and lift nothing recent over the threshold |
| `SweepAgreesToTheDay` (ages a day apart) | `reconciliation/drift.py:148` | both scores round to the same thousandth, and the fresher document comes first |
| `RedirectsHonourRobots` | `reconciliation/README.md:44` | redirects are followed (`mcp/tools/read/docs_link_check.py:112-116`) to paths a host disallows and to hosts never asked for their rules |
| `OneBadLink` | `mcp/tools/read/docs_link_check.py:141` | a link that cannot be parsed ends the check and loses the other verdicts |
| `SpikeIsFlagged` | `mcp/tools/read/finops/anomaly_detect.py:82`, `:90` | four or five days cannot reach the sensitivity of 2 |
| `SpendersOnce` | `mcp/tools/read/finops/top_spenders.py` | an AWS service has a row a day in the ranking |
| `SpikesHaveEvidence` | `agents/analyzer.py` against `routers/logs.py:87` | no evidence for entries without a service |
| `NewErrorAtItsService` | `routers/logs.py:85` | put down to a service that logged the message as a warning |
| `WindowKept` | `routers/logs.py:139` | the window is and-ed to the last pattern only |
| `ErrorLevelsOnly` | `routers/logs.py:114` | levels compare as strings: `warning` is past `error`, `critical` before it |

Seen while reading, with no definition behind it:

* Kill switch and scheduler: `is_active` is said to gate retries
  (`killswitch/switch.py:162-163`) and no retry calls it; `killswitch_gate` wraps no
  production MCP tool; `main.py:99` passes no dependencies to the scheduler and
  `default_jobs` (`scheduler/jobs.py:196-248`) builds no drain job, so nothing drains
  the queue.
* Consumer and engine: a consumer without a list function logs "thread exiting"
  and loops (`k8s.py:368-374`); the tail beyond the fan-out cap is said to be
  recovered by a daily reconciliation (`engine.py:106-107`) that does not read
  pages. An event whose fan-out raises (`invalidation/engine.py:278`) or whose append
  does (`:279`, `:425-429`) is logged and dropped; the model has an append that raises
  write whole lines or none of them, not part of a line. A `read_text` that fails in the
  drain after the rename is not modelled.
* Tool server: the key of an approval holds no investigation when called by the
  agent (`agents/orchestrator.py:450`), so a grant for one lets another through.
  `IncidentOrchestrator` is instantiated by no route. The usage of a failed
  investigation is recorded (`agents/orchestrator.py:245`, `:256`) and its result tells
  zeros (`:754-760`). `_route_tool_execution` has no branch for the `docs_*` tools, which
  end in "No handler registered" (`mcp/server.py:332-333`).
* Control tower: `main.py:209` builds it without the required `llm_router`, so the
  route always answers 503; the warning about `budget_usd` cannot fire;
  `include_traces_in_standard` is read nowhere (`control_tower/config.py:51`);
  failures of fetchers are only logged although `context_builder.py:144` speaks of
  warnings; with at most ten log lines the analyzer can report no burst.
* Wiki: the router builds `StalenessLinter`, `ConfluenceSync`, `SignozSync` and
  `engine.ingest` calls with arguments they do not take, so those routes fail;
  `author_name` and `author_email` of a publish are ignored; the archived sidecar is
  written in place, so a crash in the write forgets it; after the rollback of a
  pushed commit every later push is rejected.
* Documents: `llm_pair_limit` of zero or less still sends one pair
  (`reconciliation/reconciler.py:19`); an undated document is never reported stale
  (`drift.py:91`).
* Costs: the grand total adds OpenCost and Kubecost, which tell of the same
  spending (`top_spenders.py:128-131`); negative amounts (credits) are not modelled; a window of "7d" asks AWS for eight days; the
  baseline is the whole series, not the days before.
* `RemediationAgent` is called by nothing; the `/analyze` endpoints return fixed data.

## 6. What could come next

1. The parts of `reconciliation/sources.py` and `wiki/contradiction.py` that read
   their documents, to see whether what they pass over can be told from what is
   not there.
2. `ChangeFeed` as the stream of `Invalidation`, in place of the events that module
   makes up, so that the two halves of the pipeline are one system.
3. Fairness: under what fairness of the loop, and of a drain job once one is
   registered, `Converges` of the consumer implies that pages converge as well.

## 7. What is left out, and why

* Wording, logging and telemetry: no decision depends on them.
* Text processing: prompts, parsing of answers and of Markdown, the regular
  expressions behind signals, hits, templates and keywords. The models start
  from what these yield.
* What a language model answers is any value of the right kind.
* HTTP reads of single backends: one external call each. Their retries are those
  of `Connector`.
* The verb tables and argument checks of the executor's wrappers are one Boolean
  of a request; which fields of which Kubernetes kind are tracked is the
  constant `Artifact`.
* Shadow mode of the invalidation engine writes its log only.
* `agents/remediator.py`, which nothing calls, and the fixed data of the `/analyze`
  routes.
* Wiring (`main.py`, routers): the initial states of the modules are what it
  builds; the routes that change state are in the module of what they call.
* The web UI and the Go handlers: translations of requests to queries. The
  token bucket of the rate limiter works under one mutex.
