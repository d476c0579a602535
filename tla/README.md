# Frontier OS: a TLA+ development

Frontier OS (TypeScript on Node, SQLite for state) takes intents from a CLI, an
HTTP daemon and an MCP bridge, turns them into *commands* on a durable queue,
gates them by approval class, and has worker processes execute them. Overnight
runs sweep the queue and run work graphs; a model-calling layer (swarms,
arbiter, inference broker) builds and reviews code. Everything leaves events in
one append-only ledger.

This directory holds TLA+ modules translated from that code, TLC configurations
that check them on small instances, and theorems proved with TLAPS for every
instance. Paths below are relative to the repository: `commands/store.ts` is
`src/commands/store.ts`.

## 1. Inventory

### Components

| Component | State | Operations | What must be right |
|---|---|---|---|
| **Command store** `commands/store.ts` | SQLite rows `commands`, `command_activities`; terminal events in the ledger | submit, cancel, claimNext, extendLease, finishActivity, finishCommand, resume, retry, requeue | leases, attempts and outcomes agree; ended work stays ended; nothing is lost or doubled; nothing is queued without the policy's consent |
| **Command worker** `commands/worker.ts` | the command it holds, its heartbeat timer | claim, execute, heartbeat, finish; loop | work is reclaimed after a death; a lapsed lease does no harm |
| **Policy and approvals** `policy/evaluator.ts`, `approvals/queue.ts` | grants and consumptions in the ledger | evaluate, approve, consume, list | one-shot tokens; class 2 only with a token; class 3 never |
| **Overnight preflight** `overnight/queue.ts`, `commands/debt.ts` | the list of stale commands it works through | list, decide, requeue | only expired or queued class 0/1 work is touched, none is lost or doubled |
| **Routing, execution policy** `commands/store.ts`, `commands/execution.ts`, `commands/compiler.ts` | route, class, terms and graph of a command | classify, plan, compile, dispatch, verify, classify a failure | what completed was verified; a retry keeps the terms; effects do not happen twice |
| **Debt, brief, readiness** `commands/debt.ts`, `brief.ts`, `readiness.ts`, `final-brief.ts` | none of their own | assess, advise | the advised call is one the store takes; "ready" is true |
| **Work graph** `work/*.ts` | node results of one run | prepare, wave, dispatch, retry, verify | dependencies respected, failures contained, the run ends |
| **Ghost shift** `ghost/shift.ts` | files in queue/ running/ completed/ ... | enqueue, run a shift | each graph runs once, none is stranded |
| **Overnight plan, run, brief** `projects/planner.ts`, `overnight/*.ts` | plans, graph files, ledger events | plan, compile, enqueue, run, brief | the plan fits; run event, brief and files agree whatever died |
| **Ledger** `ledger/index.ts` | events with an offset per session | append, list, archive | archive loses nothing; a bounded lookup does not forget a spent token early |
| **Inference broker** `inference/*.ts` | token buckets, semaphores, registry | acquire, call, retry, penalise | limits hold under concurrency and after a 429 |
| **Builder worktrees** `builders/*.ts` | git worktrees and a state file per run | spawn, collect, remove | a branch holds the outcome; cleanup is complete |
| **Swarms, arbiter, orchestrator** `swarm/`, `arbiter/`, `orchestrate/` | phase of one run, findings, decision, artifacts | build, apply, verify, review, decide, clean, report | an accepted patch is real, the packet is last, the run ends |
| **Adapters** `adapters/browser/`, `adapters/salesforce/` | the page, one invocation | act, check, retry, roll back, log | success means the page showed it; a failure is undone once and told |
| **Quality ledger** `quality-ledger/*.ts` | JSONL files and a packet index | ingest, mark, score, recommend | no row counts twice, and what counts as ingested is whole; advice settles |
| **Refinery** `refinery/*.ts`, `eval/runner.ts` | registry, proposals, passes, exports | harvest, propose, evaluate, promote, revoke, export | promotion follows the evidence |
| **Watchers, scheduler, launchd** `watchers/*.ts`, `scheduler/*.ts` | timers, snapshots, alerts, kill switches | tick, alert, arm, start, stop | a timer is always armed; what turned stale is told once |
| **Daemon, MCP bridge, CLI** | none of their own | forward calls to the store, the policy and the ledger | same guards from every entrance |
| Reports, memory, skills, telemetry, helper repairs | files, network | read-only or I/O | out of scope, see section 7 |

`PROJECT.json` lists each with its sources, what is modelled and why the rest is not.

### How they interact

Every process opens its own `CommandStore` on the same SQLite file and its own
handle on the ledger. Node runs the code of a process to completion between
awaits, so a second process gets in *between two SQL statements* (or two
transactions): `cancel`, `requeue`, `resume`, `finishCommand` and
`consumeApprovalToken` are each several statements, and that is where the
hazards are. The ledger's archive run and the writers of the JSONL files are in
the same position, and the Ghost Shift's queue is a directory whose `rename` is
its only lock. Submissions and claims are one transaction each. A worker awaits
while its plan executes; its heartbeat timer extends the lease meanwhile. The
approval queue and the policy evaluator share no lock, only ledger events.

### What is hard

* two workers and one queue, with leases that lapse under a working process;
* operator calls that decide on one read and write on another;
* deaths between two writes (activity/command, command/ledger, cancel/submit,
  token/resume);
* a preflight whose eligibility is older than its requeue;
* work that must end although any worker may die;
* waves of concurrent nodes with failures, gates, skips and retries that meet
  in one tally;
* overlapping shifts over one directory, names with a resolution of a second;
* token buckets refilled lazily and shared by calls that know nothing of each
  other, with penalties in the future;
* builders that share one process and a repository, with git commands that fail
  and a process that dies between git, the state file and the artifacts;
* a page that lives on between the scripts of one action: it obeys late or
  never, renders anew, and drops its answers;
* work executed twice: after a crash, by a retry, by a replacement that is
  routed anew from its words;
* an archive run of four statements beside writers that go on, under a
  lookup that sees only the newest events;
* append-only files that several processes read and then append to: passes,
  promotions, quality rows, snapshots;
* a night whose files, shift totals, run event and morning brief are written
  by different steps, each of which may be the last.

`PROJECT.json` "hazards" lists each at its line with the properties that would
notice, or why none does yet.

## 2. Modules

| Module | Models | Composition |
|---|---|---|
| `Policy` | `evaluatePolicyAction`, grants, TTL, `consumeApprovalToken`, the approval queue's listing rule | |
| `CommandStore` | the store, its workers and its operator calls | EXTENDS `Policy` |
| `ExecutionGate` | the abstract promise: work is permitted, stays so, and only permitted work is executed | refined by `CommandStore` |
| `OvernightPreflight` | `evaluateOvernightDebtPreflight` over the store | EXTENDS `CommandStore` |
| `TopologicalSort` | `topologicalSort` of `work/graph.ts` | |
| `WorkGraph` | `runGraph` of `work/executor.ts` with dispatcher and verifier | |
| `GraphRun` | `runGraph` from `prepare` to the summary | EXTENDS `WorkGraph`, composed with `TopologicalSort` |
| `CommandRouting` | `classifyCommand`, `planCommand`, routes, classes, missing inputs | |
| `CommandExecution` | execution policy, compiled graph, its checks, the name of a failure, `operatorSubmitInput` | EXTENDS `CommandRouting` |
| `CommandGateway` | requests, dispatches and results of the commands in the store | EXTENDS `CommandStore` and `CommandExecution` |
| `CommandBriefs` | debt, brief, readiness, final brief | EXTENDS `CommandGateway` |
| `GhostShift` | `enqueue` and `runShift` of `ghost/shift.ts` | |
| `OvernightPlan` | project status, project plan, overnight plan | EXTENDS `Policy` |
| `OvernightRun` | a night: sweep, plan, compile, enqueue or run, events; launchd's shifts | EXTENDS `OvernightPreflight` (hence the store) and `OvernightPlan` |
| `OvernightBrief` | the morning brief, as functions of the ledger | EXTENDS `OvernightRun` |
| `Ledger` | sessions, appends, lookups by kind, archive | |
| `RateBudget` | the abstract promise: a burst, then one request per refill interval | refined by `InferenceBroker` |
| `InferenceBroker` | `callClass`, the token buckets and the retry delays | |
| `Worktrees` | git worktrees, branches and state files | |
| `BuilderSwarm` | the builders of one swarm | EXTENDS `Worktrees` |
| `Arbiter` | scores, review coverage, the decision | |
| `Orchestrator` | `runOrchestration` with its artifacts and deaths | EXTENDS `BuilderSwarm` and `Arbiter` |
| `ActionLoop` | `runAction` and the page | |
| `BrowserCommands`, `DashboardCommands` | the writing commands of the browser and the Salesforce adapter | each EXTENDS the one before |
| `AdapterInvocation` | `frontier adapter invoke` with its events | EXTENDS `DashboardCommands` |
| `Refinery` | harvest, rules, evaluations, passes, promotions, exports | |
| `Watchers` | the watcher runtime and the four watchers | EXTENDS `Refinery` |
| `Scheduler` | foreground scheduler, launchd, the operator's shell | EXTENDS `Watchers` |
| `QualityLedger` | ingest, readers, scores, recommendations | |
| `MC*` | instances for TLC | each EXTENDS its module |
| `CommandStoreProofs` | theorems of the store, the gateway and the briefs | EXTENDS `CommandBriefs` |
| `GraphRunProofs` | theorems of the sort, the graph and their composition | EXTENDS `GraphRun` |
| `SchedulerProofs` | theorems of the refinery, the watchers and the scheduler | EXTENDS `Scheduler` |
| `FileProofs` | theorems of the Ghost Shift queue, the ledger and the quality ledger | EXTENDS `GhostShift`, `Ledger` and `QualityLedger` |
| `OvernightProofs` | theorems of the preflight, the nights, the plan and the morning brief | EXTENDS `OvernightBrief` |
| `OrchestratorProofs` | theorems of the builders and the orchestration | EXTENDS `Orchestrator` |
| `AdapterProofs` | theorems of the adapter commands | EXTENDS `AdapterInvocation` |
| `InferenceBrokerProofs` | theorems of the broker | EXTENDS `InferenceBroker` |

Definitions whose comment begins with "MUTANT" are no part of a model: each is
a plausible bug in the definition that follows, used to make sure that the
property it should break does break.

### Command store

A command is a row; `planCommand` gives each exactly one activity, so the
activity's columns are functions of the command too. `lease_until` is null,
ahead of now, or passed: the code only ever compares it with now.
Command ids are naturals in the order of `requested_at`, which is the order
`selectClaimable` uses.

A worker is a record of the place it has reached and the command it holds, an
operator process a record of the call, the place in it, the command the call is
about, and what it remembers across statements. One action is one SQL
statement or transaction:

| Code | Actions |
|---|---|
| `submit` | `Submit`, `SubmitReplacement` (both `Insert`) |
| `claimNext` + re-read + `firstRunnableActivity` | `Claim`, `ReadClaim` |
| `extendLease` from the heartbeat | `Heartbeat` |
| `executeCommandPlan` returns | `Executed` |
| `finishActivity`, `finishCommand`, `appendTerminalCommandEvent` | `FinishActivity`, `FinishCommand`, `AppendTerminalEvent` |
| `cancel` | `Cancel`, `CancelWrite`, `CancelMark` |
| `retry` | `Retry`, `SubmitReplacement` |
| `requeue` | `Requeue`, `CancelRead`, `CancelWrite`, `CancelMark`, `SubmitReplacement` |
| `resume` | `Resume`, `ReadTokens`, `ConsumeToken`, `ResumeWrite`, `ResumeMark` |
| `policy consume` | `PolicyConsume`, `ReadTokens`, `ConsumeToken` |
| `approval approve`, `policy approve` | `Approve` |
| TTL, lease expiry, process deaths | `Expire`, `LeaseLapses`, `WorkerDies`, `OperatorDies` |

Abstracted: intents, payloads, plans, checkpoints, results and timestamps. What
the queue needs of routing, the approval class, is an input of `Submit`. A
command above class 1 that is blocked by policy keeps the status the code gives
it. `finishCommand` and `updateState` write by id alone, whoever holds the
lease: the model has no guard there because the code has none.

### Preflight

`sweep[o]` is the preflight operator process `o` is running: its state, the
items to come, and which of them had an expired lease when it listed them.
`StartSweep` lists, `Remediate`/`LeaveManual` take the next item after a fresh
read, `RequeueRead` is the store's own read inside `requeue`, whose refusal
aborts the sweep. Age thresholds are left open: any open command may be stale.

### Work graphs

`prepare` first sorts the graph. `TopologicalSort` is Kahn's loop: `Take` is
one round of its `while`, `Finish` the check behind it; the queue the code keeps
sorted is a set whose least element is next. `GraphRun` composes the two: a run
starts with any graph, is refused for its cycle, or goes on with the sorted
nodes; `Prepared(A)` is a step `A` of a run that got past the sort.

`WorkGraph` is one run of a graph that passed. Node code runs to completion
between two awaits, so an action is what happens from one await to the next:
`StartBatch` takes a slice of `maxConcurrent` nodes off the wave and starts
every `runOne` of it up to its first await; `DispatchReturns`, `Redispatch` and
`Verify` are the resumptions of one `runOne` after the dispatcher, the backoff
and the verifier; `EndBatch` is `Promise.all` and the stored records; `EndGraph`
the summary. `TouchToken` is the operator's token file, which the dispatcher reads at the
moment an approval node is dispatched; files only appear. A dispatch awaits a
spawned process, so the nodes of a batch overlap. Left out: dry runs, artifacts, ledger
events, and the message of a failure. An exception of the file system while a
summary is written ends the run like a kill and leaves no summary.

### Ghost shift

A queued file is named after the second it was enqueued in, so a file is that
second, and two graphs enqueued under one base name within a second share it.
`dir[d][f]` is the graph in file `f` of directory `d`, and every move is a
`rename`, which overwrites. A shift is a process: `StartShift` lists the queue
once, `LoadNext` loads and assesses the oldest file of its list, `Reject` or
`Claim` moves it, `Executed` is the return of `runGraph` (see `WorkGraph`),
`Route` the move to the directory of the outcome, `EndShift` the end of the
list or of the time budget. When the source of a rename is gone, the rename, its retry and
the copy fail and nothing catches the error: the shift ends (`MoveFile`). `Crash` kills a
shift; `KillSwitch` creates or removes `.disabled`, which only the start of a shift reads.

### Inference broker

A call of `callClass` waits for a slot of its class (`Enter`), for a token
(`Acquire`, one turn of the waiting loop), for the provider (`Succeed`,
`TooMany`, `ServerError`, `Refused`), and for its delay (`Resume`). Time passes
in ticks; a bucket holds units of which `RefillTicks` make a token, so the
fractions the code keeps in floating point are whole numbers here. `due` is
`lastRefillMs` relative to now: negative while a refill is outstanding, positive after a
penalty. Jitter is any delay up to `MaxBackoff`. Providers answer and do not
throw; timeouts reach `callClass` as a status.

### Command gateway

A request is what a client submits: an intent, which is the set of the
classifier's phrases that occur in it, an optional payload, project and class,
and terms (retries, runtime, a demand for verification). `CommandRouting` holds
every rule of `classifyCommand` in its order, the routes with their missing
inputs, and the action of a route; `CommandExecution` the terms a route gets,
the checks its verifier runs, and what `retry` and `requeue` submit of it. `CommandGateway` adds to
`CommandStore` what each row stores (`command`), the dispatches of the node a worker executes
(`run`, `Dispatch`, `EndGraph`), the stored result, the number of times an
action was performed (`effects`) and the order of `updated_at` (`newer`).
Every step is a step of the store.
`CommandBriefs` reads that state: `Stale`, `OperatorAdvice`, `RecoveryCalls`,
`Unresolved`, `Readiness`. A brief reads the `limit` rows updated last
(`InBrief`), of those the ones of its hours (`Windows`, any of them), and of the
failures among them the `Shown` latest. `Accepts` is what the store takes of a call.

Abstracted: the spelling of intents, paths and CLI arguments, the output of a
failed dispatch (a verifier only looks at it after a success), summaries,
packets and artifact files. The graph file is written before the row.

### Ledger

An event is its session, offset, time, kind and token; the clock counts
appends, so no two have one timestamp. `EnsureSession` and
`AppendEvent` are the two statements of a writer; one that logs work ensures
once and appends many times. `ArchiveSelect`, `ArchiveCount`, `ArchiveWrite`,
`ArchiveDelete` are the statements of `archive`, `ArchiveEnds` its death
between two of them or a dry run. `Consume` is `consumeApprovalToken` with the
newest `Window` (1000) grants and consumptions it looks at; what two consumers
do to each other is `CommandStore`'s subject. The tokens are those of one trace.

### Build pipeline

`Worktrees` keeps, per builder run, what git has on disk and on the branch
(`onDisk`, `branch`, `head`) and what the state file says (`record`). `BuilderSwarm` is
`runOneBuilder` for all builders at once: the only await is the
model call (`Answered`), so `thread` names the builder whose synchronous
stretch runs, with a step per git call: scope check, two-phase apply, commit,
collect, self-verification, reset, and the three retry loops.
`Orchestrator` adds the stages of `runOrchestration`: `ContextPack`, `Build`,
`WriteBuilderPacket`, `Review`, `EndReviews`, `Decide`, `CleanOne`, `EndCleanup`, `WriteReport`,
`WritePacket`. `Crash` kills the process between any two; a second run
of the same task then works over the artifacts of the first. `Decide` is the arbiter's
decision, translated in `Arbiter` from verification phases, rubric scores,
coverage and findings.

Assumed: writes of the state file and of artifacts do not fail, nobody runs
`builder remove` meanwhile, worktrees of earlier sessions are not followed, and
what the arbiter's own verification leaves behind is ignored. A review swarm is
one step with any answers. Prompts are abstracted.

### Adapters

`ActionLoop` is `runAction`: action, network expectation, stability, predicate,
rollback, toasts. The page is what its control shows, a pending change it may
or may not obey, toasts and an outstanding request, and lives on (`PageLives`)
between any two scripts. A label is a set of words, because some checks
compare labels and some look for one in another. `BrowserCommands` and
`DashboardCommands` give each command its action, predicate and rollback;
`AdapterInvocation` runs one of the twelve, leg by leg, and writes
`invocation.start`, `invocation.end` and the side effects, `Die` being the
process's end in between. How a script locates its control is one
nondeterministic answer. The toast helper is installed, and a script that ran
gets its answer back.

### Overnight

`OvernightPlan` computes a night from manifests and sightings: project status,
health, the actions of a project plan with their policy decision and lane, and
the one-pass packing of the night. `OvernightRun` is the night as a process:
the preflight's sweep (`RequeueItem`, `LeaveItem`, over `OvernightPreflight`),
`Plan`, `CompileNext` file by file, then `TellEnqueued`, or `StartOwnShift`,
the shift's `TakeFile`, `RouteFile`, `TellOutcome`, `EndShift`, and `TellRun`.
Beside it run a command worker, other nights, launchd's shifts and graphs
enqueued by hand, and each process may die anywhere. `OvernightBrief` computes
the morning brief from any suffix of the ledger: lanes, attention, the
lists cut to their length.

Left out: whether plan, helper and daemon are reachable, the plan event, the
projects and verbs of a brief, lanes of commands in debt, lane summaries
of ledgers written by earlier versions, `--queue-dir`, the `.disabled` switch and
races between shifts (`GhostShift`'s subject).

### Night jobs

In `Refinery` a failure event is its cause and the payload field its reason was
found in; a cause stands for its rule. The registry, the proposals, the passes
and the exports are the append-only files of the code, and every command on
them is its read and its append in two steps (`CheckPromotion`/`WriteRule`,
`ReadPasses`/`RecordPasses`, `LoadCandidates`/`Consider`/`Promote`/`Announce`).
`Watchers` is `runWatcher` around the four watchers: kill switch, tick event,
the watcher's work, one alert at a time, result event. `Scheduler` starts them:
timers of the foreground scheduler, which are armed again when a tick is over,
calendar entries computed from the same cron expression for launchd, and the
operator's shell. `Release` changes the code that normalises reasons,
which is how an evaluation can regress.

Assumed: one ledger session per job, payload fields that are present are not
empty, alerts satisfy their schema; the order of proposals within
one harvest, and of the rows of one evaluation, is arbitrary. Wording and metrics are abstracted.

### Quality ledger

A row is what a score or an advice reads of it. `CheckIndex`, `AppendBegin`,
`AppendRow`, `AppendComplete` are an ingest, by the orchestration or by hand,
with or without force. Without an index file the check is three steps more:
`CheckIndex` finds it missing, `ScanRuns` reads worker-runs.jsonl, `Backfill`
appends a complete row for every packet it found, and another ingest gets in
between any two. `mistaken` remembers the packets a backfill took for an earlier
writer's before their ingest was over. `Scores`, `WilsonLowerBound` (in integers, times 1000) and
`RecommendPolicy` are the pure functions, `Apply` the operator who follows an
advice. One append is atomic: a torn line would be glued to the next row and
both dropped. Packet ids and model keys are numbers, which are compared as the
code compares the strings, and `Absent` is none. What the code sorts, `InOrder`
lists by rank. `BoundTable` only saves work: it holds `WilsonLowerBound` for up
to `MaxSamples` samples. Builder and reviewer classes differ, as `patch_builder`
and `adversarial_review` do.

## 3. Runs

Run with `tlc -workers 2 -config X.cfg M`, `M` being the module the run names in
`PROJECT.json`.

| Run | Question | Bounds |
|---|---|---|
| `cs_queue` | Do leases, attempts, outcomes and ledger events stay consistent when workers race and an operator interferes? | 2 commands of class 1 and 2 (one may replace the other), 2 workers, 1 operator with cancel, retry, requeue, resume, 1 approval token; 1 death, 1 lapse under a working holder; symmetry |
| `cs_approval` | Can any sequence of calls get work executed without consent? Does the store refine `ExecutionGate`? Does queued work end, and approved work get executed? | 2 commands of class 1 or 2, 1 token, a worker limited to class 1 (the launchd resident) beside an unlimited one, 1 operator with resume, retry, both approvals and consume, 1 death; fairness |
| `cx_run` | Was what completed verified? What does a retry run, what happens twice, and is what the briefs say true? | 2 commands, 11 kinds of request (by words, by payload, with terms of their own), one submitted and one a replacement, 1 worker, 1 operator with every call, 1 token, 1 death; the brief reads 1 row or 2 of any window and shows 1 failure |
| `wg_run` | Is the sort right and least, the cycle error exact? Are dependencies, gates and failures respected in every schedule, and does each run end? | every graph of 4 nodes, cyclic ones included; 2 at a time; node 1 has 2 attempts, node 2 is an approval, node 3 is gated, node 4 verified; fairness |
| `gs_queue` | Is a graph started once, never lost and never doubled, and does the queue drain? | 2 shifts, 2 graphs, 2 seconds, 1 kill, kill switch; fairness |
| `ov_run` | Do sweep, plan, files, run event and brief agree, whatever dies? | 3 commands, 1 worker, 2 operators with a night each, launchd's shift, 1 death, 1 stall; 2 projects, a night of 1 hour; 12 events; lists of 1; four mixes of how much of each happens |
| `lg_run` | Does archiving lose an event? When is a spent token good again? | 2 writers, 3 tokens, a window of 2, 7 appends, TTL 6, age 4, `Ahead` 0 |
| `ib_calls` | Do the limits hold and does each call return? Do the buckets refine `RateBudget`? | 3 calls of 2 classes that share a model, the first class with a fallback; 1 slot per class, 2 attempts, capacities 2 and 1, every answer; fairness |
| `ob_run` | Is an accepted patch real, is the repository clean afterwards, does a run end? | 2 runs of one task, 2 builders, 2 reviewers, 1 retry of each kind, 1 read file, one tracked path and one leftover, 3 verification outcomes, 1 crash; fairness |
| `ad_run` | Does success mean the page showed it, is a failure undone once and told, does an invocation end? | each of 12 commands, labels with common words, 1 toast, one pending change and one request; fairness |
| `nt_run` | Are promotions earned and exports recorded, is what turned stale told, does the timer stay armed? | 2 causes, 2 processes, 1 report, seven mixes of what happens; promotion after 2 days, datasets of 2 to 3 items, days of one hour |
| `ql_run` | Does no row count twice, is what counts as ingested whole, and does advice settle? | a legacy packet and two more, 2 processes, forced and repeated ingests, deaths, a lost review file, human marks |

Several properties are conjunctions of named parts, each with its own comment:
`LeasesAreWorked` (`LiveLeaseIsWorked`, `ExecutionsAreCounted`), `RecordsAgree`
(`CanceledActivitySettles`, `OutcomesAgree`, `CompletionIsLedgered`),
`QueuedWorkEnds` (`OpenWorkEnds`, `ApprovedIsExecuted`), `WorkIsOrdered`
(`WorkFollowsDependencies`, `FailureIsContained`), `FilesTellTheTruth`
(`DirectoryTellsHistory`, `OnlySafeGraphsStart`), `EffectsAreIntended`,
`BriefsAreTrue`, `RepositoryIsClean`, `ArtifactsAreReal`, `ResultIsHonest`,
`FailureIsUndone`, `RefineryRecordsAreTrue`, `PreflightKeepsWork`, `BriefIsHonest`.
To find out which part of one fails, name the parts in the .cfg.

Why these bounds are enough to be interesting. *Store*: every race in the code is
between two processes over one row, and a replacement involves one more row. Two
workers give the stale holder and the reclaimer; one lapse and one death give
every way a lease is left behind, in every order. Class 3 never gets past
`Submit`; that is left to `WorkAlwaysAuthorized`, which is proved for all classes.
`MaxCrashes` and `MaxStalls` bound only how often faults strike in
one behaviour. *Gateway*: one request and its replacement
are all that a retry, a requeue and a brief relate. *Graphs*: four nodes hold a
diamond, a chain of three next to an independent node, and a wave wider than the
pool; each kind of node meets each position. *Shifts*: two shifts race for every
rename, and two graphs with two seconds give one shared and two distinct names.
*Nights*: two operators give two nights beside launchd's shift on an empty
command store; where commands are submitted there is one night, whose sweep races the
worker and the leases, since two sweeps may double work (section 5). A list of one item is already cut. *Ledger*: three tokens push
the first out of a window of two; the archive's age is below the TTL, so
that grants and consumptions do get archived. *Broker*: two calls contend for a
slot, the third for the shared bucket from the other class. *Build*: a second
builder makes the arbiter choose and the cleanup iterate; a second run meets
the leavings of the first. *Adapters*: one change that
happens late, one toast and one request meet every position of the loop.
*Night jobs*: a threshold of two days needs three recordings to go wrong.

Symmetry (over workers, operators and processes, which the code never compares) is used in safety runs only, and only where they share
their parameters. Deadlock checking is off where the program may stop: a
run, a call or a queue with nothing left to do, and submissions are bounded.

Several store invariants speak of behaviours without a fault (`crashes = 0`,
`stalls = 0`). With the fault the code does not promise the
property, and each such condition names the one fault that breaks it. The ghost
shift's invariants speak of graphs with a name of their own: two graphs under one name overwrite
each other, which is listed as a hazard.

## 4. Fairness

* `FairSpec` (store): for each worker, weak fairness of claiming and of the steps
  of a claimed command, and of lease expiry when no live holder extends it.
  `runCommandWorkerLoop` polls in a loop; a process it starts is killed at its
  time budget and the other steps run without waiting; a wall-clock lease nobody
  renews runs out. A worker that dies goes back to polling, which is the restart
  launchd performs (`commands/launchd.ts:128`, KeepAlive unless the exit was
  successful); so does a loop that ended at a failed command, which exits with 2. A
  loop that reaches its runtime limit exits with 0 and is not started again:
  that is outside of the assumption. Nothing is assumed of operators, approvals or crashes.
  Expiry is conditioned on the holder being gone: a heartbeat may keep
  a lease for as long as the work runs.
* `RunFairSpec` (`GraphRun`): weak fairness of `Prepare`, `StartBatch`,
  `EndBatch`, `EndGraph` and of each node's steps. A dispatched command is
  killed at its timeout, a backoff runs out, and the rest runs on. Nothing is
  assumed of token files.
* `GhostFairSpec`: weak fairness of the steps of a shift, strong fairness of
  its start (launchd tries time and again, and the kill switch may come and go
  in between), and weak fairness of removing the kill switch: it does not
  stay on for good. Nothing is assumed of enqueueing or kills.
* `BrokerFairSpec`: time passes, and each call carries on: a waiting loop polls
  and a request ends at the latest with its timeout.
* `FairSpec` (`Orchestrator`): weak fairness of `RunStep`; the broker answers
  every call, and everything else is synchronous.
* `FairSpec` (`AdapterInvocation`): weak fairness of `ProcessStep`; every call
  to the browser is answered, refused or timed out. Nothing is assumed of the page.

`Ledger`, `CommandGateway`, `OvernightRun`, `Scheduler` and `QualityLedger` state safety only.

## 5. Where the code and its documents differ

The properties state what the code does keep, with the exceptions
below written into them as conditions. Paths are relative to the repository.

Commands and approvals:

* "Second consume fails." (`docs/plans/policy-ledger.md:78`) holds for consecutive, not for concurrent consumers, and only within the newest 1000 events of a kind.
* A preflight can cancel a command that was reclaimed after it looked (`overnight/queue.ts:588`; `docs/runbooks/command-orchestrator.md:122` says it leaves live leases alone).
* A slow `resume` writes over a command that has meanwhile run and failed, and
  of two resumes the loser blocks an approved command again (`commands/store.ts`, writes by id alone).
* The worker installed by launchd runs with `--max-approval-class 1` and never takes class 2, approved or not; `cs_approval` needs its unlimited worker.
* A client whose daemon call gets no answer within 1.5 s carries the call out itself: a submit or a retry can happen twice, as `idempotencyKey` is not unique.
* An explicit approval class overrides even a destructive intent and also decides the effects: class 0 on a click gives it two attempts and no verification. `allowSideEffects` is stored and read nowhere.
* The effect precedes its verification, and after a death or a retry it happens again; `EffectsAreIntended` says when it does not.
* `retry` and `requeue` drop the payload: a command routed by its payload is routed by its words the second time, and another verb runs, in the default project when it had none. `RetryKeepsTerms` excepts it.
* A command with missing inputs has a blocked plan whose graph runs `command explain` and completes. The route of `set_filter` has an action although inputs are missing. A removed graph file makes the worker run the action unverified.
* `commands/execution.ts:381` names a failure `verifier_failed` before it looks for a timeout, although `docs/runbooks/command-orchestrator.md:55` has `retry_budget` warn of runtime-budget failures; an argument called `--timeout-seconds` makes any failure of `mlx.benchmark` look like one.
* The brief looks at the ten newest failures and the `limit` most recently updated commands only (`commands/brief.ts:75`), so readiness can be "ready" beside a blocked command that later updates pushed out. `ReadinessIsHonest` says which ones those are. A worker that finishes a canceled and retried command late makes the failure newer than the retry's success.
* The final brief advises to create a review token and rerun the command; the rerun has a graph id of its own, so the token is not found. A process that dies after `submit` loses the event that links a replacement to its source.

Work graphs and nights:

* `work/executor.ts:12` speaks of direct descendants; skips are transitive. A node of class 2 or above behind an approved approval node still awaits
  approval, whatever the note at `work/executor.ts:269` suggests. A graph whose approval node was skipped for want of a token returns
  "completed"; `CompletedIsHonest` states what "completed" does mean.
* What a killed shift leaves in `running/` is never looked at again, against the comment at `ghost/shift.ts:11`. `ghost/shift.ts:309` expects a shift that lost a race to skip the file; it aborts, and a later shift does the rest.
  `ghost/safety.ts:7` names `blocked/` where the code uses `rejected/`.
* The side effects of a project's gate are not carried into the compiled graph (`sideEffectsForAction` looks at the class alone), so what the Ghost Shift refuses for its side effects is not refused for a gate.
* A run is "completed" although its time budget left graphs in a private queue that nobody else works off; "partial" when nothing was planned. Two enqueues in one night queue the same actions twice.
* A night killed before its event leaves graphs no brief attributes; a preflight that throws half way leaves its requeues untold. Two preflights at once may both requeue a command they read before either canceled it, and leave two replacements open. A dry run counts in the brief's number of preflights. The enqueue event and the run event of one run never both occur, so the brief's deduplication is for older ledgers. Lanes of graphs in a private queue are not found by file, and the cache of graph metadata is never invalidated.
* The route to "blocked" is unreachable for a graph that passed its assessment, and an empty first argument makes an action "unsupported".

Ledger, inference, build:

* `archive --before` in the future deletes what was appended after the select (`docs/SYSTEM-STATE.md:61` promises the sidecar first); `NoEventIsLost` assumes it away.
* A 429 "pushes the next refill out by either `Retry-After` … or 1 second" (`docs/inference-broker.md:69`). Any call that polls during the penalty sets `lastRefillMs` to now (`inference/rate-limit.ts:70`), so the bucket refills from there. The model does the same; no property asks for the penalty, since the code does not serve it. What `ImplementsBudget` promises, the configured rate, holds all the same. A 429 without a header backs off for less than the penalty it causes.
* "A process crash mid-ingest leaves the packet retryable rather than creating a phantom dedup hit on partial events" (`quality-ledger/writer.ts:644`) fails beside a backfill. Two ingests of a directory without an index: one finds none, the other begins and appends its first row, the first one reads that row and marks the packet complete (`writer.ts:660`, `704`, `736`, no lock). When the second dies, its packet is partial and its retry is refused. `CountedOnce` excepts the packets in `mistaken` and no other; that no row counts twice it says of all.
* A process that dies leaves the worktrees of its run; nothing looks for them, and the model forgets them with the run (`Crash`).
* What a verification command leaves untracked survives `git reset --hard HEAD~1` and is committed by the next `git add -A`, behind the scope check (`swarm/builder-swarm.ts:1349`). A response that only creates files ends as `no_diff_extracted`.

Adapters:

* `ledger/events.ts:6` has an end for every invocation; a network expectation that is rejected while the action still runs is unhandled and takes the process down without one.
* `select-option` without an expected value compares the control with its own mark; `enter-text` that fails between tagging and focusing rolls back to the empty string; a refused `assign` is ignored; the rollback of a refused `navigate` goes back one page too far; a custom select with nothing selected before is not restored; a save cannot be undone.
* Rollbacks of `set-filter`, `move-widget`, `enter-edit-mode` swallow the errors of `Page.navigate` and always report `rolledBack`. Any pill with the expected label passes, and on classic dashboards a label contained in another does, in either direction. `navigate` may throw while it captures the state, and the result tells nothing of it.

Night jobs, quality ledger:

* The header of `refinery/auto-promote.ts` calls a second recording on one date a no-op; two recorders at once count the day twice. "Consecutive days" are consecutive recorded days.
* `eval/runner.ts` says its normalisation order matches the harvester's; it does not, so rules of `command.failed` always regress, the review escalates each night, and they are never promoted by themselves.
* A revoked rule is promoted again every night. The review names proposals it does not store, and promoted or revoked ones; its promotions ignore `--dry-run`; a regression on a quiet night raises no alert. Archived examples count as skipped, so a rule all of whose examples are archived passes. A proposal at which the item limit is reached exactly counts as failed.
* The portfolio's prior snapshot is not restricted to the target org and only looked for in the newest 200 sessions; a death between the snapshot and its alerts loses them, overlapping ticks tell twice.
* A cron expression without a match within seven days is dropped for good; minutes that pass during a tick are missed; interval ticks overlap. The kill switch is read at the start alone, and a skipped tick leaves no event.
* A forced ingest into a directory without an index skips the backfill but creates the index, so that older packets are no longer refused. Event ids number the rows: a forced ingest of changed artifacts mixes old rows and new. Packets ingested half way count in scores. `arbiterAgreed` is computed for any decision that names a builder, and a class shared by builders and reviewers would mix their scores.

## 6. Proofs

`tlapm X.tla` for each module `*Proofs`. The
assumptions are the named ASSUMEs of the modules:
ids are naturals, `None` is no id, approval classes are 0..3, bounds are
naturals (`Policy`, `CommandStore`); a finite set of natural node ids, one to
so many attempts, a pool of at least one (`NodesAssumption`,
`PolicyAssumption`), at least one node (`SomeNode`); naturals for the bounds (`GhostAssumption`); a non-empty
list of candidates per class and positive capacities, limits and intervals
(`BrokerAssumption`); a consumer among the writers, the policy session among
the sessions, a window of at least one (`LedgerAssumption`); requests of the
form `submit` takes, an optional field having at most one value
(`RequestsAssumption`); finitely many causes, reports and pods, and neither a
report nor a pod of the name "snapshot" (`RefineryAssumption`,
`WatcherAssumption`); naturals for the bounds of a build, a tracked path being
a path (`SwarmAssumption`, `ArbiterAssumption`, `RunAssumption`,
`PathsAssumption`); labels that are none of the two marks for "nothing" and "an
earlier page", and the empty one among them (`LoopAssumption`); finitely many
projects, services and logs, timeouts in whole seconds (`ManifestAssumption`);
launchd is no operator, hours are naturals, the bounds on what happens in a
night naturals (`LaunchdAssumption`, `HoursAssumption`, `BudgetsAssumption`);
packets whose candidates, reviews and choice have the form of the artifacts, no
class both built and reviewed, finitely many legacy packets, at least one
sample (`PacketAssumption`, `QualityAssumption`). Processes, commands, tokens, classes, shifts, calls,
writers, sessions, models, builders, reviewers and requests are
arbitrary sets, finite or not, unless an assumption says so. Three theorems have a
hypothesis: `PreflightAlwaysKeepsWork` assumes `OneNight`, no more than one
night if commands are submitted beside it (of two at once both may requeue a
command, see section 5); `NoEventIsLost` assumes `Ahead <= Age`, an archive run that does not
reach into the future, and `CronStaysArmed` assumes `MatchesOften`, an expression
with a match within `Horizon` (seven days) of every hour; the lemma
`DailyMatchesOften` shows this of the expression the repository installs, which
matches at one hour of every day.

| Theorem | States | Argument |
|---|---|---|
| `TypeCorrect` | `Spec => []TypeOK` | `TypeOK` alone is not inductive: a call under way must have a command to write to. The invariant adds that every worker and operator that is not idle names one. |
| `RunningAlwaysLeased` | `[]RunningIsLeased` | inductive with types: every write of `running` sets a lease, every clearing of a lease leaves `running` |
| `WorkAlwaysAuthorized` | `[]OnlyAuthorizedWork` | the invariant `Consent` adds: a consumption presupposes a grant, a call that carries a token carries one of its own command, and rows past the gate remember their consent |
| `StoreImplementsGate` | `Spec => ImplementsGate` | step simulation: `Executed`, `WorkerDies` map to `Stop`, `ReadClaim` to `Start` (uses `Consent`), submissions and consumptions to `Permit` |
| `EndedAlwaysEnded` | `EndedStaysEnded` | no call under way can write an open status over class 0/1 work: `resume` starts only from blocked_approval, which class 0/1 never has |
| `LeasesAlwaysWorked` | `[]LeasesAreWorked` | `LeaseLife` follows a lease from the claim to the release before the ledger step; `Counted` holds the executing workers and those that will execute once they read their claim. With `ActivityLife` (the activity of class 0/1 only goes forward) each claim adds at most one to it and one attempt; for infinitely many workers too |
| `RecordsAlwaysAgree` | `[]RecordsAgree` | a worker that never stalled holds a live lease until its `finishCommand`, so nobody else can claim its command or finish its activity; `Carries` is what it takes from the one row to the other. An open activity of a canceled command has its canceller still before `markActivities` |
| `GatewayIsAStore` | `GatewaySpec => Spec` | each step of the gateway is a step of the store or leaves its variables alone, with the class of the request's route as the input of `Submit`. Whatever is proved of `Spec` holds of `GatewaySpec` |
| `RetryAlwaysKeepsTerms` | `[]RetryKeepsTerms` | `RowsOfRequests`: a row is what `submit` stores of a request, and a replacement's is what it stores of its source's row; rows never change (`RowsStay`). The rest is about `Resubmitted` and `Stored` alone: the terms a row was given, resubmitted, come out no larger (`TermsKept`) |
| `CompletedAlwaysVerified` | `[]CompletedWasVerified` | `RunIsHonest` follows a worker's run from `NotRun` at the claim to the verified success it reports; only the end of a run completes a command |
| `EffectsAlwaysIntended` | `[]EffectsAreIntended` | `EffectsCovered`: dispatches made, plus those that the workers counted in `Counted` may still make, are within attempts times the terms' dispatches. A dispatch uses up one that remains, a claim adds no more than its attempt pays for. The guard rules come first, so a destructive intent has a route that only explains itself |
| `BriefsAlwaysTrue` | `[]BriefsAreTrue` | advice: the status a report reads is one the call's first guard takes; readiness: rows are finitely many (`RowsAreOrdered`), so one that is not in the brief has at least `limit` later rows (`OutsideBrief`), and a failure of the window that is not shown at least `Shown` later ones (`FailureShows`) |
| `RetryAlwaysResolves` | `RetryResolves` | only `FinishRequest` completes a command, and it makes its row the latest (`CompletionStep`), which every brief reads (`UpdatedIsRead`) and no window leaves out; the replacement's route is the source's (`TermsKept`) |
| `ReplacedAlwaysEnded` | `[]ReplacedSourceIsEnded` | a call that has reached `submit` has an ended source, and ended stays ended |
| `SortTypeCorrect` | `[]SortTypeOK` | no indegree falls below zero because it *counts* the dependencies not yet ordered (`Counting`) |
| `DependenciesAlwaysFirst` | `[]DependenciesFirst` | a queued node has indegree zero, by `Counting` nothing it awaits |
| `CycleAlwaysReported` | `[]CycleIsReported` | nodes that wait for one another never get ordered (`KnotsAreOut`); with an empty queue the nodes left over are such a knot |
| `GraphTypeCorrect`, `RecordsStayFinal` | `[]GraphTypeOK`, `RecordsAreFinal` | only nodes without a record are in a batch |
| `WorkAlwaysFollowsDependencies` | `[]WorkFollowsDependencies` | `NodeInv`: a dispatched node has completed dependencies (`Attempted`), and completed nodes were dispatched; so the completed nodes are closed under dependencies and hold everything upstream |
| `ApprovalAlwaysPrecedesWork` | `[]ApprovalPrecedesWork` | `Outcome`: an approval node that succeeded was approved; token files stay |
| `FailureAlwaysContained` | `[]FailureIsContained` | `Outcome` ties a record without a dispatch to its dependencies, whose records are final |
| `CompletedAlwaysHonest` | `[]CompletedIsHonest` | nodes skipped with no dispatched skip at or above them would form a knot, and the graph is acyclic |
| `WaveNeverEmpty` | `[]WaveIsNeverEmpty` | were nothing ready, the nodes without a record would form a knot |
| `EveryOrderIsRight`, `WorkAlwaysOrdered`, `EveryRunIsRight` | the same of `RunSpec`, a graph sorted first or refused | a run that got past the sort has an acyclic graph, because the sort left no node out (`CycleIsReported`, `KnotsAreOut`); from there its steps are `WorkGraph`'s |
| `GhostTypeCorrect` | `[]GhostTypeOK` | a shift past its load names a file and an enqueued graph |
| `AlwaysStartedOnce`, `AlwaysInOnePlace`, `DirectoryAlwaysTells` | `[]StartedOnce`, `[]InOnePlace`, `[]DirectoryTellsHistory` | every file holds a graph under its name, so a graph with a name of its own can only be found there (`FilesHoldTheirName`); `PlaceInv` has it in one directory with the starts that directory implies, and `ShiftInv` says what each shift may still believe of its file |
| `OnlySafeEverStart` | `[]OnlySafeGraphsStart` | a shift that claims carries a graph it assessed as safe, whatever the file holds by then |
| `FilesAlwaysTellTheTruth` | `[]FilesTellTheTruth` | the two before it together |
| `BrokerTypeCorrect` | `[]BrokerTypeOK` | with the range of each bucket and of each running call |
| `SlotsAlwaysExact` | `[]SlotsAreExact` | the calls inside a class are finitely many and counted: each call step enters, stays or leaves (also for infinitely many calls) |
| `BrokerImplementsBudget` | `BrokerSpec => ImplementsBudget` | step simulation: a granted `Acquire` spends a token of the credit, a denied one leaves it as it is, an answer may only lower it, a tick raises it by at most one unit |
| `LedgerTyped` | `[]LedgerTypeOK` | everything in the table, in a sidecar or picked by an archive run was appended |
| `NoEventIsLost` | `[]EventsAreKept` | `ArchiveInv`: what the delete will take is among what was picked, because later events are stamped no earlier than `before`, and what was picked is in a sidecar when the delete comes; a session that was written to meanwhile is not deleted |
| `SpentOnlyPastWindow` | `[]SpentAgainOnlyPastWindow` | an archive run removes the oldest rows and leaves no gap (`Suffix`), and a consumption is younger than its grant (`ConsumedAfterGrant`): as long as the grant can be found the consumption is in the table, and the lookup misses it only if `Window` younger ones are there. While the consumption is under way `PendingPastWindow` remembers that |
| `RepositoryAlwaysClean` | `[]RepositoryIsClean` | per builder, `Underway`, `Branch` and `Returned` say what each place of the code implies of worktree, branch and state file; `CleanInv` has a worktree in the list of the cleanup, selected, or without a record |
| `ArtifactsAlwaysReal` | `[]ArtifactsAreReal` | `ReviewInv` and `VerdictInv` carry the patch from the collection to the decision, the cleanup spares the selected one (`Spared`), and `FilesInv` orders the files of a run by its stages, whatever an earlier run left |
| `RecordsAlwaysTrue` | `[]RefineryRecordsAreTrue` | `Earned(rule, n)`, of the first n rows of the passes, stays true as rows are appended (`EarnedStays`); a process between its read and its append holds one such n (`ProcOK`) |
| `NewStaleAlwaysTold` | `[]NewStaleIsTold` | `RowOK`: what the tick of a snapshot has told and has yet to tell is the difference to the snapshot before; until it stores its own, `Compared` says what it will tell, if no other snapshot comes between (`WouldFollow`) |
| `CronStaysArmed` | `[]CronIsArmed` | every step that ends a tick of a running scheduler arms the timer, because `NextCronFireTime` finds a match (`NextIsATime`) |
| `ResultAlwaysHonest`, `FailureAlwaysUndone` | `[]ResultIsHonest`, `[]FailureIsUndone` | `AdapterInv` follows a command through the loop: `CountOK`, how often it was undone and why; `SeenOK`, what the page must have shown for a check to pass; `ToldOK`, that a page nothing is reported of is as it was; `RestoreOK`, what a rollback still finds to restore |
| `OrderAlwaysLeast` | `[]LeastOrder` | `LeastSoFar`: any other order of the graph agrees with what was taken so far or is greater at the first place it does not; the next node taken is the least one the other order could have |
| `RemediationAlwaysRequeues` | `[]RemediationIsRequeue` | `SourceOK`: a canceled command has a replacement, or the operator whose requeue canceled it is before its submission, or died there |
| `PreflightAlwaysKeepsWork` | `[]PreflightKeepsWork` | with one night, `Sole`: what has a replacement has ended, is neither listed nor being requeued, and has no other |
| `NightAlwaysAccounted` | `[]NightIsAccounted` | `AccountInv`: a shift's totals are, directory by directory, the files of its night's queue that it moved, and an event repeats the totals of a night that is over, whose files nobody moves any more |
| `PlanAlwaysKept` | `[]PlanIsKept` | the plan is a pure function (`PlansAreKept`): candidates are ranked without ties, the minutes taken before each are a sum that only grows, and one that is left out did not fit beside it |
| `BriefAlwaysHonest` | `[]BriefIsHonest` | `OutcomeInv`: every event of an outcome shows a file, each file once, and of the files that no event shows, those that no living process is about to tell are at most the processes that died. `LaneInv`: a file is the one its night compiled and queued, every queued graph has its file, and every night that is over told one event with its lanes. `DebtInv`: what an event left to the operator is a number. The rest is counting (see below) |
| `PacketsAlwaysCountOnce` | `[]CountedOnce` | `StoreInv`: what a writer has not appended it still holds, so the complete row it ends with stands for a packet that is all there; a row of a backfill stands for a packet that was complete already, an earlier writer's, or in `mistaken` from then on (`BackfillStores`); files hold only events of packets, and the reader keeps the first of each id (`ReadIs`) |
| `AdviceAlwaysSettles` | `[]AdviceSettles` | `AppliedInv`: the primary of a class the advice was applied to ranks first on the evidence. The evidence is strictly ordered and names a model once (`EvidenceIs`), so the first is not the last |

What makes the knots work: acyclicity is stated as "no nonempty set of nodes in
which each has a dependency", which needs no path and no induction
over data, and so is within the prover's reach. `Upstream` is for the same
reason the least closed set and not a recursive closure.

Three more things are written so that they can be reasoned about. What a brief
adds up is the size of a set of pairs of an event and a number, because the
prover sees nothing of a sum over a set; `SumsUp` shows that amounts which are
the sizes of disjoint sets add up to their union, so the lanes' sums are
compared with the files themselves, and `FilesOfOutcomes` compares events with
files by one injection in each direction. A list is cut by rank: `NewestMerged`
shows that cutting two lists first and the merged one again loses nothing that
is newer than what is shown. A sorted sequence is defined by rank, the nth
element being the one with n - 1 before it, because the prover sees nothing of
SortSeq and SetToSortSeq; `RanksFill` shows that a strict total order on a
finite set gives each rank once. And where an argument is by induction over
numbers it takes the least counterexample (`LeastNumber`), which the library's
theorem on the order of Nat gives without an operator as parameter.

Every safety invariant and every action property that a passing run checks is stated by
a theorem. Model-checked only is all liveness: `QueuedWorkEnds`, `GraphEnds`,
`QueueDrains`, `CallsReturn`, `RunsEnd`, `InvocationEnds`. Out of the
prover's reach: liveness under fairness and anything with ENABLED; what a
recursive definition computes for every input. No module declares a RECURSIVE
operator.

## 7. Not modelled, and what is left

Not modelled for good: the helper's repairs (token check around shell commands),
memory and context packing (text in files), telemetry (network I/O), Salesforce
reports and skills (parsing of data), argument
parsing, rendering, the framing of JSON-RPC and HTTP. Adapter commands that
only read a page, the ledger's other queries, and reports are read-only.

Four parts of the models say less than they seem to. Most of how `OvernightBrief`
infers a lane reaches no property, because the graphs of a night always name
theirs. The scheduler unrefs its timers (`scheduler/index.ts:277`, `324`), so one
that runs in the foreground with nothing else to do may exit at once; the model
keeps it running, and `CronIsArmed` speaks of a scheduler that runs. The
text `select-option` types into the search field of a combobox
(`adapters/browser/commands/select-option.ts:134`) is not followed. And the death of a
process counts as the end of an adapter invocation.

What is left out of a modelled part is named in its subsection of section 2
and in `PROJECT.json`. Two of those change state: the capacity probe of the
inference broker (which models are enabled is a constant), and installing and
removing launchd plists.

Composition stops at four places. `CommandGateway` has one action node per command,
which is what the compiler produces, and does not run `GraphRun` inside.
`OvernightRun` takes the outcome of a graph as given, `Orchestrator` the answer
of the broker, and `QualityLedger` the artifacts of an orchestration.

What would be next is at these seams: `OvernightRun` with the shifts of
`GhostShift` that race over launchd's queue, and a gateway whose commands run
`GraphRun`; the theorems of both sides are there to build on.
