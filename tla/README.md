# PrimeProxy: a TLA+ verification project

TLA+ models of the concurrent and failure-prone parts of PrimeProxy, checked
with TLC on small instances and, where a property matters for every size,
proved with TLAPS. Paths below are relative to `src/crates/` unless they say
otherwise; definition by definition, the lines a model stands for are in
`PROJECT.json` under `map`.

## 1. The system

PrimeProxy lets its user reach sites that are blocked by deep packet
inspection. It is a Rust workspace of 28 crates behind an Electron interface.
The interface talks HTTP to a local server; the server runs a packet engine
(`nfqws2` on unix, `winws2` on Windows), a Telegram proxy, DNS helpers and
site diagnostics.

| Component | State it keeps | Operations | What makes it hard | What makes it correct | Here |
| --- | --- | --- | --- | --- | --- |
| Bypass control (`primecore-server/src/ws_api.rs`) | record of the running engine behind a mutex | `start`, `stop`, `status` | blocking threads, privileged steps that fail, time out or are done late | one engine; none that nobody can stop; rules exactly as long as the engine | modelled |
| Privileged helper (`primecore-privilege`) | table of spawned engines | `nft`, `nft_delete`, `daemon`, `kill`, `status`, `file_write`, `dns_set` | its death, its replacement, requests nobody waits for | as above, seen from below | partly |
| Privilege grant (`ws_api.rs`, `primecore-privilege/src/lib.rs`) | state file, helper process | grant, check | polling with a deadline, a helper that comes up later | one helper, state file true | no |
| Rules of the engine (`primecore-ws/src/runner_nfqws2.rs`) | an nftables table | chains, jumps, queue rules | hooks, marks and modes that meet one packet several times | each packet is queued once, echoes of fakes are dropped | modelled |
| Upstream controller (`primecore-telegram/src/proxy/upstream_controller.rs`) | active server, probe, health per server, generation | `select_attempt`, four kinds of report, `replace_config` | reports of parallel connections arrive late and in any order | active server has rested, one probe, primary is retried | modelled |
| Routes to Telegram (`primecore-telegram/src/proxy/{health,routes}.rs`) | failures and pauses per route, a file of them | six reports, `build_plan`, `save`, `load` | bursts, late reports, restarts | some way is left, nothing is forgotten by a crash | modelled |
| Telegram tunnel (`primecore-server/src/tg_api.rs`, `tg_mtproto`) | config file, running tunnel, buffers of a connection | `proxy`, `start`, `stop`; `split`, `flush` | file cut short while it is written; reads of any length | one link for good; frames are messages | partly |
| Probe gate (`primecore-diagnostics/src/probe_gate.rs`) | tokens of user runs, one background permit, stored times | `begin_user_run`, `try_background`, `release` | two locks and two callbacks in one function | one permit, always given back; interval kept by each thread | modelled |
| Diagnostics run (`primecore-diagnostics/src/run_context.rs`) | worker pool, lanes, stages | `submit`, `later`, `start_stages`, `wait`, `close` | decisions under one lock, pushes under another; Stop; shutdown | limits, order, no forgotten task, the run returns | partly |
| Check of sites (`primecore-server/src/check_api.rs`) | one job slot | `sites`, `status`, the job's task | panics of probes, polls at any time | "done" comes, and is final | modelled |
| Name resolution (`primecore-net-resolve`) | cache, queries under way | `resolve_addrinfo_with`, `clear_cache` | queries outlive callers; two locks | one query per key, no lost wake-up, bounded cache | modelled |
| Encrypted DNS (`primecore-dns/src/{local_proxy,runtime}.rs`) | Windows service, its config file, adapters | `start`, `stop_if_unused`, `repair`, `apply_dns` | seven steps that fail or are cut off by a kill | adapters never point at nothing; a failed switch is rolled back | modelled |
| Domain lookup (`primecore-dns/src/domain_lookup_run.rs`) | a report | one question after another | Stop, deadline, extension | a report that is not whole says so | partly |
| Release search (`primecore-release`) | sources waited for, their answers | `lookup_latest_release`, the race of the mirrors | silence, late answers, panics, deadlines | no false "no updates"; it ends | partly |
| Hosts file (`primecore-hosts`, `primecore-server/src/hosts_file_api.rs`) | the hosts file | `apply` | blocks of others, damaged markers | nothing of others is lost, nothing of ours doubled | partly |
| Store of presets (`primecore-presets/src/file_store.rs`, `primecore-files/src/atomic.rs`) | two folders, a cache of lists | list, create, update, rename, delete | the lock covers the cache, not the folder; held files | a list is the folder | partly |
| Everything else (settings, lists, logs, fakes, HTTP/2 framing, verdicts, ...) | none shared | parsing, formatting, classification | – | data only | no |

How they interact: the interface calls the server over HTTP; the server calls
the helper over a unix socket, one JSON line per connection, with a read
time-out of 30 s; the helper spawns and kills engines and feeds scripts to
`nft`. The diagnostics engine is a library the server calls: it submits tasks
to its own pool, resolves names through `primecore-net-resolve`, and is meant
to be admitted by the probe gate. The Telegram proxy asks the upstream
controller for a server per connection, or the route health for a plan, and
reports what became of it. In this commit the probe gate, the upstream
controller, the route health and the store of presets have no callers outside
their crates; their models let callers do whatever their interfaces allow.

## 2. Modules

| Module | Models | Kind |
| --- | --- | --- |
| `Privd` | the helper's operations and its life and death | component |
| `Hands` | the trait `PrivilegedExecutor` and both executors, on top of `Privd` | component |
| `WsControl` | the handlers `start`, `stop`, `status`, on top of `Hands` | composition |
| `Bypass` | what the tab promises: rules before the engine, engine before the rules | abstract specification |
| `Upstream` | the upstream controller and its connections | component |
| `Failover` | what the controller promises about its servers, without connections | abstract specification |
| `TgRoutes` | health of the routes, its file, the plan of a connection | component |
| `TgProxy`, `TgSplitter` | the tunnel's handlers over the config file; frames of a stream | components |
| `ProbeGate` | user runs and background checks | component |
| `DiagRun` | pool, lanes, stages and the end of a run | component |
| `CheckJob` | the one job slot of the check of sites | component |
| `NetResolve` | name resolution with deadlines | component |
| `LocalProxy` | encrypted DNS through a service, roll back and repair | component |
| `DomainLookup` | questions, Stop and deadline of a lookup | component |
| `ReleaseLookup` | Forgejo, the mirrors and their race | component |
| `Hosts` | the block in the hosts file | component |
| `NftRules` | the rules as packets meet them | component |
| `Presets` | threads on the store of presets | component |
| `MCWsControl`, `MCUpstream`, `MCProbeGate`, `MCNetResolve`, `MCDiagRun`, `MCHosts`, `MCPresets` | values of the constants for TLC | instances |
| `MCBackground`, `MCParts` | the parts that share no state, joined for one run each: with and without fairness | instances |
| `WsControlProofs`, `UpstreamProofs`, `DiagnosticsProofs`, `DnsProofs`, `TelegramProofs`, `SystemProofs`, `StoresProofs` | theorems and their proofs (section 4) | proofs |
| `SequenceLemmas` | lemmas about least and greatest numbers and about folds over sequences, which the proofs cite | proofs |

### Bypass control: Privd, Hands, WsControl, Bypass

`Privd` has one operator per operation of `ops.rs`. The helper handles one
connection at a time, in order: `late` is the queue of requests whose client
has given up, and every fresh request is answered only when it is empty.
`Hands` says what one call does: it is answered, refused (nobody listens),
abandoned (the time-out, with the request left to be executed later) or cut
(the helper dies between the operation and the reply). On Windows the same
calls act directly. `WsControl` has one action per call of the executor or
critical step between two of them. `pc` is the line a request thread is at,
`lock` the controller's mutex, `record` its content, `seen` the local variable
`pid`. `StartAlive` keeps the code's `unwrap_or(true)`, `StatusPoll` its
`unwrap_or(false)`. `CoreRestarts` is the server's process ending and starting:
`record` is lost, engines and rules are not. A sweep of strays (`StopStrays`)
that answers "ok" may have left engines alive, since its script ignores what
`Stop-Process` cannot end and an unreadable count is taken for zero; `spared`
counts such sweeps.

Abstractions: a pid is never used twice; presets, queue numbers and the log
are left out; a poisoned mutex is not modelled; a helper is replaced only when it has no unread request.
`nft` either applies a script or does nothing.

### Upstream

One action per method, split where the method branches. The generation number
is only compared for equality, so an attempt of another generation is simply
`stale`. Times are relative: `rest` is what is left of `unavailable_until`;
failures carry their age. Each connection reports once, at any later time.
`page` is `last_snapshot` without texts and counters.

`Failover` knows neither connections nor counters of failures, only the list,
the server in use, the one that is probed and those that rest. `Upstream`
implements it (`FailsOverAsPromised`; the map takes `rest[e] > 0` for "rests"):
late reports, reports from before a change of the list and failures below their limits are stutters, all else is one of its seven steps.

### TgRoutes

One action per `note_*` method of `RouteHealth`; `BuildPlan` is `build_plan`
over the present health. Time has two grains: `SecondsPass` is longer than a
burst of failures, `MinutesPass` is the unit of every pause (120 s); so `left`
is what is left of `suppressed_until`, in that unit. `healthFile` holds what
the last `save` wrote, with the pauses running on in wall time; `NewProcess`
loads it, the wall clock moved by any of `ClockShifts`. Left out: writes that
fail, the worker a process begins its tunnels with (any rotation of
`TunnelHosts`), and `answered`, which only decides on a race of two
connections. `MCParts` explores the pauses and the fronts one at a time: no
operation changes both, and the plan reads both but relates them nowhere.

### TgProxy, TgSplitter

A handler call loads the config, may make up a new one, truncates the file and
fills it: one action each, because any of them may fall between two steps of
another call. A secret stands for the link made of it. `TgRestart` ends the
server anywhere. `crossed` remembers that a call began while another was under
way; the next call that is alone and finds no tunnel running clears it.
`TgSplitter` keeps places in the stream, not bytes; a message is the lengths of
its head (one byte at least) and its body, a read brings any number of bytes.

### ProbeGate

`try_background` is cut at each lock and callback: user-run check, clock,
stored time, permit, second user-run check, store. `Restart` ends the process
anywhere and keeps only the stored times. The clock is never set back. Two
threads may ask for one kind: nothing in the function forbids it.

### DiagRun

A worker is the task it runs. A lane's `pump` takes a task under the lane's
lock and pushes it under the pool's lock: two actions, `PumpTake` and
`PumpPush`. `result` is what the task's channel holds: an answer, `Cancelled`,
or silence when the sender was dropped. `BeginClose`, `CloseLane` and
`ClosePool` are the end of `run_check`. `StepOf` is all one thread may do next,
for fairness. Tasks in `Insisted` are awaited with `await_value` of
`net_transport.rs`, which ignores Stop: those a probe awaits are plain ones
(`InsistsOnPlain`), while `collect_groups` waits for tasks of a lane on the thread
that closes the run, so `Main` insists on one too. `Layered`, `EnoughWorkers` and
`NoDeadlock` are about threads that wait for each other: a task is ranked by what it awaits, and the pool has a
thread for each task that awaits others and one more. Left out: the deadline
(probes end anyway), progress, the accounting of reference resolvers.

### CheckJob

`BeginJob` is a POST and the task it spawns, `PushResult` and `Panic` the two
ends of a probe, `FinishJob` the end of the task, `Show` a GET. What GET showed
last is kept in `seen`.

### NetResolve

`Cached` and `Join`/`BeginQuery` are the two critical sections of a call.
`store` holds the cache's lock while it takes the other one, so nobody is seen
between its halves: one action. Deadlines are any length, so `TimeOut` is
always possible while there is no answer. A call sleeps on the condition
variable in `asleep`; only `HandOver` (notify_all) or its deadline wake it.

### LocalProxy

A step ends where a kill of the program leaves a trace: a call to the service
manager or a write of a file. `config` is the mode the file's first line tells,
`loaded` the one the running engine read. A fault is a call that fails, or
somebody who meddles with service or files; `Crash`, `Update` and `Reboot` are
no faults: the program must cope. So are `CrashInWrite`, a kill within a write of
the config, which leaves an empty file (`torn` remembers it), and `CrashInCopy`, a
kill within the copy of the engine; a copy that fails may have overwritten the
old engine too (`launchable`). Windows refuses to start a service that runs.
`before` remembers the state a start was called in.

### DomainLookup

A step per question, in the code's order; what a question brings is left out,
and a target (`Facts`) says which questions it will meet. `ReadStop` and
`ReadDeadline` are the two marks the report gets at the end: the user may press
Stop, or the deadline come, between any two of these.

### ReleaseLookup

The loop of `lookup_latest_release` and that of the mirrors' race run in
parallel with the answers; a loop that can go on does so within the tick.
A panicked source never answers. `good` remembers who sent a release in time.

### Hosts

`primecore-hosts`' functions over lines of the kinds the code tells apart, and
`ApplyRows`, the handler: it reads, rebuilds, writes, and takes an unreadable
file for an empty one. `OthersAppend` lets anybody add any line between two
applies, markers without an end included. A line is a kind, an address and
names; `lastEnds` says whether the last one has its line end, which decides
whether the separator in front of the block is a blank line. What is of others
(`Foreign`) is defined by the places of the markers, not by the function that
removes the block; `HostsAssumption` says that the mappings others write and the rows asked
for are made of `HostAddresses` and `HostNames`.

### NftRules

The rules of `nft_rules_text` for a choice of filters, as a guard per rule. A
packet meets the hooks of its direction in the order of their priorities; a
queue lets it go (with the engine, or with `bypass` if nobody reads); the engine
sends packets of its own in its place, one of which may bring an ICMP error.

### Presets

A call is cut where another thread or another program can come between: key,
cache, names, headers, insertion; temporary file, replacement, invalidation.
`stamp` is the time of the user's folder; a change in the same tick of the file
system's clock leaves it as it was (`sameStamp`; `ListIsFresh` is not claimed
from then on, and no further call begins). `held` are files an antivirus
program or an editor keeps; a scan that meets one is cached for the rest of a
period of 2 s (`bucket`). A scan may begin in one period and end in the next,
so a list that `ListIsFresh` accepts may miss the titles of files that were
held in the period of its scan or in the one before; `begunIn` and `lastHeld`
are the history that says so. A load sees at most one end of a period: it takes
much less than 2 s. In the instance one thread lists twice and the other makes
any one change, a file is held once, and three periods pass.

## 3. Runs

| Run | Question | Bounds | States |
| --- | --- | --- | --- |
| `WsUnix` | one engine, no orphan, stop ends its engine, with faults around | 2 requests of any kind, 2 pids, 1 time-out, 1 crash or replacement, 1 restart | 2.1 M |
| `WsWindows` | one engine on Windows, and one more per sweep that spares | 2 requests, 2 pids, 1 restart, 1 sparing sweep | 248 k |
| `WsSerial` | refinement of `Bypass`; every request is answered | 1 user, 1 poller, 3 pids, no faults | 23 k |
| `WsRulesRace` | violation: a running engine without rules | 2 requests, no faults | – |
| `WsLateSpawn` | violation: a failed start leaves an engine | 1 request, 1 time-out | – |
| `Upstream` | one probe, primary retried, refinement of `Failover` | 2 servers in 4 configurations, 3 connections, limits 2, delays 1 and 2 | 98 k |
| `Background` | 16 properties of the five parts with work in the background, liveness among them | see below | 204 k |
| `DiagSilence` | violation: a task taken out unrun is not told | as the part `run` | – |
| `Parts` | 14 properties of the nine parts that need no fairness | see below | 314 k |
| `ProxyShown` | violation: the page shows another mode than the one that runs | 2 modes, 1 fault | – |
| `TgLink` | violation: two pages get two links | 2 calls, no faults | – |
| `HostsBlocks` | violation: a line of another block loses its protection | as the part `hosts` | – |

`Background` and `Parts` are sums, not products: a behaviour chooses one part
and follows its specification, the others rest (in `Background`, where nothing
is owed to them). Parts that share no state have no joint behaviour worth
exploring, and each is explored in full.

| Run | Part | Properties | Bounds | States |
| --- | --- | --- | --- | --- |
| `Background` | `gate` | `OnePermit`, `PermitComesBack` | 2 user runs, 2 threads for the same 2 kinds, intervals 2 and 3, clock from 3 to 5 | 90 k |
| | `net` | `OneQueryPerKey`, `WaitsAreForAnswers`, `SleepersWillBeWoken`, `CallsComeBack` | 2 calls, 2 keys, 2 query threads, a cache for 1 | 22 k |
| | `run` | `LaneLimitKept`, `NobodyForgotten`, `StagesInOrder`, `NoDeadlock`, `MainReturns`, `JobsEnd` | 8 tasks, 2 lanes of 1, 2 stages, 4 workers | 72 k |
| | `job` | `ShownDoneIsFinal`, `JobEnds` | 3 sites, 2 jobs | 16 k |
| | `release` | `FailsOnlyWhenAllFailed`, `SearchEnds` | 2 mirrors, 2 versions, deadlines up to 4 ticks | 4 k |
| `Parts` | `local` | `Settled`, `AdaptersAfterAnswer`, `FailedStartRestores` | 2 modes, 2 faults, kills and updates at any step and in a write or copy | 43 k |
| | `tunnel` | `FileFollowsTunnel` | 2 calls at once, 2 ports, 1 worker, 1 secret, 1 fault, restarts at any step | 50 k |
| | `splitter` | `FramesAreMessages` | 4 streams of up to 3 messages, reads of any length | 92 |
| | `pauses`, `fronts` | `NeverWithoutRoute`, `CrashLosesNothing` | thresholds 2, 1 and 1, pauses of 1 and 2 units, 2 fronts, 2 relay addresses, 7 requests | 4 k |
| | `hosts` | `BlockHoldsRows`, `ApplyIsIdempotent`, `OthersKept` | 3 names, 3 addresses, 2 mappings and 3 lines of others, 3 requests, with and without a line end | 13 k |
| | `rules` | `QueuedOnce`, `EchoesAreDropped` | 16 filters, packets of every kind | 13 k |
| | `lookup` | `UnmarkedIsWhole` | 23 questions, targets of every kind | 18 k |
| | `presets` | `ListIsFresh` | 3 names, 2 lists against 1 change, 1 file held once, 3 periods | 173 k |

Type invariants are in no run: each is a conjunct of its module's inductive
invariant and a theorem (section 4). So are `ActiveIsRested`, which
`FailsOverAsPromised` implies, and `PageIsCurrent`.

Why these bounds are enough for the interesting cases. Two requests already
interleave a start with a start, a start with a stop and a status with both;
two pids make two engines possible, and one fault of each kind at every step
gives every single failure and most pairs. Two servers are a primary and a
fallback; three connections are a probe, a report about the previous server
and one about the present; limits of two distinguish one failure from a burst.
Two lanes of one, with a site that awaits a probe in the other lane, is the
smallest case in which a lane can starve; two stages with two tasks in the
first can mix up order and count; four workers are one more than the tasks that
await others, and with three TLC finds a run that locks up (`MCReckoning` checks
that the instance meets the assumptions of `NoDeadlock`). A cache for one of two keys evicts all the
time. Two faults on the way of a switch are a fault and one in its roll back.
Three lines of others hold a block with both markers and a mapping, or one
without an end, before or behind ours; of two mappings one can lose a name or
all. One sparing sweep leaves a second engine, and the starts after it show that
they add none. Pauses of one and two units are a first
pause and one that is as long as pauses get. A list that is scanned while a
change goes on, and the list after it, are what a stale cache needs.
`CHECK_DEADLOCK FALSE` stands where a run, a lookup, a search or an instance's
calls are over for good.

Fairness. Threads that can go on do (weak fairness per thread): they are system
threads. A thread waiting for the controller's mutex gets it if it is free again
and again (strong fairness, futex mutexes wake a waiter at every unlock). The
helper goes on reading. Connections end and clients keep connecting
(`Upstream`). Probes end because each has a time-out (the parts `run`, `job`).
The system's resolver answers some day (`net`); its strong fairness for
`Join`/`BeginQuery` only makes up for the bounded number of query threads. The
two loops of the release search run and time passes; no source owes an answer.
Nothing is assumed of users, faults, Stop, restarts or deadlines.

### What the violations say

* `WsRulesRace`: `stop_sync` drops the mutex and then deletes the table. A start
  in between loads its rules and spawns, and then loses its rules: the tab says
  "running", nothing is bypassed. The doc of `stop` speaks of removing the table
  when no daemon runs.
* `WsLateSpawn`: a `daemon` request that outlives the client's time-out is
  executed by the helper all the same. The start has answered with an error and
  removed the table; the engine runs and no record names it. The test
  `start_failure_leaves_nothing_running` covers only failures that did nothing.
* `DiagSilence`: a lane's job has an empty `fail`. When `close()` drains it,
  its handle gets silence, contrary to the comment on `QueuedJob::fail`. A
  `poll` of such a handle returns `None` at once, so a waiter spins until Stop.
* `ProxyShown`: a switch fails after the new engine was started. `roll_back`
  writes the old config and starts a service that still runs, which Windows
  refuses: the file, and so the page, tell the old mode; the engine has the new.
* `TgLink`: every GET saves, and saving truncates first. A second call that
  reads in between finds no config and makes up another secret: two links, of
  which the tunnel lets in one.
* `HostsBlocks`: the Telegram block has no end marker but a blank line. Our
  block, with its blank lines, is put before its first mapping: what was behind
  is no longer in a block, and the next apply may drop it.

Observations that no run counts against the code:

* `is_running` errors count as alive in `start` and as dead in `status`; and
  `status` polls a pid it copied before, which may have been replaced.
* `fail_active` may take back the primary once its pause is over without a probe.
* The coordinator of the stages never ends when `close()` drains one of its
  tasks from the queue.
* `try_background` looks at the interval before it takes the permit: two threads
  asking for one kind can both pass, one after the other. The model has this
  race, so `IntervalKept` is in no run; it has no callers in the repository.
  `OnlyARaceBreaksIt` proves that nothing else breaks the interval.
* A name may be asked for once more when its answer arrives between the look at
  the cache and the look at the queries under way; an answer asked for before
  `clear_cache` is stored after it; a query thread that cannot be spawned
  panics under a lock and poisons it.
* In `postnat` mode the queue rules still hang at `postrouting_hook` (99);
  `postnat_hook` (101) is created and stays empty, although the doc names it.
* On unix `file_mtime_ns` is the fraction of a second only, so what
  `runner_zapret2.rs` prunes from its cache is arbitrary.
* `run_domain_lookup` reads `should_stop` twice: with the deadline past and Stop
  pressed in between, a report that is not whole has neither mark.
* Calls of the tunnel that cross write back configs they had read: file and
  tunnel differ until the next start that is alone.
* On unix a start after a restart of the server spawns a second engine beside
  the one the old server had recorded: `stop_strays` does nothing there. A stop
  whose kill fails answers "ok" and forgets the engine. `stop_strays` on Windows
  answers "ok" with engines alive.
* A kill within a write of the config loses the mode of encrypted DNS, and the
  repair then leaves the adapters at 127.0.0.1 without an engine. A failed copy
  may leave no engine to roll back to. A new engine that does not answer goes on
  after its roll back.
* A repair that fails by one fault and finds no service loses the mode. A mirror
  whose version cannot be parsed ends its thread with a panic.
* `apply` of the hosts file reads and writes without a lock and takes a file it
  cannot read for an empty one. Behind a begin marker without an end it drops
  all, whoever wrote it. A last line without a line end makes the second apply
  add a blank line.
* Fronts: a second address is never tried while TCP on the first succeeds but
  nothing answers; fronts tried as the last resort prolong and double their own
  pause; the cap of 10 minutes after a restart is per restart.
* Presets: changes within one tick of the folder's time are not seen; two
  presets created at once may get one name; an update may bring back a preset
  deleted meanwhile; a rename replaces what got the name meanwhile.
* `KeyClusters` forgets when it last closed quietly once the home moves, so the
  limit of one quiet close a minute does not hold across a move.

## 4. Proofs

A theorem holds for every value of the constants under the named assumptions of
the modules (distinct markers, natural bounds, and those mentioned below). The
proofs have one shape: an inductive invariant, a lemma per action or group of
actions that it survives, PTL at the end. Below, for each module of proofs, its
theorems and what its invariants had to add.

`WsControlProofs`: `TypeCorrect`, `MutexDiscipline`, `AtMostOneEngine`,
`EnginesAccountedFor`, `StopEndsIt`, `TabKeepsPromise`, `RulesStayForOneUser`,
`FailedStartIsClean`.
`OneEngine` is not inductive: a second engine is kept away by the mutex, so
`EngineInv` ties every locked label to the owner of the mutex, says that
without faults no request is unread, and that an engine that runs is the
recorded one or the one its owner holds in `seen`; on Windows, that from the
sweep to the spawn no more run than sweeps spared. For `StopEndsIt`, `StopInv` adds that every
pid anybody names was handed out, so that no fresh engine is the one a stop has
killed, and that past its kill a stop's engine is gone. `TabKeepsPromise` is
the refinement of `Bypass`, step by step, for a single user `u` beside any
number of pollers, without faults and restarts: `OneUser(u)` are the conditions
the run `WsSerial` checks it under; `WsRulesRace` shows that two users break
it. `OneUserInv` says where the rules and the engine are at each line of `u`.
Two theorems draw the boundary of the findings: `RulesStayForOneUser` (on the
conditions of `OneUser`, a running engine keeps its rules) and
`FailedStartIsClean` (on unix, unless a request timed out or helper or server
went down, a failed start leaves nothing, however many requests there are).

`UpstreamProofs`: `TypeCorrect`, `NoPausedActive`, `SingleProbe`, `PageFollows`,
`PausesAreNotProlonged`, `KeepsThePromise`. The invariant says which attempts can still be
current: a probe that survives a change of configuration belongs to a server
that is active again and cannot be probed before it is given up, and giving it
up makes the survivor stale. `KeepsThePromise` is the refinement of `Failover`,
one step of `Upstream` at a time. It needs the invariants above and one more,
`OnlyPrimaryIsProbed`: while a server is in use, only the first of the list is
probed, so a probe that succeeds cannot replace the server in use by another.

`DiagnosticsProofs`:

* the gate: `GateTypeCorrect`, `PermitIsUnique`, and `OnlyARaceBreaksIt`: as long
  as no two threads are between the interval test and the store of one kind, the
  interval is kept. `DecisionStands` keeps "not too early" true from the test to
  the store, which is exactly what such a second thread destroys.
* a run: `DiagTypeCorrect`, `LanesKeepLimits`, `LanesForgetNobody`,
  `StagesKeepOrder`. `DiagInv` says where a task is: in one list, once, or in
  one hand (`QueueInv`, `WaitInv`, `HandInv`); the pool closes after the lanes
  and what has ended has a result (`EndInv`); each lane's counter is the
  cardinality of its tasks in the pool (`CountInv`); and the coordinator waits
  for at least as many tasks as are not done (`StageInv`). Assumed: finitely
  many tasks, disjoint stages, no job submits a staged task.
  `RunsDoNotLockUp` is that the threads of a run never all wait for each other.
  `GoingInv` says that before the pool closes nothing is dropped, each task is
  where its state tells, and the coordinator counts down exactly. If nobody could
  go on, some thread would be free or would run a task that awaits nobody
  (`QueueEmpty`); of the tasks under way one of least rank would await only what
  is done (`NoneUnderWay`); so none is under way, and the run could be closed. It
  assumes `EnoughWorkers`: the pool has more threads than tasks that await others
  (`run_check` reckons it per target, "a lack of threads is not slower, it is
  mutual deadlock"); and `Layered`: tasks await tasks of lower rank only, those
  of one lane none of their own lane (the comment on `net_lane`: only leaves go
  there). What the theorem does not say is that every probe ends.
  `PlainTasksAreTold` is the boundary of `DiagSilence`: a task that is taken out
  unrun gets its `Cancelled` unless it is staged or of a lane.
* the check of sites: `CjTypeCorrect`, `DoneIsFinal`. `CjInv`: the domains of a
  job are those being probed, those with a result and those that panicked.

`DnsProofs`:

* name resolution: `NetTypeCorrect`, `QueriesAreCoalesced`, `MarksAreTrue`,
  `CacheIsBounded`, `NoWakeUpIsLost`. The strengthening is that every query
  under way is the one its key is marked with; the bound is a counting argument
  per insertion. The last theorem is the safety half of `CallsComeBack`: a call
  goes to sleep only while the answer is still to come and among those that
  `HandOver` wakes.
* the local proxy: `LpTypeCorrect`, `AdaptersOnlyAfterAnswer` (any number of
  faults), `SettlesWithoutFault`, `OneFaultRollsBack`, with the exceptions their
  properties name (a torn config; a destroyed engine, a new engine that did not
  answer). `StartInv` says what a
  start knows at each of its steps, `SettledInv` that without a fault what runs
  is what the file says (`ModeShownWithoutFault`, the boundary of `ProxyShown`),
  `RollInv` where the previous mode is kept until the one fault is undone.
* domain lookup: `DlTypeCorrect`, `UnmarkedReportsAreWhole`. `DoneSoFar`: as
  long as nothing has halted the lookup, every step before `at` that the target
  calls for is filled; `MarksTell`: marks come after the last step and tell what
  was seen; one of the two is missing only if Stop came between the two reads. That an address has no road of its own is `DlAssumption`.

`TelegramProofs`:

* the tunnel: `TgTypeCorrect`, `LinkStableAlone`, `FileFollows`.
  `LinkStableAlone` assumes `OneAtATime`: the run `TgLink` shows that it needs it.
  `TgInv` says which secret every holder of a config has while the file is
  written. `FileFollows` assumes nothing of the calls: `FollowInv` says that as
  long as none has crossed another, at most one is under way, and where it is.
* the splitter: `TsTypeCorrect`, `FramesFollowMessages`, for any streams and any
  reads. `TsInv` adds that what is cut ends where a message ends. Lengths are
  folds over sequences: the end of the n-th message is related to that of the
  next by the lemmas of `SequenceLemmas`.
* the routes: `RtTypeCorrect`, `CrashKeepsPauses`, `SomeRouteIsLeft`. `RtInv` is
  the first two together: the file follows the memory only because failures stay
  below their thresholds and pauses within their bounds. `RtAssumption`: positive
  thresholds and a wall clock that is not set back between two processes;
  `KeysAreInSequences`: the keys of addresses, domains, workers and tunnels come
  in sequences. The last theorem is about the plan in any well-typed state.
  `RawPlanIsGood` is the case distinction: all of WSS is paused only if `cdn` is,
  and then the fronts are tried once more. That the order of clusters loses and
  doubles no way is `OrderedIsReordered`: a filter keeps the n-th member it lets
  through at place n of its result (`KeptIs`, by `Rank`, the number of members let
  through so far), the places the two filters give are one-to-one
  (`PlacesAreOneToOne`), and a permutation keeps counts (`PermutedCounts`).

`SystemProofs`:

* the rules: `NftTypeCorrect`, `EachPacketQueuedOnce`, `NoEchoPasses`, for any
  filters: the hooks a packet has passed and the marks on it decide what the
  rest of its way can do (`NftInv`).
* the hosts file: `HostsTypeCorrect`, `BlockHoldsWhatWasAsked`,
  `ApplyAgainChangesNothing`, `OthersSurvive`. What the program
  reads back is a scan of the whole file, so the invariant must say where the
  block is: `HasBlock(lines, p, rows)`, marks and rows from place `p` on and
  nothing that begins a block before it. `RebuiltHasBlock` is that an apply makes
  it so whatever was there, `BlockIsWhole` that the scan of such a file gives the
  rows, and adding a line at the end disturbs neither. That a second apply changes
  nothing (`RebuiltTwice`) is in four facts: a file is what is before the place of
  the block, blank lines, and what is behind it (`Shaped`); taking the block away
  gives the same with other blank lines (`EnclosedIsCut`, `ShapedAgain`); a file
  that DropConflicting has passed is one it leaves alone (`Calm`, with the block
  each line is in: `DropIsCalm`, `DropLeavesCalm`); and other blank lines at the
  place leave it calm, unless the place is in a block which they would end
  (`CalmAround`; by `HeadIsAbove` this is what `Splits` says). What is seen of
  others is one fold over the file (`OfOthers`): taking the clashing mappings away
  takes none of it (`DropKeepsView`, with `RestKeepsPairs` for one line), and
  other blank lines at the place are not seen unless they end a block
  (`SeenAround`).

`StoresProofs`:

* the release search: `RlTypeCorrect`, `SearchFailsRightly`. `AskedOrFailed`:
  who was asked is waited for or has failed; `OneAnswer`: each source sends at
  most one; `GoodIsWaiting`: a release sent in time is in the channel and its
  source is waited for, so a time-out cannot overtake it.
* the presets: `PsTypeCorrect`, `ListsAreFresh`. A key proves only that the
  folder kept still if equal keys mean equal contents: `KeysTell` and
  `KeysAreOld` say that about the keys of the threads, `CacheTells` about the
  one of the cache, `LoadIsFresh` how far each scan has come, and `HeldIsNow`
  places the files that were held in their periods.

`SequenceLemmas` states what these need of `Min`, `Max` and `FoldLeft`. The
community module defines a fold by a recursive function over sets of indices;
`IterExists` and `RunOfIter` show that it exists and is the end of a run of
intermediate values, one per index, `RunsAgree` that equal beginnings have
equal runs. They quantify over steps that are functions, not operators, so that
the provers can instantiate them.

Only model-checked is liveness, of which `NoDeadlock` and `SleepersWillBeWoken`
are the parts that can be proved (`EveryRequestAnswered`, `PrimaryIsRetried`,
`PermitComesBack`, `CallsComeBack`, `MainReturns`, `JobsEnd`, `JobEnds`,
`SearchEnds`): fairness and ENABLED are beyond this prover.

## 5. Plan

1. Done: bypass control, upstream controller, probe gate, diagnostics run, name
   resolution, encrypted DNS, tunnel and splitter, check of sites, release
   search, hosts file, nftables rules, domain lookup, routes to Telegram, store
   of presets; proofs of the type invariant and of the safety properties of each.
2. Done: every safety invariant and action property of the parts is a theorem,
   two refinements and freedom from deadlock among them.
3. Key clusters and the decisions on -404 (`key_clusters.rs`, `session.rs`),
   once the loop that calls them is in the repository.
4. The Windows driver of the engine (`primecore-ws/src/engine.rs`: release of
   the driver against a new start) and the health windows with their restarts.
5. Privilege grant; `file_write` and `dns_set` of the helper with crashes
   between temporary file and replacement; the HTTP/2 exchange.

## 6. Not modelled and why

* Parsing, formatting, catalogues and texts (settings, lists, profiles, logs,
  fakes, versions, manifests, wire formats, the plans of pages): most of the
  lines of the repository. They transform data without a protocol between
  actors; golden tests compare them with the program they were ported from.
* The verdict rules of the diagnostics are pure classification of outcomes,
  tables of cases the code itself is the only statement of.
* `runtime.rs` and `manager.rs` of `primecore-telegram` make plans for a page
  and keep no state; the loop of a session is not in the repository.
* The handshakes of the tunnel are cryptography.
* The desktop shell is a client of the server.
