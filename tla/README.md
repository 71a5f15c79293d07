# A TLA+ model of TGAGENT

TGAGENT lets its owner drive a Telegram account through a language model: from a
terminal, from chats (`tgagent listen`), on a schedule, and in other people's
chats on the owner's behalf. One asyncio process does all of it over one Telegram
connection and one SQLite database, and a second process (the CLI, or `serve`
beside `listen`) may share the database and the configuration files. What is hard
to get right is therefore what happens *between two awaits*: a row read in one
step and written whole in a later one, a slot tested and taken, a task cancelled
while it holds something, a process that dies with a row disarmed.

This directory holds models of those parts in TLA+, the TLC runs that check them
on small instances, and proofs (TLAPS) about eight of them for instances of any
size. All source paths below are relative to `src/src/tgagent/`.

    tlc -workers 4 -config MCSchedulerQueue.cfg MCSchedulerQueue
    tlapm AgentRunProofs.tla

`PROJECT.json` is the machine-readable index: components, runs, the source lines
of every definition, the mutant that breaks each property, hazards and theorems.

## 1. The system

| Component (code) | State | Operations | Meets others through | What makes it correct |
|---|---|---|---|---|
| Scheduler (`scheduler/`) | the tick loop's mode, executions in flight, the semaphore | start, reconcile, tick, claim, run, finish, stop | rows of `scheduled_tasks`, shared with the tools, the CLI and other processes; runs of the agent | no task beside itself, no slot fired twice, no enabled recurring task forgotten, no due task passed over for ever |
| Automatic replies (`interfaces/autoreply.py`, `tools/autoreply_tools.py`, `_maybe_autoreply`/`_run_autoreply`) | `chat_watches`, the hourly window, the chats' run slots | match, retire, refuse, run, send, record; start and stop watches and flight mode | the database, the bridge's slots and semaphore | budgets hold, stops hold, slots are given back |
| Telegram control (`interfaces/telegram_control.py`, `security/confirm.py`) | run slot, open prompt and conversation of each chat, rate window | commands, answers, stop, reset, run, shutdown | starts runs; prompts run inside tool calls | one run per chat, only the owner's own yes approves, resets hold |
| Agent runtime (`agent/runtime.py`) | step, tool calls and error count of each run | ask the model, run tools in parallel, time out, cancel | permission engine, gateway, conversation store | limits end a run; what the model saw is what was stored |
| Permission engine (`security/permissions.py`) | outbound counter, policy, a run's grants | decide, confirm, count | called by the gateway, policy replaced by the operator | nothing unsanctioned is executed; a budget per run |
| Gateway (`telegram/gateway.py`) | the write gate and the time of the last write | call: decide, space, prepare, request, audit | every component that touches Telegram | writes are spaced, the log is honest, the gate is never left held |
| Connection and process (`telegram/client.py`, `app.py`, `interfaces/cli.py`) | socket, watchdog, monitor, failure count; what is open | the stages of start and stop, the commands; probe, rebuild, reconnect | the gateway connects on demand; `listen` waits for `failed` | it recovers or ends; what was stopped is down |
| Conversation (`agent/runtime.py`, `agent/context.py`, `storage/sqlite.py`, the encoders of `llm/providers/`) | turns of a conversation | append, read back, repair, summarise, encode | every run of a chat | a service is never sent half a pair of call and result |
| Language model (`llm/`, `config/local.py`, `app.py`, the model commands of `interfaces/admin.py`) | the settings file, the settings in force, the cached client, a request and its stream | set, reset, restart; ask, retry, stream, fail | every run; `agent llm` is refused during one | a new setting is used from the next run, no client is closed under a run, an answer is put together as it was sent |
| Policy lookup and administration (`security/permissions.py`, `config/policy.py`, `interfaces/admin.py`) | the operator's file, the file of the chats, the engine's overrides, the grants of a task | decide, set, clear, grant, restart | the engine of every run, scheduled tasks, a terminal beside it | a deny covers every spelling; a chat loosens only what it may; a restart changes nothing |
| Sandbox (`sandbox/`, `tools/code_tool.py`) | one worker process per program, the pipes, a shared semaphore | execute, relay, deadline, terminate, kill | operations of a program go through the gateway | worker and host stay in step, no worker outlives its execution, every execution ends |
| Plugins (`plugins/`, `tools/__init__.py`, the plugin commands of `admin.py` and `cli.py`) | `plugins.json`, the directory, the live tools, `_plugin_tools` | install, switch, configure, remove, load, reload | the listener and the command line share the files; tools of later runs | off stays off, nothing runs that was not asked for, no name is stolen |
| Reading (`telegram/history.py`, `media.py`, the reading tools) | cursors of searches; a walk, a download | page, continue, look, fetch, check | one reader for all runs of the process; Telegram changes under it | a walk misses nothing and repeats nothing; only what was checked is reported |
| Storage (`storage/`) | SQLite | statements and migrations | all | statements modelled where they are issued |
| Conversions, sign-in, trust, prompts, settings, logging | – | conversions, dialogue, text | – | not modelled, see section 8 |

## 2. Modules

| Module | Models | State and actions against the code |
|---|---|---|
| `SlotContract` | what a scheduler promises about one task, whoever runs it | abstract: a task is armed, busy, or neither; slots only grow |
| `TaskScheduler` | `scheduler/`, the task statements of `storage/sqlite.py`, `tools/schedule_tools.py`, `app.run_task` | `db` is the table; `batch` the snapshots a `for` loop still has to visit; `execs` executions from claim to recorded outcome. `Reconcile`, `Query`, `Claim`/`ClaimLost`, `Misfire`, `Spawn`, `Begin`, `RunnerEnds`, `FinishRead`, `FinishWrite`, `FinishFails`, `Stop`, `DrainTimeout`, `Stopped`, `Crash`, and the tools' `Create`, `Delete`, `DisableRead`, `DisableWrite` |
| `SchedulerQueue` | `LIMIT` and `ORDER BY` of `due()` when more is due than a tick takes | `TaskScheduler` with a history `passed` of who was claimed before whom |
| `AutoReply` | `interfaces/autoreply.py`, `_maybe_autoreply`, `_run_autoreply`, the watch statements, the tools, the commands, flight mode | a message and the run it may start are one `job` with a copy of the watch's row; `active` is `_active`, `replies` the rolling window |
| `ChatControl` | the bridge: `_handle`, `_dispatch`, `_run`, confirmations, `stop()` | `cmd` is a message, its handler and then its run; `ask` a confirmation, coroutine and future; `slot`, `pending`, `pointer` are `_active`, `_pending_confirmations`, `_conversations` |
| `AgentRun` | the loop of `agent/runtime.py`, the verdict of `permissions.py` with its chat lists, `gateway.call` | `call` holds the tool calls of a run, each at the await it is suspended in; `used` is `_outbound_count`, `gate`/`since` the write gate and `_last_write_at` |
| `ConnectionHealth` | `telegram/client.py`, `app.py` `start`/`stop`, the commands of `cli.py` that host runs | `mon` and `dog` are named for the await the task is suspended in; `sock` is `down`, `up`, or a `hole` (dead without an RST); `proc` is the stage of start or stop, `parts` what is open, `runs` who knows of the runs in progress |
| `Transcript` | history of a conversation: append, `get_messages(limit)`, `_drop_dangling_tool_calls`, `compact`, `_safe_split_point`, the two wire formats | `messages` is the table in rowid order, `session[r].history` the list in memory; `WireOpenAI` and `WireAnthropic` are what is sent of it |
| `LanguageModel` | `config/local.py`, the `llm` commands, the provider cache of `app.py`, `retry.py`, `complete` and `stream` of the providers | `stored` is `settings.local.json`, `setting` what is in force, `provider`/`client` the cached client and its predecessors that are being closed, `run` a run with its request, attempt and the pieces of a stream |
| `Plugins` | `registry.py`, `install.py`, `loader.py`, the plugin commands, `reload_plugins` | `file` is `plugins.json`, `dir` the directory, `live` the registry's plugin tools with the code they came from, `tracked` is `_plugin_tools`; a command is read, then written (`edit`), an installation waits for its clone first (`job`) |
| `Reading` | `telegram/history.py`, `media.py`, the paging tools | `there` are the messages of the world, numbered by date; `cursors` is `_global_cursors` in order of insertion; `reader` is a caller with its walk or its download |
| `Sandbox` | `subprocess_runner.py` (and Docker's, which only spawns differently), `worker.py`, `bridge.py`, `code_tool.py` | `host` is `execute` at its await with the bridge's counts, `worker` the other process, `toHost` and `toWorker` the pipes, `permits` the semaphore; a "long" frame exceeds the reader's buffer |
| `Policy` | the lookup of `permissions.py`, `policy …` of `admin.py`, the files of `config/policy.py`, the grants of `schedule_tools.py` | `file` and `chat` are the two files, `live` the engine's overrides, `granted` a task's grants; `Set`, `Clear`, `SaveFails`, `Grant`, `Ungrant`, `Restart`, and what an operator does to the files |
| `Order` | numbers in ascending order (`sorted`), and the list that is left when only some places are kept | operators of `Transcript` and `LanguageModel` |
| `TaskSchedulerProofs`, `PolicyProofs`, `AgentRunProofs`, `LanguageModelProofs`, `ForeignCodeProofs`, `TelegramProofs`, `ChatControlProofs`, `AutoReplyProofs` | theorems | section 6 |

Every `MC` module only names model values and symmetry; each `.cfg` is a run.
`TaskScheduler` implements `SlotContract` under the mapping at its end. The other
modules meet at narrow points rather than sharing state: a tool call of
`AgentRun` is one step `working` of a run in `ChatControl` and one step `writing`
in `AutoReply`; a call of a program in `Sandbox` is one call of `AgentRun`; the
answer to a prompt is a choice in `AgentRun` and the subject of `ChatControl`; the
policy per method of `AgentRun` is `Decide` of `Policy`, and its grants are those a
task was given there; an answer of the model is a choice in `AgentRun` and the
subject of `LanguageModel`, its history the subject of `Transcript`; a page or a
download of `Reading` is one or more calls of `AgentRun`; the runs of
`ConnectionHealth` are those of `ChatControl` and `TaskScheduler`.

Conventions. An action is what the event loop runs between two awaits, so a value
read before an await and used after it is in the state. Records carry what a
coroutine holds in its locals. A definition under a comment `Mutant:` is a
plausible bug, used only to show that a property can fail. History variables
(`last`, `sent`, `said`, ...) record what the code does not; no guard reads them,
except `lost` of `Transcript`, which also bounds itself. In most modules the type
invariant is a conjunct of one of the safety properties, so that a run checks both.
A statement whose comment quotes the repository and says that the code does not keep
it (`NeverDoubled`, `StopHolds`, ...) is in no run: TLC refutes it, see section 7.

## 3. Runs

| Run | Properties | Shows |
|---|---|---|
| `scheduler` | `Rearmed`, `KeepsContract` | one process, a cron task and a one-off task; crash, shutdown, storage error, edits. A disarmed enabled task is armed again, and every step refines `SlotContract` |
| `scheduler_pair` | `NoOverlap`, `SlotsFireOnce`, `PassedOnce` | two processes on one database and two mishaps, or one process and three tasks of which a tick takes two: no task runs beside itself, no slot fires twice, and a task that waits is passed at most once by each of the others |
| `autoreply` | `WithinLimits`, `QuietStopHolds`, `SlotsAreHeld` | two chats, a watch and flight mode, two messages in flight, limits of each kind |
| `chat_control` | `SlotIsHeld`, `Answerable`, `ApprovedByOwner`, `QuietResetHolds`, `StopRefuses` | three messages over two chats, two prompts, a queue of one, the end of the bridge |
| `agent_run` | `Sanctioned`, `QuietBudgetHolds`, `GateIsHeld`, `AuditIsHonest`, `WritesSpaced` | two runs of any kind, two tool calls each, in parallel; time-outs, lost answers, calls that cannot be prepared, barred chats, policy changes |
| `connection` | `StoppedIsDown`, `Restored`, `FailureEnds` | every command from its first stage to its last, failures of each stage, runs in progress at the stop; three mishaps of the network, watchdog and monitor on one client |
| `transcript` | `Accepted`, `SeenIsStored` | two runs in one conversation, steps whose calls come without ids, crashes, a lost write, a history limit and summaries, sent to either service |
| `language_model` | `SettingsInStep`, `NewestIsUsed`, `StreamedIsSent` | two runs, two values of a setting, failed writes and restarts; requests that are retried, time out, or stream two calls in pieces |
| `plugins` | `InStep`, `OffIsKept`, `NothingUnasked`, `LimitIsKept` | a shipped plugin and an external one in two versions that want the same names and a core tool's, changed by the listener and by a terminal; kills and failed writes |
| `reading` | `WalkIsWhole`, `QuietSearchHolds`, `ReportedIsChecked` | two readers on one reader object: pages back, forth, since a date and over all chats while messages come and go; a download of a message that is edited |
| `sandbox` | `PipesInStep`, `NothingLeaks`, `CountIsHonest`, `Ends` | two programs, one place in the semaphore; workers that spin, die or ignore SIGTERM, deadlines, tool time-outs and cancellations |
| `policy` | `LockoutIsKept`, `FileDenyHolds`, `RestartChangesNothing` | five names of three operations, two policy files; every order of commands, grants, failed writes, edits and restarts |

`CHECK_DEADLOCK FALSE` is set where the clock, the messages or the mishaps run
out: the two scheduler runs, `autoreply`, `chat_control`, `agent_run`,
`transcript` and `sandbox`. The behaviour then really has nothing left to do; what
must not get stuck is stated as a liveness or slot property instead. The others
check for deadlock: the process of `connection` ends in a state of its own, and
in `policy`, `plugins`, `language_model` and `reading` something can always follow.

### Exclusions, and what they mean

Some guarantees hold only while a documented weakness is not being exercised. The
property then says so with a history variable. An excluded behaviour is still a
behaviour of the model: the other properties are checked in it. Where the
documentation makes the promise without the exception, section 7 has the statement
that TLC refutes.

- `racy` (scheduler): a scheduler started, and so reconciled, beside unfinished
  work. `NoOverlap` and `SlotsFireOnce` make no promise from there on, because of
  the stale snapshot of section 7; `PassedOnce` neither. Since `racy` never resets, the
  pair run stops exploring there (`CONSTRAINT Small`); the theorems have no constraint.
- `failed` (scheduler): `_finish` swallowed a storage error. The row stays
  disarmed until the next start.
- `raced` (replies): a run started from a row that was outdated, or a count was
  lost. `carried`: the watch's row was in a job's hands when it was stopped.
- `crossed` (control): the conversation was reset under a run in it (section 7).
  `overlapped`: a prompt was registered over one answered but not yet resumed,
  whose `finally` then removes the newer entry.
- `blurred` (agent): writes of one run overlapped, another run reset the shared
  counter, or Telegram carried out a request whose answer was lost. `unheard`: an
  error took the place of the answer to this call, so that its entry of failure says
  nothing of what Telegram did.
- `shared`, `reused`, `lost` (transcript): two runs were in the conversation at once;
  a second step came without ids, and has those of the first (`Orderly` is neither);
  a turn could not be stored (`_persist` swallows it).
- `Swallowed` (connection): a request of `_recover` was sent into a dead socket.
  Only the probe has a deadline, so the monitor waits for good. `FarewellSwallowed`:
  it does so while the stop waits for the farewell of a run on the same socket;
  `FailureEnds` excepts only a process that stays in this state for ever. `cut`: `stop()`
  was interrupted between its stages, or a program that only called
  `create_application` had nothing to call it on. A "late" run was started by a
  handler that the bridge had not waited for.
- `stale` (language model): a key was reset, which leaves its value in force until
  the restart, or its entry was lost by a failed write.
- `behind` (plugins): the files were changed by another process, by hand, or by a
  command that failed, and the listener has not reloaded since. `blurred`: the row
  was lost to an outdated or truncated file. `torn`: what lies in the directory was put
  there by a command that failed or was killed before it wrote the row, or by hand
  under a row. `crowded`: an installation was
  decided on a list of plugins that changed during its clone. `boot`: tools that
  were registered at the start, which no reload takes out (section 7).
- `lost`, `crowded` (reading): a search continued without its cursor and began
  again; two walks of one search ran together, or the memory of cursors was full.
  `edited`: the message changed between the two looks at it.
- `held` (policy): a grant the task had when the process started, and so perhaps before
  the file denied the method; a grant for another namespace of the same key is
  excepted by name. `shadowed`: the name was set from a chat although the operator's file
  has a rule under the same name; that rule is lost to the chat (section 7).
  `disturbed`: a file changed without the process knowing, or a reset popped the
  file's own rule.
- `NothingLeaks` (sandbox) lets a worker that ignores SIGTERM live on when a
  cancellation interrupts `_terminate` itself; it was told to stop all the same.

## 4. Bounds, and why they suffice

| Bound | Value | Reason |
|---|---|---|
| `Handles` | 2 | two executions are the least that overlap; a third adds no new pair |
| `MaxTime` (scheduler) | 3 and 2 | with a period of one and a grace of one: on time, a misfire, and a slot after it |
| `MaxTrouble` (scheduler) | 1 and 2 | one crash, stop, error or edit between any two steps; with two processes two of them |
| tasks, processes, `MaxConcurrent` | 3, 2, 1 | `LIMIT` is twice the concurrency: one of three due rows is cut off, and two can pass it. `Small` of `MCSchedulerQueue` leaves out a third task beside a second process at work or a second mishap; the theorems do not |
| `MaxRows`, `MaxWatches`, `MaxMessages` (replies) | 2, 1, 2 | a watch and its replacement or flight mode beside it, and two messages that race for one slot or one budget |
| `MaxReplies`, `PerHour`, `Cooldown`, `Life`, `DefaultLife` | 2, 1, 1, 2, 1 | each limit is reached, and each can be the first one reached; both ways a watch gets its end |
| `Hour`, `MaxTime`, `MaxRuns`, `MaxTrouble` (replies) | 0, 1, 1, 1 | the window passes with the one tick, so that a reply in it and one after it occur; the shared semaphore has one place |
| `MaxMessages`, `MaxAsks` (control) | 3, 2 | a command, a second one or a reset beside it, and an answer; two prompts are needed to replace one |
| `MaxBusy`, `MaxParallel` (agent) | 2, 2 | two tool calls in progress over all runs: the least that race at the counter and the gate |
| `MaxOutbound`, `MinGap`, `MaxSteps`, `MaxToolCalls`, `MaxErrors` | 1, 1, 2, 2, 1 | reached within one run, so that the refusals happen |
| `MaxTrouble`, `MaxRecoveryAttempts`, `ProbeAfter` (connection) | 3, 2, 2 | network loss, silent death, and one more, which fails the rebuild (the second failure is the last allowed) and disturbs what follows; two ticks without a sign of life |
| `MaxTurns`, `MaxBatches`, `MaxLost`, `HistoryLimit`, `KeepRecent`, `Width` (transcript) | 7, 3, 1, 4, 2, 2 | a window of four over seven turns cuts at every place of a pair; three steps ask for up to two tools each; one write is lost; two of the steps may come without ids |
| `MaxRetries`, `MaxCalls`, `Pieces`, `MaxClients` (language model) | 1, 2, 2, 2 | a retry and its end; two calls whose pieces may cross; a client and its replacement (a place is used again once its client is closed) |
| `MaxCommands`, `MaxInstalled`, `MaxTools` (plugins) | 4, 1, 1 | an installation, a switch, a second command and a second process, so that a reinstallation can be cut off under an older row; one plugin fills the limit and two tools exceed theirs |
| `MaxMessages`, `PageSize`, `CursorMemory`, `Floor` (reading) | 4, 2, 2, 2 | two full pages and what comes after them; two searches fill the memory; the floor lies within a page |
| `MaxRpcCalls`, `MaxConcurrentRpc`, `MaxCuts` (sandbox) | 1, 1, 1 | the limit is reached by one call and the semaphore by one program; with the tool's own time-out an execution can be cancelled twice. The safety properties were also checked with two calls (6 million states) |
| names, `Files`, `MaxGrants`, `MaxTrouble` (policy) | 5, 2, 1, 1 | one operation with two namespaces, a bare spelling and a friendly wrapper, one that can lock the owner out; a file that denies and one that allows beside a deny; one grant and one lost, failed or edited file |

The bounds `MaxBusy`, `MaxClients`, `MaxCommands`, `MaxMessages` and `MaxTrouble`
are the models' own; the others are limits of the code. The proofs hold for any
value of all of them. Symmetry (processes, chats, runs, readers) is used only
where a run checks safety.

## 5. Fairness

- Scheduler: weak fairness of every step of a process (its event loop runs, and a
  service manager restarts it), of the executions of each task
  (`agent.run_timeout` ends every run) and of the clock. Nothing is assumed of
  crashes, stops, errors, or the tools.
- Connection: weak fairness of the stages of the start, of the monitor, the
  watchdog, the shutdown and time. The network, the user, the runs and Telegram
  owe nothing; `Restored` is about behaviours in which the network stays back. A
  coroutine that awaits a swallowed request has no step, so weak fairness does not
  free it.
- Sandbox: weak fairness of the host's steps, of the deadline and of the tool's
  time-out. Nothing is assumed of the program, which may spin, or of the gateway,
  which may wait for its owner: `Ends` holds although neither ever answers.
- The remaining modules check safety only and state no fairness.

## 6. Proofs

Every theorem holds for any sets and bounds that satisfy the named assumptions on
the constants; the assumptions only give the constants their types, the least
values of the limits, and that the sentinels differ from the values.

`TaskSchedulerProofs`, from `ScheduleAssumption` and `BoundsAssumption`:

| Theorem | States |
|---|---|
| `TypeCorrect` | `Spec => []TypeOK` |
| `Inductive` | `Spec => []IInv` |
| `NeverOverlaps` | `Spec => []NoOverlap` |
| `NeverFiresTwice` | `Spec => []SlotsFireOnce` |
| `NextRunIsLater` | `next_run_after` returns a later time or none |
| `ImplementsContract` | `Spec /\ [](~racy) => KeepsContract`: the refinement, for any number of processes, until one starts beside unfinished work |
| `AloneKeepsContract` | `Spec => KeepsContract` if there is one process |
| `NeverPassedTwice` | `QueueSpec => PassedOnce` |

Neither safety property is inductive. That no task overlaps itself depends on the
row being disarmed while an execution is in flight; that depends on nobody arming
it meanwhile: not `_finish` of another execution, not `reconcile` from its
snapshot, not the tools. `IInv == TypeOK /\ Clocks /\ (racy \/ Quiet)`, where

- `Clocks`: nothing recorded (`last`, the `now` of a tick or a reconcile) is
  ahead of the clock, and nothing happened to an id before its row was inserted;
- `InFlight`: at most one execution per task, its row disarmed while it is in
  flight, and the row an execution is about to write is disarmed or armed for a
  slot after the last one claimed;
- `Reconciling`: a row that a reconcile has still to rewrite is disarmed and not in
  flight, its slots lie in the past, and only one process is reconciling;
- `ArmedIsFresh`: every armed slot lies after every claimed one.

`QuietStep` has a step per action. An execution's own steps change the flights
only by moving or dropping one (`MovedInFlight`, `FewerInFlight`), and a new
`next_run_at` is later because `NextRunIsLater` and the clock is at least `last`.

The refinement needs nothing but `Quiet` before and after a step. A step that starts
no execution and claims no slot (`NoNewFlight`) leaves a flying task disarmed, or
ends its flight, or rearms an idle one for a later slot; a claim (`ClaimFires`) fires
the slot of its task and touches no other. The proviso is about a second process:
`stop()` returns, and a process dies, with no execution of its own left
(`DownIsIdle`), so a process that is the only one never starts beside unfinished
work, and keeps the contract through every stop, cut drain, crash and restart.
`SlotContract` has no fairness, so this is the whole of `KeepsContract`.

`NeverPassedTwice` is about any number of tasks and any limit. Its invariant `QInv`
says of a task that has been passed (`Overtaken`) that the one which passed it has a
later slot, that no execution and no reconcile holds a copy of the row which could
give it an earlier one (`Behind`), and that a tick which is still to visit the faster
row has the slower one before it. The last needs `Visits`: what a tick has in its
batch has not changed since, but for rows that it will not win. A `LIMIT` without the
order, or a loop in another order, breaks exactly this.

`PolicyProofs`, from `PolicyAssumption` alone (nothing is assumed of which method
is in which table, what is an alias of what, or what the defaults are):

| Theorem | States |
|---|---|
| `NamedDenyDenies` | a deny under any spelling of a method denies it, whatever the other rules say |
| `OthersOnlyTighten` | a rule that does not name a method never loosens the verdict on it |
| `PolicyTypeCorrect` | `Spec => []TypeOK` |
| `FileDenyIsKept` | `Spec => []FileDenyHolds` |
| `LockoutStaysShut` | `Spec => []LockoutIsKept` |
| `RestartAgrees` | `Spec => []RestartChangesNothing` |

The invariant is `Inv == TypeOK /\ LockoutIsShut /\ RulesAreKept /\ FilesAgree /\
GrantsFit`. `LockoutIsShut`: a chat names an operation that can lock the owner out
only to deny it, and no task was granted one. `RulesAreKept`: outside `shadowed` the
engine holds the rules of the file it read, and beyond them only denies of such
operations. `FilesAgree`: until `disturbed`, the engine holds what the two files say.
`GrantsFit`: no grant given since the process started is for a spelling of a name that
the file denies. The invariant is about rules and the properties are about verdicts,
which other names of the method contribute to; the lemmas on the lookup join the two.
`NamedDenyDenies` turns a rule that is kept into a verdict, and shows that `grantable`
refuses every spelling of it (`GrantIsForAnother`); what an unattended run may do is
the verdict or a grant, which gives `FileDenyIsKept`. For `LockoutStaysShut`, an
operation that is open to an unattended run has no deny among its spellings, so these
say what the file says of them, and the rules a chat added under aliases can only have
made the verdict stricter (`StrictestGrows`): it was open before.

`AgentRunProofs`, from `AgentRunAssumption`:

| Theorem | States |
|---|---|
| `InvHolds` | `Spec => []Inv` |
| `GateIsAlwaysHeld` | `Spec => []GateIsHeld` (with `TypeOK`) |
| `AlwaysSanctioned` | `Spec => []Sanctioned` |
| `AuditIsAlwaysHonest` | `Spec => []AuditIsHonest` |
| `WritesAreSpaced` | `Spec => WritesSpaced` |
| `BudgetHolds` | `Spec => []QuietBudgetHolds` |

`Inv == GateIsHeld /\ AllProper /\ Sleeps /\ Numbered`. `Proper` says what is known of
a call at every await it can be suspended in: past the verdict it is permitted by
the policy it was judged under, by a grant its run still has, by the person asked
or by the fallback; nothing is recorded before it has an outcome, only what
landed is recorded as done, and what landed is recorded as failed only if an error
took the place of its answer. That a run with calls in progress keeps its grants
needs `Numbered`: calls are asked for in order, and a run that thinks has no call in
progress, so a run that ends or begins anew has none that could outlive its
grants. The spacing of writes needs `Sleeps`, that the sleep of the call in the gate
is exactly what is left of the gap: a call leaves the gate when its sleep is over,
and `GateIsHeld` lets no other one set the time of the last write meanwhile.
`WritesSpaced` is an action property and follows from `Inv` by a case split over the
actions that let a call pass. The budget has an invariant of its own, `BudgetIsKept`,
about the runs that are not blurred: the writes of such a run that have a result are
at most what the shared counter says (other runs may have added to it, none has reset
it), at most one write is under way, and when it was decided the budget had room for
it. The step that a success adds one write and one to the counter, and the bound on
`Sent` itself, count finite sets: the calls of a run are pairs with `1..MaxToolCalls`.

`LanguageModelProofs`, from `LanguageModelAssumption` and `TranscriptAssumption`:

| Theorem | States |
|---|---|
| `TranscriptInvHolds` | `TranscriptSpec => []TranscriptInv` |
| `AlwaysAccepted` | `TranscriptSpec => []Accepted` |
| `SeenAlwaysStored` | `TranscriptSpec => []SeenIsStored` |
| `InvHolds` | `Spec => []Inv` |
| `NewestIsAlwaysUsed` | `Spec => []NewestIsUsed` |
| `SettingsStayInStep` | `Spec => []SettingsInStep` (with `TypeOK`) |
| `StreamedIsAlwaysSent` | `Spec => []StreamedIsSent` |

The transcript. `Accepted` speaks of the messages that go out, so the argument has two
halves. The first is about operators and knows no state. A history is `Paired` when
every turn of calls is followed by its results and every turn of results preceded by
its calls; either service takes the encoding of a paired history
(`PairedIsTakenByOpenAI`, `PairedIsTakenByAnthropic`). For OpenAI a turn of results is
`Width` messages, so this counts: message n comes from the turn `Source` names, and
the messages of a turn lie next to each other (`WireAt`, `OneSource`). What the
database keeps need not be paired, for a run may die between the two turns; it is
`Loose`: a step has at most one turn of either kind, and its results, if it has both,
come right after its calls. `Repair` makes a paired history of any loose one
(`RepairPairs`), a window of a loose list is loose, and of any list whatsoever it
leaves as many steps with calls as with results (`RepairBatches`), which is what
`Accepted` says of a shared conversation and of one whose ids recur. The second half
is the invariant. Steps are told apart by their ids, as `_drop_dangling_tool_calls`
does, so a step without ids of its own is a turn of an earlier step to the repair.
While one run at a time uses the conversation and at most one step came without ids
(`Orderly`), `messages` stays loose, because no turn is of a step that has not asked
yet (`Known`) and results are written only behind their calls or where their calls
were lost (`Sendable`). In memory a history is paired, but for the calls it waits for.
`SeenIsStored` needs more: a history is the end of what `Repair` makes of the whole
table (`Shared`), and stays it when a turn is written to both (`RepairPlain`,
`RepairStep`); while the run waits for results, the stored calls would be read back as
a note, so there the statement is about the two lists without their last turn.

The language model. `Inv == TypeOK /\ FileIsInForce /\ CachedIsNew`, and of every run
`HoldsItsOwn` and `Received`. A run keeps the client it began with because a place is
reused only when no run holds its client; its settings are the newest because the
cached client has the settings in force (`CachedIsNew`), which depends on every change
of a setting dropping the cache; and a run of the bridge has an open client because
such changes are refused while it runs. `Received` says of a stream that its slots are
of different calls, all of them made (`Apart`). A whole answer therefore has a slot for
each index from 1 to the number of calls, and the n-th of these numbers is n
(`InOrderIs`): sorting by index gives the calls that were sent. The same counting shows
that a call without a slot leaves room for one (`RoomForOneMore`). The order is written
with `Nth`, which is defined by a rank and not by recursion, so that this can be proved.

`ForeignCodeProofs`, from `PluginsAssumption` and `SandboxAssumption`:

| Theorem | States |
|---|---|
| `InvHolds` | `Spec => []Inv` |
| `OffStaysOff` | `Spec => []OffIsKept` |
| `LimitHolds` | `Spec => []LimitIsKept` |
| `RegisteredHolds` | `Spec => []Registered` |
| `ListenerStaysInStep` | `Spec => []InStep` (with `TypeOK`) |
| `DirectoriesWereAsked` | `Spec => []WereAsked` |
| `NothingIsUnasked` | `Spec => []NothingUnasked` |
| `SandboxInvHolds` | `SandboxSpec => []SandboxInv` |
| `PipesAlwaysInStep` | `SandboxSpec => []PipesInStep` (with `SandboxTypeOK`) |
| `NothingEverLeaks` | `SandboxSpec => []NothingLeaks` |
| `CountIsAlwaysHonest` | `SandboxSpec => []CountIsHonest` |

The theorems about plugins are about the file after a write, while the commands decide
by the file they have read. `Inv` therefore says of every command under way what it
has decided by the file in its hands (`JobFits`, `Decided`). That no code runs unasked
is about versions and has an invariant of its own, `WereAsked`: what lies in a
directory that has a row, or is about to get one, is a version which a command has
installed, or which the command that moved it there is about to record. Moving the
directory and writing the row are two steps, and the other process may remove the
plugin between them; `RemovalsFit` says that the directory is then the installation's
own. A step that leaves a directory behind without its row, or under another's, makes
it `torn`. Where the file in hand is outdated, the rows that its write loses are in
`blurred`, about which nothing is promised. `Registered` is about the tools the
listener has made of the files: every tool of a plugin in its registry is tracked, so
that the next reload takes it back, or was there at the start, which is what makes a
reload come out as a restart would. `LoadingFits` says of `Loading`, whatever the
files hold, that it yields code the plugin has under names that are nobody else's;
that the plugins are loaded in order, each with what the ones before it left, is in
its definition, which needs no recursion: the names that are taken are those of every
earlier plugin that runs.

`SandboxInv == SandboxTypeOK /\ Kept /\ \A x : Sound(host[x], worker[x], toHost[x],
toWorker[x])` has no relation between programs but `Kept`, that the places taken from
the semaphore are those of the calls that hold one, counted with `Cardinality`: an
execution is sound by itself, so a step of one program cannot disturb another. `Sound`
says what the two sides know of each other. `Paired`, `Sending` and `Answering` fix
what is in both pipes for every pair of a host's await and a worker's: a worker that
waits has one call, one answer or nothing on its way, by whether the host has read the
call yet. Without them no step of the host could be shown to meet the frame it
expects. `Counted` says that the worker's count of calls is never behind the host's,
so the host never refuses one; `Traced` that what landed is in the log, less the call
being served or cut off, which with `Logged` (the log has only calls that were made)
is the argument for the number the model is told; and `Attended` in which states a
worker may outlive its host. The programs may be infinitely many.

`TelegramProofs`, from `ConnectionAssumption` and `ReadingAssumption`:

| Theorem | States |
|---|---|
| `InvHolds` | `Spec => []Inv` |
| `StopLeavesNothing` | `Spec => []StoppedIsDown` (with `TypeOK`) |
| `ReadingInvHolds` | `ReadingSpec => []ReadingInv` |
| `WalksAreWhole` | `ReadingSpec => []WalkIsWhole` (with `ReadingTypeOK`) |
| `QuietSearchesHold` | `ReadingSpec => []QuietSearchHolds` |
| `ReportsAreChecked` | `ReadingSpec => []ReportedIsChecked` |

`Inv == StoppedIsDown /\ Watched /\ Opened /\ Running /\ Closed`: at each stage of the
start and the stop, which of the monitor, the watchdog, the storage, the scheduler
and the bridge can still exist, and whose runs. The last stage is reached with the
connection down because by then nobody is left who would connect it again, but for
a late run.

`ReadingInv` joins what is known of each reader, `Sound`, with what is known of the
memory they share. `Walked` is the argument for `WalkIsWhole`: what a walk still has to
get is ahead of its offset and what it has read is not, so the next page can neither
skip nor repeat. It rests on three lemmas about the operators. `NewestIsPage` and
`OldestIsPage`: what a page leaves out lies beyond all of it, and a page that is not
full leaves out nothing. `IdGrows`: in one chat, ids are in the order of the messages;
over several chats they are not, and a search is therefore ordered by the
message itself and needs its cursor. `Remembered` says that the cursor is there while
nothing has `crowded` the memory; that no other search can have overwritten it needs
`Alone` (one walk of each search) and `KeysAreUnique`. `Examined` says what each look at a
message lets pass, and that only an edit makes a later look find something else.

`ChatControlProofs`, from `ChatControlAssumption`:

| Theorem | States |
|---|---|
| `InvHolds` | `Spec => []Inv` |
| `SlotIsAlwaysHeld` | `Spec => []SlotIsHeld` (with `TypeOK`) |
| `OnlyOwnerApproves` | `Spec => []ApprovedByOwner` |
| `AlwaysAnswerable` | `Spec => []Answerable` |
| `StoppedRefuses` | `Spec => StopRefuses` |
| `ResetHolds` | `Spec => []QuietResetHolds` |

`Inv` has one part for each of these, and what they need of the awaits in between.
`AllProper` says of a message what is known wherever its handler or its run is
suspended: an answer that is being authorised names a prompt, only a run is ever
killed and only once the bridge stops, and after that a handler is one that
`stop()` did not wait for. `Vouched` extends `ApprovedByOwner` to the future that
holds a yes and to the handler that is about to write one. `AllKnown` extends
`Answerable` to prompts that are still being sent or already answered: such a
prompt is the one its chat knows, or `stop()` has answered it and its run is
killed. With `Owned` (a prompt belongs to a run at work) and one run per chat it
follows that, unless prompts have overlapped, whoever removes the entry of a chat
removes its own. `AllInNewest`
says that a run at work is in the conversation its chat began last, so that the
pointer it writes when it ends is the one a reset has set. `StoppedRefuses` rests on `Decided`:
from the moment `stop()` has begun, every answer that is still being authorised is about
a prompt that was refused before it, for no entry of a chat leads to an open one
(`AllKnown`) and a prompt once decided stays so (`Asked`).

`AutoReplyProofs`, from `BoundsAssumption`:

| Theorem | States |
|---|---|
| `InvHolds` | `Spec => []Inv` |
| `SlotsAreAlwaysHeld` | `Spec => []SlotsAreHeld` (with `TypeOK`) |
| `StopsHold` | `Spec => []QuietStopHolds` |
| `LimitsHold` | `Spec => []WithinLimits` |

A job carries a copy of the row it matched and writes the whole copy back, so `Inv`
is about copies. `JobFits` says that a copy's budget is that of the row and that its
count was sent, and, unless runs have raced, that a run holds exactly what its watch
has sent. `AllCharged` says that a live watch is charged for every reply but for the
one that is being recorded, `Alone` that there is then one run at a time: a run
therefore starts with the whole truth, and the reply it sends fits the budget.
`AllFresh` is about watches that are not stored yet: nothing was sent under them and
nobody can have stopped them. `StoppedIsStopped` adds to `QuietStopHolds` that no job
ever gets hold of such a row again. The hourly ceiling has an invariant of its own,
`CeilingIsKept`: unless runs have raced, the replies of the last hour are within the
ceiling, and below it as long as a job is between its check of the ceiling and its
send; another reply in between would be a race. Time only takes replies out of the
hour.

Every safety and action property of a run is stated by one of these theorems. Only
model-checked is liveness (`Rearmed`, `Restored`, `FailureEnds`, `Ends`),
which needs ENABLED and is out of the prover's reach.

## 7. Where code and documentation disagree

Met while modelling. The models do what the code does. For seventeen of these cases a
definition states what a document, a comment or an answer of the program says, without
any exception. No run lists them, because the code does not keep them: put in place of
the properties of the `.cfg` of its module (`MCSchedulerQueue.cfg` for `NeverDoubled`; a
`CONSTRAINT` taken out), each is refuted by TLC within seconds or minutes, with a
behaviour of the code as the counterexample. `DisableWins` and `DiskStartsOff` are
action properties, `RebuildRetried` is a temporal one, the others are invariants. Below,
the name in brackets is that of the statement.

| Statement | Says | What the code does instead |
|---|---|---|
| `NeverDoubled` (`TaskScheduler`) | `docs/scheduling.md:180-181` | a second process re-arms the row of a running task |
| `DisableWins` (`TaskScheduler`) | `scheduler/scheduler.py:205-206` | the outcome is written over a disable |
| `CeilingHolds` (`AutoReply`) | `docs/autoreply.md:88` | messages accepted together exceed the hour |
| `StopHolds` (`AutoReply`) | `interfaces/cli.py:625-627` | recording a reply switches its watch on again |
| `StopWaits` (`ChatControl`) | `interfaces/telegram_control.py:574-575` | a handler launches a run behind `stop()` |
| `EveryPromptAnswerable` (`ChatControl`) | `interfaces/telegram_control.py:1249` | an answered prompt removes the entry of the next |
| `ResetIsKept` (`ChatControl`) | `docs/telegram-control.md:174` | a run brings the old conversation back |
| `RebuildRetried` (`ConnectionHealth`) | `telegram/client.py:350` | a failed rebuild is never tried again |
| `SentIsRecorded` (`AgentRun`) | `docs/autoreply.md:186` | what was sent is recorded as failed, or not at all |
| `EveryBudgetHolds` (`AgentRun`) | `docs/permissions.md:152` | parallel writes and a new run get past the count |
| `OrphanIsRewritten` (`Transcript`) | `agent/runtime.py:591-592` | a call that was never answered is sent, because another step used its id |
| `LogIsTheTrace` (`Sandbox`) | `docs/sandboxing.md:41` | the deadline cuts off the entry of what was done |
| `GrantLiftsNoDeny` (`Policy`) | `docs/permissions.md:232` | a grant for one namespace opens another that the file denies |
| `LooseningIsBounded` (`Policy`) | `docs/telegram-control.md:238` | a chat lifts a deny of the file by setting it first |
| `RefIsRunning` (`Plugins`) | `plugins/registry.py:39-40` | a new version runs under the commit of the old one |
| `DiskStartsOff` (`Plugins`) | `docs/plugins.md:255` | a directory dropped in under a row left behind is live |
| `OffIsGone` (`Plugins`) | `interfaces/admin.py:527` | the tools of a plugin switched off after the start stay |

Scheduler, policy and runs:

- `reconcile()` rewrites whole rows from a list it read before its awaits, so a
  scheduler that starts beside a working one re-arms a slot that is already being
  run (`scheduler/scheduler.py:120`; `docs/scheduling.md:180-181`). [`NeverDoubled`]
- `_finish` reads the row, awaits and writes it whole, so an edit that lands in
  between is lost although a comment says it wins (`scheduler/scheduler.py:205-222`).
  [`DisableWins`]
- A provider error, a time-out and a cancellation are returned by
  `AgentRuntime.run` as an answer, so a scheduled run that ended so is recorded as
  succeeded (`scheduler/scheduler.py:186`; `docs/scheduling.md:187`), and an
  automatic reply sends the text to the watched chat
  (`interfaces/telegram_control.py:901`; `docs/autoreply.md:184-186`).
- A deny that is set after a task was granted the method does not stop the task: the
  grant is applied without the rules it was checked against
  (`security/permissions.py:479`, `:763`; `docs/permissions.md:232`).
- `RunGrants.covers` compares names without their namespace, which
  `_overrides_matching` takes care not to do (`security/permissions.py:490`), so a grant
  for one namespace lifts a deny of another. [`GrantLiftsNoDeny`]
- The outbound counter is compared before a request and raised after it
  (`security/permissions.py:746`, `telegram/gateway.py:208`), so parallel calls of
  one step all pass; and each run that starts resets the one counter of the engine
  (`agent/runtime.py:177-178`; `docs/permissions.md:152`). `QuietBudgetHolds` names
  these as its exceptions. [`EveryBudgetHolds`]
- An operation that Telegram carried out has no entry in the audit log if its tool was
  cut off, and one of failure if its answer was lost (`telegram/gateway.py:192-206`;
  `docs/autoreply.md:186`, `docs/security.md:158`). [`SentIsRecorded`]
- Arguments are prepared after the write gate, so an operation that does not exist
  uses the gate, and two writes whose preparation takes unequal time may reach
  Telegram closer together than the gap. `WritesSpaced` is about the gate.
- Replacing the policy looks at the bridge's runs only; a scheduled run sees its
  rules change between two calls (`interfaces/telegram_control.py:979-982`).
- A deny set from a chat under the very name of a deny in the operator's file, and
  then lifted from the chat, is lifted for good: `_operators_view` discounts the
  name because the chat now has it (`interfaces/admin.py:182`), although
  `docs/telegram-control.md:238` and the header of `policy.chat.yaml` promise that
  a method the file denies by name stays denied. Resetting such a name pops the
  file's rule from the engine until the next start (`interfaces/admin.py:207`). A
  rule added to the file later is likewise overridden by an older entry of the chat.
  [`LooseningIsBounded`]
- A failed write has already truncated `policy.chat.yaml`: denies that were set from
  a chat are in force until the restart and gone after it
  (`config/policy.py:193`).
- `tgagent config policy <method>` leaves out the overrides set from a chat
  (`interfaces/cli.py:1013`), although `explain` exists so that it "reports what the
  engine will actually do" (`security/permissions.py:807`).

Chats:

- The kill switch does not hold: a reply in flight writes the whole row back with
  `enabled = 1` when it is recorded (`interfaces/autoreply.py:254`;
  `interfaces/cli.py:625-627`). [`StopHolds`]
- The hourly ceiling is compared when a message is accepted and raised when its reply
  has been sent, so messages accepted together all pass
  (`interfaces/autoreply.py:234`; `docs/autoreply.md:88`). [`CeilingHolds`]
- `agent flight off!`, `flight off.` or any unknown word switches flight mode on
  (`interfaces/telegram_control.py:1039-1083`), `flight on 0.01` gets the default
  duration, and `autoreply_stop` of a chat without a watch of its own stops flight
  mode for every chat.
- A conversation reset during a run comes back: when the run ends, it stores the
  conversation it began in over the new one (`interfaces/telegram_control.py:784`;
  `docs/telegram-control.md:174`). `QuietResetHolds` names this as its exception.
  [`ResetIsKept`]
- A prompt that was answered removes the entry of its chat when it resumes, whichever
  prompt is there by then, and the next one's `yes` finds nothing
  (`interfaces/telegram_control.py:1257`). [`EveryPromptAnswerable`]
- An answer names no prompt: a "yes" typed while the previous prompt was open
  and read while the next one is, approves the next
  (`interfaces/telegram_control.py:1240`).
- The time-out of a tool (120 s) is shorter than that of a confirmation (300 s),
  so a prompt is usually cut off by the tool's.
- Under global scope two chats interleave their turns in one conversation; pairs
  still match by id but need not be adjacent, so `compact` may split one
  (`agent/context.py:10-13`). `Accepted` is stated for conversations used by one
  run at a time.

Connection and process:

- A failed rebuild leaves the client disconnected, and `_watch_health` skips a
  disconnected client (`telegram/client.py:297`), so in a lasting outage the failures
  that should set `failed` are not counted further, and what is to be tried again at
  the next tick is not (`telegram/client.py:32-34`, `:350`, `config/settings.py:90`).
  [`RebuildRetried`] A good probe does not reset the count either, which is documented
  as consecutive.
- `serve` waits for a signal and never for `failed` (`interfaces/cli.py:546-561`),
  although whoever keeps the process alive is told to (`telegram/client.py:118-122`).
- `create_application` and `async with Application` do not stop what they have
  started when a later stage fails: the storage stays open and the client
  connected. `stop()` has no `try`/`finally` between its stages.
- A handler in flight when the bridge stops starts a run that nobody knows of
  (`interfaces/telegram_control.py:574-577`) [`StopWaits`], and the farewell of a
  cancelled run has no deadline, so a dead socket holds the stop.

Sandbox:

- A worker that dies while one of its operations is in the gateway, or whose result
  is longer than the reader's buffer, is reported as "Could not start the sandbox
  process" (`sandbox/subprocess_runner.py:180-181`), without the trace of what it
  did: `drain()` raises a ConnectionResetError and `readline()` a ValueError, and
  both are taken for a failed start.
- The log is appended to when the answer of an operation is back, so what the deadline
  cuts off may have been done and is not in it (`sandbox/subprocess_runner.py:249-267`;
  `docs/sandboxing.md:41`). [`LogIsTheTrace`] The model is given a number of calls, not
  the log (`sandbox/base.py:48-65`), and for a program that came to its end the number
  is the worker's own.
- `max_concurrent_rpc` is documented as a limit per execution
  (`config/settings.py:300`), but the semaphore is the backend's: executions share
  it, and one execution never has more than one call in flight.

Plugins:

- The first `plugin off` after a start leaves the plugin's tools in place: the tools
  registered at the start are not in `_plugin_tools` (`app.py:89-94`, `:223`;
  `interfaces/admin.py:527` "Its tools are gone from my list", `docs/plugins.md:75`).
  [`OffIsGone`]
- An installation moves the directory to its place before it writes the row; if the
  write fails, the new version runs under the row of the old one, whose `ref` is
  meant to say what is running (`plugins/install.py:116`, `plugins/registry.py:39-40`).
  [`RefIsRunning`]
- A removal that is cut off, or beside an installation, leaves an enabled row without
  a directory; a directory dropped in there by hand is live at once
  (`plugins/loader.py:194`; `docs/plugins.md:255`). [`DiskStartsOff`]
- `plugin remove` of a shipped plugin that has no row answers that it was switched
  off, and it stays on (`plugins/install.py:151-161`, `interfaces/admin.py:507`).
- A directory dropped by hand cannot be switched on, although the documentation says
  how (`docs/plugins.md:255`, `plugins/loader.py:394`).
- A repository named like a shipped plugin that has no row yet is accepted
  (`plugins/install.py:105`), and its code is never loaded.
- Two installations at the same time can exceed `max_installed`; an installation's
  reload may change the tools of runs that started during its clone
  (`interfaces/telegram_control.py:980`).
- A plugin's call that is cut off by its time-out leaves no audit entry, and one that
  returns `is_error` is audited as succeeded (`plugins/loader.py:319-343`).

Language model:

- `stream()` never retries (`llm/retry.py:3`, `config/settings.py:143`,
  `docs/llm-providers.md:112` speak of requests in general).
- The `Retry-After` of a service is capped by the longest delay, although the
  docstring of `retry.py` says it always wins, and the OpenAI adapter does not read it.
- A stream that ends early, or with `length`, yields an answer of what has come; a
  call with half its arguments is passed on as an error, one with none as `{}`.
- A streamed answer without ids numbers its calls `call_0`, `call_1`, ... in every
  step (`llm/providers/openai_provider.py:161`), and the repair of a history resolves a
  call by its id, so a call whose results were lost passes for answered when a
  later step has the same ids, and is sent (`agent/runtime.py:591-603`).
  [`OrphanIsRewritten`]
- A reset leaves the setting in force until the restart; a scheduled run is not seen
  by the refusal to change a setting during a run, so its client may be closed
  under it. `NewestIsUsed` makes the difference.

## 8. Abstractions, and what is not modelled

- A tool call stands for one operation. A tool that pages through Telegram makes
  several requests, each one a pass through the same gate. Whether the arguments of
  a call can be prepared is a choice; which arguments a method takes is not modelled.
- A chat is listed under the spellings an operator may write and called under those
  a model may use; that a number and an invite link of one chat are different
  spellings to the lists is as in the code.
- Schedules are periods or moments in clock ticks: cron fields, time zones and
  daylight saving are not modelled; that the next run is later is all that the
  scheduler relies on, and is what `NextRunIsLater` proves of the abstraction.
- Texts, prompts, peers, usernames and audit details are reduced to what a
  decision depends on: whether the sender may command the agent, whether a chat
  is barred, what a policy says of a method.
- SQLite statements are atomic and a commit survives a crash; a statement may
  fail where the code handles it.
- Liveness of runs of the agent is the time-out's; a provider may answer anything.
- A failed write of `policy.chat.yaml` keeps a prefix of the sorted entries, one of
  `settings.local.json` or `plugins.json` nothing; a file that cannot be parsed counts
  as empty, as the loaders have it. Malformed files of the operator stop the start
  and are left out.
- Of a service only what its wire format demands is modelled: which turns may follow
  which and that every call has its result. Whether a service accepts a window that
  begins with a turn of the assistant is not decided here.
- Messages of Telegram are numbered by date; equal dates, edits of texts and the
  projection to dictionaries are left out.
- What the kill of a `docker run` client does to its container is Docker's business
  and nothing is claimed of it. The in-process backend is for tests.
- Not modelled, because no state is shared between steps of several actors: the
  sign-in dialogue; the conversions of `entities.py`, `schema.py` and `serialize.py`; token
  estimates and cache marks; proxy parsing and the building of a client; injection
  scanning, redaction and logging; settings, prompt and help texts; the listing
  commands; the code of the plugins that ship.
- Not modelled, because they were less urgent: migrations, memory facts and audit
  queries; the status message of a run (whose `close()` cancels an edit in flight);
  remembered approvals of the terminal; the resolver's cache and the retention of
  downloads.

## 9. Plan

Done, in this order of importance: scheduler, automatic replies, connection,
control, runs and gate, transcript, sandbox, policy, plugins, language model,
reading, the life of the process; proofs of all of them. Next:

1. An abstract specification of one operation of the account (asked, sanctioned,
   carried out, recorded) that `AgentRun` implements, with `Sandbox` and the calls of
   plugins as its callers.
2. Migrations with two processes, memory facts, audit queries; the status message.
