# VaultFleet: verification project

VaultFleet is a fleet backup manager. A **Master** keeps policies, storages, agents, commands and
task history in one SQLite database and serves a web UI; an **Agent** runs on every backed-up host,
holds one WebSocket to the Master and runs restic, rclone, docker and database dumps locally. The
protocol between them is a set of JSON messages (`pkg/protocol/message.go`) over a connection that
either side may lose at any time. This directory holds TLA+ modules of that system, the TLC
configurations that check them and TLAPS proofs of what matters most. Paths below are relative to
the repository's root.

## Inventory

### Master

| Component | Code | State | Operations | Talks to |
|---|---|---|---|---|
| Durable command service | `internal/master/commands/service.go`, `api/tasks.go`, `api/snapshots.go` | rows of `agent_commands` and `task_histories`, `dispatchMu` | create, dispatch, redeliver, cancel, delete, time out, complete, acknowledge, refresh snapshots | Hub (send), read loop (results), API requests |
| Connection registry (Hub) | `ws/hub.go`, `ws/safeconn.go` | one entry per agent: connection, online flag, last seen | add, remove if current, mark online, mark offline if stale, send | handlers, monitor, every sender |
| WebSocket handler | `ws/handler.go`, `api/agent_state.go` | one goroutine per connection, `capabilityDispatches`, version cooldown | accept, read loop, dispatch by message type, cleanup | Hub, database, event bus, command service, rollouts |
| Heartbeat monitor | `ws/monitor.go` | none (a copy of the Hub per scan) | mark silent agents offline, publish `AgentOffline` | Hub, event bus |
| Response waiters | `ws/hub.go` | a channel per (agent, message id) | send and wait, hand over a response, time out | API requests, read loop |
| Agent rollouts | `agentrollout/service.go`, `api/agent_rollouts.go` | `agent_upgrade_rollouts` and items | create, advance, cancel, observe a heartbeat version | Hub (send and wait), read loop |
| Policy synchronisation | `api/policy_pusher.go`, `api/policy.go`, `cmd/master/main.go` | `backup_policies.synced`, policy_push commands | push, supersede, retire, acknowledge, reconcile | command service, event bus |
| Task results and snapshots | `api/snapshots.go` | `task_histories`, snapshot tables | record results of commands and of scheduled runs | command service, event bus |
| Task logs, progress | `tasklogs/buffer.go`, `ws/progress_cache.go` | lines per (agent, message), progress per message | add, page, complete, expire | read loop, API |
| Notifications | `notify/*.go` | none (configs in the database) | one goroutine per event and per channel | event bus |
| Policies, storages, enrollment | `api/policy.go`, `api/storage.go`, `api/agents.go`, `api/enroll.go` | tables | check, then write | database, event bus |
| Restore API | `api/restore.go` | none | resolve a selection, preflight, create the command | agent capabilities, command service |
| Master backup | `backup/`, `api/system.go` | `.import-staging.zip`, `backup.zip`, `rollback/` | upload, confirm, install at the next start | file system |
| Storage checks, users, tokens, audit, browsing, downloads, diagnostics, UI | `storagecheck/`, `api/*.go`, `web/` | tables, files | requests | database |

### Agent

| Component | Code | State | Operations | Talks to |
|---|---|---|---|---|
| Connection client | `agent/connect/client.go`, `heartbeat.go`, `cmd/agent/main.go` | current connection, backoff | dial, read, send, heartbeat, flush on connect | Master |
| Message handler | `agent/handler.go` | policies, `scheduledQueue`, `scheduledPending`, pending results file | one handler per message type | task manager, store, scheduler, executor |
| Task manager | `agent/task_manager.go` | three slots, map of running tasks | start, cancel | handler |
| Policy store, scheduler | `agent/policy/store.go`, `agent/scheduler/` | JSON files, cron jobs | save, load, update, remove | handler |
| Executor, dumps, docker | `agent/executor/`, `agent/database/`, `agent/docker/` | temporary files, containers | the flow of one job | external commands |
| Snapshot cache, task log batching, self-update, manifest, file browser | `agent/*.go`, `agent/selfupdate/`, ... | files | per request | handler |

### What is hard, and what makes each part correct

* **Commands.** A row is moved by dispatchers, cancel requests, the timeout scanner, snapshot
  refreshes and late results, each in its own transaction, with sends to the network between them.
  Correct: a long-running task is handed over at most once; once an outcome is recorded it is not
  rewritten; the two tables never contradict each other; a task cancelled in the queue is not run;
  every command ends.
* **Registration.** Up to one handler per connection ever opened and the monitor write the same
  entry and the same database column. Correct: an entry belongs to the handler that serves it; a
  stale handler cannot unregister a newer connection; an outage is announced once; an agent that
  stays connected ends up online everywhere.
* **Rollouts.** The coordinator runs on whatever goroutine triggers it, unserialised, and waits for
  acknowledgements in the middle. Correct: canaries before batches, one batch at a time, a stopped
  rollout starts nothing, a timed-out item stops it, it survives a restart.
* **Agent tasks.** Slots, a queue with a worker that parks itself, results that are sent, persisted
  and flushed. Correct: backup and verification exclude each other, a scheduled run is queued once
  and runs, every result reaches the Master or stays on disk.
* **Policies.** Staged files with rollback on the agent; supersession and acknowledgement on the
  Master. Correct: the last policy ends up on the agent and `synced` says so truthfully.
* **A job.** A dozen external commands, each of which may fail or be killed. Correct: success means
  that all was stored; a marker, a verification or a hook never tells more than was done; temporary
  files and passwords on disk are gone when the job ends.
* **A restore.** A selection by any of several ids, data first and containers after, a cancellation
  anywhere. Correct: what the preflight and the result say is what happens.
* **Checks and writes.** Handlers check what they read and write it later. Correct: tokens are used
  once, a policy is one that its checks allow, a stored password stays with its source.
* **Logs and the Master's own data.** Lines out of order, bounded buffers, a crash between any two
  file operations. Correct: no loss is untold; the Master never opens half of a data directory.

`PROJECT.json` lists every component with its status, and every hazard at the line where it bites.

## Modules

| Module | Models | Used by |
|---|---|---|
| `TaskContract` | what a long-running command promises its user (abstract) | instantiated by `CommandService` |
| `CommandService` | durable commands: dispatchers, cancel and delete requests, timeout scanner, snapshot refreshes, read loops, restarts | `CommandServiceProofs`, `MCCommandService` |
| `AgentHub` | registration of one agent: handlers of its connections, monitor, event bus, dispatch on connect and on capabilities | `AgentHubProofs`, `MCAgentHub` |
| `AgentRollout` | batch upgrades: creation, overlapping runs of the coordinator, acknowledgements, heartbeats, cancel, restarts | `AgentRolloutProofs`, `MCAgentRollout` |
| `PolicyStore` | the agent's policy files and cron jobs; a push as stages that may each fail, with rollback | `PolicySync` |
| `PolicySync` | edits, the pusher, push commands, the connection, acknowledgements, reconciliation, composed with `PolicyStore` | `PolicySyncProofs`, `MCPolicySync` |
| `AgentTasks` | task manager, scheduled queue and worker, the client and the delivery of results | `AgentTasksProofs`, `MCAgentTasks` |
| `DatabaseDump` | logical dumps into a staging directory | `ArchiveJob` |
| `ArchiveJob` | artifact naming, planning and writing of an archive, upload | `BackupJob` |
| `BackupJob` | a backup or a verification from command to result, composed of the two above, with crashes | `BackupJobProofs`, `MCBackupJob` |
| `RestoreRequest` | selection, preflight and restore on the Master | `DockerRestore` |
| `DockerRestore` | the restore on the agent: data, then each container by its docker commands, composed with `RestoreRequest` | `ServiceProofs`, `MCDockerRestore` |
| `Enrollment` | the agents' rows and their tokens | `PolicyConfig` |
| `PolicyConfig` | policies and storages under requests that check and write in two steps, over `Enrollment` | `ConfigurationProofs`, `MCConfiguration` |
| `TaskLogs` | the live log of one task: numbering, buffer, rows, pages, expiry | `ServiceProofs`, `MCServices` |
| `MasterRestore` | upload, confirmation and installation of the Master's own data | `ServiceProofs`, `MCServices` |

In every module a database transaction, a query, a critical section of a mutex, a file operation or a
write to a connection is one step, because that is the granularity at which others can interfere.
A goroutine is a program counter (`dpc`, `pc`, `step`, `at`) and what it holds in local variables;
an action is the code between two points where another goroutine may run. An operator whose name
ends in `Mutant` is the operator that follows it with a plausible bug; no action uses one.
`PROJECT.json` pairs each property with a mutant that violates it.

### CommandService

`status`, `ctype` and `expired` are columns of `agent_commands`; `task` is the status of the row of
`task_histories` that a long-running command owns. A dispatcher is a call of `DispatchPendingForAgent`
or `DispatchNewPendingForAgent`: it waits for `dispatchMu` (`dreq`), queries (`todo`), and for each
row marks it running, sends it, and records a failure; a crash (`MasterRestart`) may fall between any two
of these. Cancel requests have steps of their own (`cancel`), the scanner works on what its query
read (`scanTodo`, `scanLive`, `scanCancel`), and a refresh request waits on a channel (`refresh`,
`chan`). The agent is the environment: it may answer any number of times, late, or never.
`delivered` and `resent` are history variables, which no action reads.

`TaskContract` has one variable per command, the state its user sees, and says how it may move:
waiting, handed over, ended with an outcome, withdrawn before it was handed over.
`ImplementsTaskContract` is that specification with the mapping given in `CommandService`.

### AgentHub

`entry`, `online`, `recent` are the agent's entry in `Hub.agents`; `closed` the closed connections;
`pc` where each handler is: `HandleWebSocket` (accepting), `readLoop` (serving), `cleanupConnection`
(leaving). The monitor scans a copy and then acts on it. The agent's side is only its connections
and heartbeats. Time is a flag: `recent` falls with a `Silence` longer than the threshold.

### AgentRollout

`rollout`, `item`, `batch`, `overdue` are columns of the two tables. A *worker* is one run of
`AdvanceRollout` or of `HandleHeartbeat` around it; `pc` names the query or update it is about to
make, so that the two counts, the two queries of `nextItems`, the update of an item, the failure of
the rollout and the wait for the acknowledgement are separate steps, as in the code. A run that
waits in `SendAndWait` takes the reply or a timeout. `sent` and `confirmed` are history variables.
`Faults` selects what may go wrong in an instance: refusals, lost messages, failed installations,
disconnections, agents skipped by the preflight, cancels.

### PolicyStore and PolicySync

A policy is known by the version its row had (`updated_at`). On the agent each policy has a file
(`store`) and jobs (`jobs`), and all share `rclone.conf` (`conf`) and `.restic-password`
(`password`). A push is a function of that state: `PushAccepted`, or one of `PushRefused` (each
stage may fail, and the rollback follows), `PushUnrestored` (parts of the rollback fail too, which
`restoreConfig` and `restorePolicy` only log: a file or the password may be left torn, new or gone) or
`PushInterrupted` (the agent stops in it). `unrestored` remembers the policy such a rollback was of.
On the Master
`run` says which statement each goroutine is at: the event bus calls the pusher on the goroutine that
publishes, so HTTP handlers and read loops run it under `pusherMu`, and the dispatch under
`dispatchMu`. `down` and `up` are what is on the connection; a disconnection loses both. A new
connection dispatches what is due, and so does the first heartbeat on it that tells capabilities
(`Heartbeat`).

### AgentTasks

A job is a record in `jobs` with its step: it runs, sends its result, keeps it in
`pending_results.json` when it cannot, and then frees its slot and id. The worker of the scheduled
queue, the cron jobs and the read loop start jobs; the client dials, flushes the file and reads one
message after another. A connection that broke is `dead` until the read loop sees it: a result
written to it may be taken without an error. Reading the file when a result is added to it, writing
it, and writing back what a flush could not send may each fail, which the code only logs; the write
truncates first, so one that fails leaves the file torn. `owed` is a history variable: results that
ended and were neither received nor lost with a connection, in a restart or by such a failure of the
file.

### DatabaseDump, ArchiveJob, BackupJob

`step` is the statement of `runBackupForPolicy` or `runBackupVerificationForPolicy`; `dumpStep` and
`archStep` are the same for `Prepare` and `RunArchiveJobWithProgress`, which the job calls. Every
external command ends well or badly, badly once the context is done, and one that fails leaves
anything it could. What is stored says which job made it (`made`), so that a property can ask
whether a result of success is about this job. Files may appear, grow, shrink and vanish between the
walk, the header and the copy. The deferred `Close` of an archive may lose its footer without an
error: it is then `torn`, which is not stored.

### RestoreRequest, DockerRestore

The Master's half resolves a selection over the snapshot's Docker metadata and makes the command;
the preflight, which changes nothing, is an operator (`MasterErrors`, `AgentErrors`) that can be
compared with what the restore then does. What a policy writes to is its storage, its path and its
password; `history` is what the row of the backup still knows: whether there is one, whether it names
its policy (a command's does, a scheduled run's does not), whether it holds the manifest. `Owners` are
the policies `restoreSourcePolicy` may take (any of the agent's, without the row or its policy),
`Payload` what it makes of one, and `Origin` where and how the snapshot was written. The agent's half
is `job`: `at` is the command it is about to run, `files` the Compose files on the host, before and
after the data came back; its password is that of the policy last pushed to it (`OwnPassword`),
because the restore does not write its own. `Succeeds` and `Fails` are how a docker command ends; a
killed one may have been carried out.

### Enrollment, PolicyConfig

Handlers that are one conditional UPDATE are one step. `UpdateTags` and the handlers of policies and
storages read and check in one step and write in another; `requests` holds what they have read.
A source needs the agent's row and a capability only if it is a docker or a database source
(`Supported`). `stale` and `overlapped` remember whether a row was saved over a newer one and whether two requests
have been at work at once: three properties hold only without one of these, and say so.

### TaskLogs, MasterRestore

Lines of a log carry the emitter's number (`seq`) and an identity of their own (`id`), because a
restarted agent numbers from one again. The buffer updates memory under its lock and rows after it
(`writing`); a query that orders rows gives each its place, the number of rows up to it, and a page is
a set of places. The query that loads a log before a line is added may fail, and the line then begins
an empty entry. In `MasterRestore` each entry of the data directory is `none`, `old` or `new`; an
uploaded archive is `torn` while it is written, `whole`, or `unfit` (it passes `ValidateBackupZip` and
`extractZip` refuses it); each file operation of the start is a step, a crash may follow each, or fall
within the writing of the rollback archive (`CutRollback`), and the server still serves for the 500 ms
between a confirmation and its exit. `MCServices` checks the two in one
run; they share nothing, and a behaviour is of one of them.

## Runs

| Run | Question | Instance |
|---|---|---|
| `long_command` | do the two tables agree, is `TaskContract` implemented (a task is sent at most once), does the command end? | one selective restore (the type with a rewrite at dispatch), two dispatchers, a restart |
| `short_commands` | is a recorded outcome ever rewritten? | a policy push and a snapshot refresh, the two types that may be sent again, batches of one, one deadline |
| `agent_hub` | who owns the entry, what is announced, does everyone end up agreeing, is a command created around a reconnection dispatched? | two connections, dialled in order; one silence, or one restart and one command |
| `agent_rollout` | what do overlapping coordinators preserve, does the rollout end? | three agents, two canaries, two workers; refusals and losses |
| `agent_rollout_serial` | what holds when they do not overlap? | four agents, one canary, batches of two, every fault, one restart, one agent that may be offline at the start |
| `rollout_overlap` | a promise that overlapping coordinators break | the smallest instance that shows it |
| `policy_sync` | does the last policy reach the agent, is `synced` truthful, does a refused push restore what was there? | two policies that a request creates, edits or deletes in two steps, a read loop, a fault of any kind, a redelivery at a heartbeat; four pushes; 1.6 million states |
| `agent_tasks` | one writer at a time? is the queue served? is a result lost? | two scheduled policies, one command of each kind; four cron jobs, deliveries and faults, at most two of the first, two of the second, one fault |
| `backup_job` | what do success, the marker, a verification and the hooks mean when anything may fail? | six policies (restic with dumps, plain, zip, tar, docker, verification), two jobs in one repository |
| `docker_restore` | do selection, preflight, items, status and containers agree? | four sources, 15 requests, backups with and without a row, its policy and its manifest, two policies and two storages, two edits of these or of the capabilities, a fresh or a used host; 1.1 million states |
| `configuration` | what may overlapping requests store? | two agents, four tokens, one tag update; two requests at once of three, two policies, three sources |
| `services` | is a lost line told, is the data directory ever half? | three lines of two streams, two kept, one per page, a failing write or load; three entries, two uploads (whole, unfit or still being written), two crashes |

**Bounds, and why they are enough.** Commands do not interact except through the order and the limit
of the dispatch query, so one long-running command with every actor that can touch it is the
interesting instance, and two short ones with a limit of one cover the queue. Two dispatchers
are enough to contend: `dispatchMu` lets one through. For rollouts, two canaries are the
least for which two read loops complete an item at the same time; four agents give a canary, a full
batch and a second batch; cancels are left to that run, where coordinators do not overlap, and to
the theorems, where they do. Two policies are the least for which one waits for the other's
acknowledgement, or shares its password file. Two ticks and two deliveries, less one when there is a fault, let a command, a cron
verification and a queued run compete for the slots while another policy waits. Two jobs let the
second find what the first left, and `keep_last` remove a snapshot. Three requests, two at once, are
two that overlap and one that builds on their result. A log that keeps two lines, of which a page
holds one, drops lines and needs several reads. A restart may be repeated, but it keeps nothing
except rows and files, so one restart followed by any behaviour reaches what several reach; the
installation of the Master's data, where a second crash does meet what the first left, has two. The
names of all bounds begin with `Max`; the proofs hold for every value of them. `agent_hub`, `agent_rollout` and
`agent_tasks` take interchangeable connections, workers and policies in the order of their first
use, by the action constraints of their configurations (a symmetry set is unsound for liveness);
no fairness condition asks for a step that this order removes. `configuration` uses the symmetry of
requests, policies and the two database sources, which no action tells apart.
`CHECK_DEADLOCK FALSE` everywhere: requests may cease, and a system whose commands, connections and
jobs are all over stops.

**Fairness, and why the code justifies it.**

* `CommandService!Fairness`: time passes and the scanner (a ticker in `cmd/master/main.go`) runs.
  Nothing is assumed of agents, networks, dispatchers or users. A refresh request has no fairness:
  the deadline of its command covers it.
* `AgentHub!Fairness`: a handler goroutine that can take a step does, the monitor's ticker runs, an
  agent that is connected sends heartbeats and notices a broken connection. Reconnecting is not
  assumed: the liveness properties speak of agents that stay. `QueuedIsDispatched`
  excludes the behaviours with a silence: after one, the code leaves a command waiting for the next
  connection (listed as a hazard), and its deadline ends it.
* `AgentRollout!Fairness`: goroutines run, deadlines pass, an agent answers what reaches it,
  installs what it accepted, reconnects and sends heartbeats. `RolloutEnds` also needs that no
  installation fails and that the Master does not restart: both leave a running item to `AdvanceAll`,
  which nothing calls.
* `PolicySync!FairSpec` and `AgentTasks!FairSpec`: some goroutine that can run does, the agent dials
  until it is connected and reads what it receives. Edits, faults and cron jobs are bounded and
  nothing is asked of them. `Converges` excludes a torn policy file, which the agent never replaces.
* `MCServices!MCSpec`: the process manager starts the Master again (`restart: unless-stopped` in
  `docker-compose.yml`), and a start goes on.

## Findings

`rollout_overlap` is listed in `PROJECT.json`: a rollout is recorded as succeeded while an agent is
still to upgrade, because two runs of the coordinator decide on separate queries (for the same reason
two batches can run at once). `SerialInv`, which contains the negation, is a theorem for one worker
(`OneCoordinator`): that tells where the code must be repaired.

Other places where the code does less than a text or a name beside it says. Each has its property,
and a configuration that TLC ends with a counterexample; they are kept out of `PROJECT.json`, whose
passing runs exclude exactly these behaviours:

| Configuration | What the code does |
|---|---|
| `MCCommandServiceTimeoutCancel.cfg` | a command that starts between the scanner's query and its transaction is timed out without a `cancel_task` |
| `MCAgentHubGone.cfg` | after a restart of the Master, an agent that never returns stays `online` in the database |
| `MCAgentRolloutStopped.cfg` | after an item failed, the agents next in the same loop are still asked to update |
| `MCAgentRolloutOverdue.cfg` | an item past its deadline stays running: nothing looks (nor does anything resume a rollout when the Master starts) |
| `MCAgentRolloutTwo.cfg` | two concurrent requests put one agent into two active rollouts |
| `MCPolicySyncEncryption.cfg` | the push of a policy without encryption removes the password file of the agent's other policies, which are then backed up plain |
| `MCPolicySyncPlain.cfg` | a refused push of such a policy removes the file too, after the rollback restored it |
| `MCPolicySyncRollback.cfg` | a refused push whose rollback fails too (`handler.go:661-671, 678-696` only log it, and `os.WriteFile` truncates) leaves the policy it was to replace torn or new; `RefusedPushRestores` then speaks of the other policies |
| `MCBackupJobTorn.cfg` | the errors of the deferred `Close` of an archive are dropped (`executor.go:592-597, 671-674`): a job succeeds, without a warning, with an archive that cannot be read. `SuccessIsComplete` speaks of archives whose footer was written |
| `MCDockerRestoreGaps.cfg`, `PreflightForeseesFiles` | `composeEnvironmentError` is silent while the Compose file is not on the host (`docker.go:844`): the preflight passes, the data bring the file back, and the source fails after (`docker.go:668-671`) |
| `MCDockerRestoreGaps.cfg`, `ReadsItsRepositoryAlways` | the row of a scheduled backup does not name its policy (`createTaskHistory`): its restore takes any policy of the agent, with its current repository; without a manifest, the current repository of an edited policy (`restore.go:364-406`) |
| `MCDockerRestoreGaps.cfg`, `UsesItsPassword` | a restore writes no password file (`handler.go:1620`): on an agent with none, or with that of another policy, the encrypted repository cannot be read |
| `MCServicesUnfit.cfg` | `ValidateBackupZip` accepts what `extractZip` refuses (an entry `backup.zip`, `backup.zip/x` or `.`, a checksum that fails): once confirmed it ends every start, and is never installed. `backup/restore_test.go:287` shows such an archive |
| `MCBackupJobNames.cfg` | `uniqueDumpFileName` (`database/dump.go:433`) numbers a repeated name without looking the numbered one up: the databases `a b`, `a_b` and `a_b-2` are dumped to two files, where `openspec/changes/add-database-backup-sources/specs/database-backup-sources/spec.md:59` asks for one each; so are two sources with one output name. `DumpsKept`, within `BackupInv`, is a theorem for policies whose names are apart (`NamesApart`) |
| `MCConfigurationTags.cfg` | an update of tags saves the row it read, enrollment token included: a token may be exchanged twice |

Without a configuration, but in the comments of the properties that exclude them: lines of a log that
overtake one with a smaller number, or use numbers again after a restart of the agent, make
`persistLine` delete rows untold, and so does a line that begins an empty entry because the rows could
not be read (`TruncationIsTold`, `DroppedOnce`); two starts of the Master within a second give
their rollback archives one name (`OriginalIsKept`); a confirmed upload that was still being written
ends every start at `extractZip`; an archive named by `{{date}}` or `{{time}}` alone is overwritten
without a warning (`OverwriteIsWarned`); a result written to a connection that is already dead counts
as sent, and a result is lost when `pending_results.json` cannot be read or written, with all that the
file held if the failing write truncated it (`ResultsAreKept`); of two requests at once, one may delete the storage that the other's
policy uses (`StorageIsThere`).

## Proofs

The theorems are of the form `Spec => []Inv` or `Spec => [][A]_vars` and hold for every value of the
constants that satisfies the named assumptions of the modules: any sets of commands, agents,
dispatchers, connections, rollouts, workers, policies, requests and files (finite where the code
counts or orders them), any limits, any number of restarts and all the faults. Two have a further
premise: `OneCoordinator`, one worker; `StoredCorrect`, that agents keep their capabilities.

* `CommandServiceProofs`. That a command is not sent twice is not inductive: it
  rests on what dispatchers hold between two transactions. `DispatchInv` says that one dispatcher at
  a time is past `dispatchMu`, that the rows it holds are in the state its query saw or were taken
  by someone else, and that a long-running row it may still send was not delivered. From it follow
  `SentAtMostOnce` and `DeliveredStaysOut`. `TaskMirrorsCommand` is inductive with the types.
  `OutcomeIsFinal` and `WithdrawnStays` are action properties from the same invariants.
  `Implementation` proves the refinement: `Init` implies the contract's, and every step is a step
  of the contract or a stutter.
* `AgentHubProofs`. `HubInv` joins the types, "a replaced connection is closed", "the entry's
  handler is still serving it", and "each online period is announced, or owed by exactly one
  actor, at most once". The last needs the first three: it is the reason why only one handler can owe
  an announcement.
* `AgentRolloutProofs`. `RolloutInv` says, for each program counter, what the worker may still rely
  on of what it read: that nothing waits when it is about to record success or failure, that the
  canaries are confirmed when it holds an item of a batch. `StaysGood` is the heart: it holds
  because, of a rollout that exists, batches never change, confirmations only grow, and pending items
  only disappear (`NextKeeps`). From it follow `CanariesGoFirst` and `NothingLeftWaiting` with any number
  of overlapping runs, which is more than the code's tests try, and the outcome of a rollout is final.
  `OneCoordinator` adds, for one worker, what its queries still mean when it acts on them: nobody else
  chooses a batch or plans an item between its two counts (`ChoiceInv`, `PlannedInv`).
* `BackupJobProofs`. Layers, each on those before. Where a job may be, and what each step may change
  (`BaseInv`, `BackupSteady`); the order of the times at which jobs ran (`ClockInv`), on which the
  marker rests, since data is replaced only by data of a later job; what the steps of a backup have
  done so far (`RunInv`), from which `BackupComplete` and `HooksCorrect` follow; the checks of a
  verification; the archive. Its sizes would be sums over files, which need induction: `SizesInv`
  says instead that the files still to be written have places between what is written and the total,
  no two of which overlap. That dumps are kept needs the place of `Prepare` in the databases of the policy
  (`PlaceInv`): the attempt to prove it showed that it does not hold for all names.
* `AgentTasksProofs`. One writer at a time rests on slots that are exactly those of the jobs, and
  that on ids that name one job each: a command's id because a job of its kind is refused while one
  runs, a scheduled id because it is new (`IdsNameJobs`, `IdsAreFresh`). The queue's invariant is
  inductive with the types, and that no result is lost, but with a connection, in a restart or by a
  failure of its file, needs that a flush is taken by a client in `flush` and that only it writes the
  file then.
* `ConfigurationProofs`. Every operation on a row is an instance of `RowChanges`, for which
  `OneRow` proves once that tokens stay distinct, exchanged and dead; the policies' invariant says
  that what a request holds was checked as a whole (`Good`), the storages' that while requests do not
  overlap each knows that its storage is there. `StoredCorrect` joins these with the types and
  `SupportInd`: the source of each row, stored or about to be, is one that its agent can run. That is
  so under `Lasting`, a premise on the steps of agents: a heartbeat may take a capability away from
  under a policy, and an update of tags may bring back a row that was deleted, with what the agent could do
  then. The code guards against neither.
* `PolicySyncProofs`. Two layers. `IInv` has the types, the two locks (a goroutine is at `ensure` or
  `send` exactly when it holds the mutex), at most one active command of a policy, and jobs that
  equal the policy files unless one is torn; each end of a push is a lemma about one record
  (`AcceptedMatches`, `RefusedKeeps`, `UnrestoredKeeps`, `InterruptedKeeps`). On it rests `VInv`, which orders versions
  along the path of a policy: the row, the goroutine under `pusherMu`, the active command, the
  connection in its order, the agent. A version is never above one that is behind it on that path,
  and what an id is remembered for is what was sent under it. `Shrinks` covers the steps that only
  lose versions, so that only the lookup, the creation, the send and the acceptance need a proof of
  their own. `SyncedIsAccepted` and `AgentNeverGoesBack` follow. What makes it inductive is that a new
  version retires the active command in the same critical section that creates the next
  (`EnsureVersions`).
* `ServiceProofs`, of three systems that share nothing.
  *Docker restore:* the invariant says where the job is: after the data, its command's paths are
  restored and its source is one of the command's, whose paths those include. Every docker command is
  an instance of `Commands`. A selection is a sequence of places in the metadata, distinct and in order
  (`RequestCorrect`); the repository of a restore is the snapshot's where the row of the backup names
  its policy and holds its manifest (`RepositoryCorrect`), which rests on a policy's path and password
  never changing: only its storage is edited. `BatchCorrect` counts the items of a batch, as sets of places, against the
  status it reports.
  *Master's restore:* `RestoreInv` is inductive as it stands: data is taken apart only while
  `backup.zip` is whole and the data before is archived. That the restore ends is model-checked, for
  archives that can be extracted.
  *Live log:* `InOrder`, while no line has overtaken another, says what memory, the pending
  transaction, the rows and the reader know of each other: a row that the entry does not hold is older
  than its first line and counted, the transaction deletes only rows whose loss the line it inserts
  records, the last row, from which a new Master takes the counters, has recorded every loss, and the
  reader has seen what is behind its cursor. Rows come in the order of their ranks (`Place`), and by
  the pigeonhole principle there is one of each. The attempt showed that the bound on the dropped lines that
  the types had held was a fact of the instance: reloads may count a line twice when lines overtake each
  other. `DroppedOnce` says when they do not.

**Only model-checked.** Liveness under fairness (the prover has no rules for `ENABLED`):
`EventuallyTerminal`, `PresenceSettles`, `QueuedIsDispatched`, `RolloutEnds`, `Converges`,
`QueuedRuns`, `RestoreEnds`. Where an argument would need induction over data, which the installed
provers cannot do, the models are stated with sets, places and ranks instead of sums and recursive
operators.

## Not modelled

* Errors of the database, of encoding and of queries, where the code returns them and changes nothing.
  Those that it only logs are modelled where a property rests on them (a line that is not persisted, a
  log that is not loaded before a line is added, which loses rows: `buffer.go:275-278`); not modelled are
  a completion that is not marked in the rows and an expired log that is not deleted. SQLite serialises
  writers; each transaction is atomic.
* A second read loop that adds to a log: the handler of a connection just replaced may still be in
  `persistLine`, and the row of a line dropped meanwhile, a whole buffer later, would come back.
  `ReaderMissesNothing` speaks of a client of the API that pages; the UI asks for the first page only
  (`tasks-page.tsx:808`).
* Two imports that write the staging file at once. The local archive of a job in the artifacts directory
  is never removed by the code, and is not among what `StagingRemoved` says is gone.
* Edits of a storage other than its root (endpoint, credentials); the `rclone.conf` that a restore writes
  while other tasks use it; what a host changes between the preflight and the restore, its own
  environment files included.
* The content of messages, names, versions and payloads, apart from what the properties tell apart
  (the type of a command, whether a restore is selective, whether a version is the target).
* Selection of rollout targets by tag, audit rows, the `version_info` gate (`HasActiveItem`).
* Notifications (one goroutine per event and channel, no state), the progress cache (display only),
  the agent's snapshot cache (repaired by the next listing), the snapshot tables (upserts from a
  list), storage checks (calls of services whose last answer is displayed).
* Users, API tokens, authorisation and audit: request-local checks over one table each.
* External programs: restic, rclone, docker, pg_dump and mysqldump end well or badly. Parsing their
  output, expanding templates character by character, and the layout of files are left out.
* Components with status `not_modelled` in `PROJECT.json`: the above, the web UI, installers.

## Plan

Every component whose state is written by more than one actor has its module. What could follow:

| What | Why |
|---|---|
| `CommandService` composed with `AgentTasks` over a lossy connection | end to end: the Master's outcome is the agent's, or a timeout or a cancel |
| the snapshot cache, the progress cache | a `Sync` that races a `Put`; a message after the result |

## Running

    tlc -config MCAgentRollout.cfg MCAgentRollout
    tlapm AgentRolloutProofs.tla

Each passing run ends within five minutes on two workers, most within one. The run marked
`violation`, and the configurations under Findings, end with a counterexample.
