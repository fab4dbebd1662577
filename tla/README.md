# hco-mcp in TLA+

A verification development kept beside the hco-mcp sources: TLA+ modules translated
from the code, TLC configurations that check them on small instances, and theorems
about them that the TLA+ proof system (TLAPS) checks for every instance.

hco-mcp lets an MCP client (Hermes) submit *executions* of the Claude Code command
line tool, start, cancel, continue and inspect them, and keeps everything in one
SQLite database. Around that core live a legacy job queue with a daemon, a Claude
session launcher, provider profiles, workspaces, statistics, a set-up wizard and a
doctor.

## 1. Inventory

| Part | State it keeps | Operations | Talks to |
|---|---|---|---|
| Execution repository (`state/execution-repository.ts`) | rows of `executions`, `execution_events` (append-only by trigger), `process_attempts` | `createExecution`, `transitionTo*`, `createProcessAttempt`, `finishProcessAttempt`, queue: `claimExecution`, `renewExecutionLease`, `releaseExpiredExecutions` | SQLite, one autocommit statement at a time |
| Execution service (`execution/service.ts`) | none of its own: closures of `onExit`, pending `runPostValidation` promises | `submit`, `start`, `cancel`, `continue`, `wait`, `getResult` | repository, adapter (calls), adapter (callback `onExit`), validation runner (await) |
| Claude adapters (`claude/adapter.ts`, `claude/runner.ts`) | maps of attempts, processes, callbacks; `_abortedPids`, `pendingStreams`, `pendingResult` | `launch`, `abort`, `sendInput`, events `close`, `error`, `finish` | operating system, `onExit` |
| MCP server (`mcp/server.ts`) | one `ExecutionService` and one adapter per process | tool handlers | all services |
| Job queue and daemon (`jobs/`, `daemon/main.ts`, `cli/main.ts`) | rows of `jobs`; `busy`, timer | `createJob`, `claimJob`, `releaseExpiredJobs`, `renewJobLease`, tick, `pause`, `resume`, `recover` | SQLite shared by daemon and CLI, launcher |
| Claude sessions (`claude/session.ts`, `claude/launcher.ts`) | rows of `claude_sessions`, session events; map of live processes | `launch`, `stop`, exit callback, archive | runner, SQLite |
| Providers (`provider/`, `state/provider-repository.ts`) | `providers` with a status, `provider_events`, model mappings | register, validate (network), activate, rollback | HTTP, SQLite |
| Workspaces (`workspace/`) | `workspaces`, at most one active per repository and provider | create or resume, touch | providers |
| Artifact store (`state/artifact-store.ts`, MCP artifact tool) | rows of `artifacts`, one per chunk; four size limits | store, list, read in parts, delete | SQLite |
| Validation runner (`validation/`) | none | `runValidation`: commands in sequence, each with a timeout | child processes |
| Set-up wizard (`setup/`) | a state file with the stage reached | stages local, provider, integration; resume | providers, files, Hermes |
| Hermes configuration writer (`setup/hermes.ts`) | Hermes's YAML file, a backup beside it | read, back up, replace, restore | files that their user edits too |
| Migrations (`state/db.ts`, `migrate/migrate-v1-to-v2.ts`) | schema, rows of `schema_version` | `openDb`: migrations 1-12 in every process that starts; legacy import | SQLite |
| Contract schemas, policy, reporting, doctor, statistics, GitHub policy, configuration | none, or read-only | parse, format, count | - |

**What is hard.** Node runs every handler to completion, so within one server the
interleavings are those of handlers, timers, child events and continuations of
`await`. But (1) every repository function is several SQL statements, none of them
in a transaction, so a server that dies in the middle leaves a prefix of them; (2)
the end of a child reaches the row through three separate events (close, finish of
both streams, delivery) and a cancel can fall between any two; (3) the result of a
conditional transition is often ignored; (4) the validation runs in an `await`
between reading the verdict and changing it; (5) two servers, the daemon and the
command line share one database with no lock longer than a statement.

**What makes each part correct.**

- *Execution service*: an execution is run at most once; the verdict is given once
  and tells the truth about the process; cancel reaches the process; the attempt
  record and the event log agree with the row, also after a crash; whatever is
  launched is eventually decided.
- *Shared database*: an idempotency key makes one execution; attempt records stay apart
  and true and no verdict is invented when several servers work on one execution.
- *Execution queue and job queue*: a lease is held by one worker at a time, an
  expired one is taken over, finished or paused work is not claimed.
- *Sessions*: the row follows the process; stop, exit and archive race to one final
  status, and the event log tells how the process ended.
- *Providers and workspaces*: only a validated provider becomes active, at most one
  active workspace per repository and provider.
- *Artifacts*: a text read in parts is given in whole characters.
- *Set-up*: a resumed set-up keeps what it has completed and does not repeat it; what the
  user saves in Hermes's file meanwhile is neither torn nor lost.
- *Migrations*: whoever has opened the database finds the whole schema, and no race or
  kill leaves one that cannot be opened.

## 2. Plan

Done:

1. `ExecutionRepository`, `ExecutionService`, `ExecutionPromise` (the core: one
   server, its children, crashes), with `ExecutionServiceProofs` and
   `ExecutionPromiseProofs`.
2. `SharedExecutions`: several servers and one idempotency key, hence one execution, one
   SQL statement per step, with `SharedExecutionsProofs`.
3. `JobQueue`: daemon ticks, command line and handler, with a relative clock, with
   `JobQueueProofs`.
4. `ProviderLifecycle`: providers, their audit trail and workspaces under several
   servers, with `ProviderLifecycleProofs`.
5. `HermesConfig`: backup, replacement and restoring of a file its user edits too.
6. `SetupWizard`: the wizard's stages and state file, composed with
   `ProviderLifecycle`, whose tables it shares with the servers, and with
   `HermesConfig`, whose file it writes; with `SetupWizardProofs`.
7. `ClaudeSessions`: launcher, exit callback, abort and archive of sessions in several
   processes, with `ClaudeSessionsProofs`.
8. `Migrations`: processes of several releases that open one database, with
   `MigrationsProofs`.
9. `ArtifactText`: texts stored in chunks and read in parts.

Left, should the code change so that they matter: `ExecutionQueue` (the lease columns of
`executions`, once a server claims executions, refining with `JobQueue` one lease
specification); the size limits of the store under several processes (once something
stores artifacts); the legacy import.

Modules one would prove about hold no RECURSIVE operator; each invariant is a
conjunction of named parts, and every constant has a named assumption.

## 3. What is modelled

### ExecutionRepository

Everything the database holds of one execution is a record
`[status, events, attempts]`, and the repository functions are operators from the
record they read to the record they leave. `Transition(d, to)` is `transition` and
its wrappers: nothing if the table `ValidTransitions` forbids the step, else the
`UPDATE` and the event. `TornTransition` is what a process that dies between the two
statements leaves. Event payloads, timestamps and the JSON snapshots are left out.

### ExecutionService

| Variable | In the code |
|---|---|
| `db[e]` | the rows of execution `e`, durable |
| `child[e]` | the operating system's child process (for the fake adapter, the object that stands for it) |
| `signalled[e]` | SIGTERM was sent by `abort`; `_abortedPids` and `attempt.aborted` |
| `phase[e]` | the adapter's maps, `pendingStreams`/`pendingResult`, pending `setImmediate`s |
| `seen[e]` | `awaitingInputSeen` of the fake adapter |
| `validating[e]` | a pending `runPostValidation` promise |
| `up`, `crashes` | the server process; how often it died |

One action per handler or callback, with everything the handler does before it
returns to the event loop: `Submit`; `StartThrows`, `SpawnStart`, `FakeStart` (the
outcomes of `start`); `ChildExit`; `Close` (the runner's close event); `Deliver`
(`deliverResult`, the adapter's callback and `onExit`, all in one turn);
`FakeComplete`; `Continue`; `Cancel`; `ValidationReturns`. `Crash` kills the server
between handlers, `CrashInSubmit`, `CrashInStart`, `CrashInExit`, `CrashInCancel`,
`CrashInContinue` and `CrashInValidation` between any two statements inside one, and
`Restart` starts it again: nothing is reconciled, as in `createServerState`.

`Adapter` chooses between SpawnAdapter (real children) and FakeClaudeCodeAdapter,
which `createAdapter` takes unless HCO_ADAPTER says spawn and which alone can reach
`awaiting_input`.

### ExecutionPromise

The abstract specification: a `verdict` and some `work` per execution. Work is
launched at most once, while the verdict is open; the verdict tells how the work
ended; it is given once, except that validation may take a completion back.
`Promise == INSTANCE ExecutionPromise` maps `child` to work and `status` to verdict.

### SharedExecutions

One idempotency key, hence one execution (executions are independent rows), and several
server processes, each with its own `ExecutionService` and `SpawnAdapter`. A handler is
the sequence `todo[s]` of the statements it still has to run (`SubmitSteps`,
`StartSteps`, `CancelSteps`, `OnExitSteps`, `ValidationSteps`), and a step runs one of
them together with the code up to the next. What `transition` read is trusted by the
`UPDATE` that follows, as in the code, and what `createExecution` read by its `INSERT`,
which the UNIQUE key refuses to all but the first.

| Variable | In the code |
|---|---|
| `row` | the rows of the execution, as in ExecutionRepository |
| `request` | its `request_json`, as far as `requestJsonEquals` compares it |
| `asked[s]` | the request `createExecution` was called with in server `s` |
| `up[s]` | server `s` is alive (`Die` may fall between any two statements) |
| `todo[s]` | the rest of the handler that the thread of `s` is in; empty: the event loop is free |
| `own[s]` | `currentAttemptId` of the closure that `start` made |
| `attempt[s]`, `child[s]`, `signalled[s]` | the adapter's maps, the child process, `_abortedPids` |

`Submit`, `Start`, `Cancel`, `Deliver` and `ValidationReturns` begin handlers;
`FindByKey`, `InsertExecution`, `FetchExecution`, `Check`, `ReadRow`, `UpdateRow`,
`InsertEvent`, `LatestAttempt`, `InsertAttempt`, `Launch`, `UpdatePid` and `Finish` are
the statements. A request that meets the execution of its key returns it or throws
`ConflictingExecutionError`: neither changes anything, so `FindByKey` ends there. The
fake adapter, waits for input and restarts are left to `ExecutionService`.

`Promise` maps the row and the children of all servers to `ExecutionPromise` once more
(`verdict`, `work`). With several servers the code does not keep it (the run
`no_duplicate_launch`); with one, `OneServer`, it does, which is a theorem here and has
no run of its own: `service_spawn` checks the same refinement of the coarser model.

### JobQueue

| Variable | In the code |
|---|---|
| `job[j]` | status, `worker_id` and `lease_until` of the row, the lease as the seconds it has left |
| `at[d]` | where daemon `d` is: not running, waiting for its timer, after `releaseExpiredJobs`, in the handler |
| `mine[d]`, `held[d]` | the job `claimJob` returned and the time left of the lease it was returned with |
| `due[d]` | the interval timer of `JobWorker` has fired |
| `revoked[d]` | history: an operator took the job back |

`Release` and `Claim` are the two statements of a tick, `Finish` the handler's return
with `renewJobLease`, `Throw` its exception, `Die` the kill of a daemon; `Pause`,
`Resume` and `Recover` are the commands of the CLI, `Elapse` one second. The code never
completes a job: `completeJob` and `failJob` have no caller, and a handled job keeps its
renewed lease until it runs out and the job is claimed again. `WorkerId` is a constant
because `startDaemon` gives every worker the same one.

### ProviderLifecycle

| Variable | In the code |
|---|---|
| `status[p]`, `log[p]` | the row of `providers`, its `provider_events` |
| `workspaces[p][r]` | number of active rows of `workspaces` (a number, so that the unique index is a result and not a premise) |
| `probes[s][p]` | requests of `validate` whose answer server `s` awaits |
| `doing[s]` | the statement the handler of `s` has reached, with what it has read |
| `started` | the servers started on the database so far |

`updateProviderStatus` is `SelectStatus` (read and check), `UpdateStatus` (by id alone)
and `AppendEvent`; `validate` is `Validate` up to the await and `ProbeReturns` after
it. `createOrResume` is `Resume` (provider must be active), `Find` and `Insert`, which
the partial unique index of migration 12 may refuse; nothing but tests archives one.

### HermesConfig

| Variable | In the code |
|---|---|
| `config`, `backup` | Hermes's file and the one with `.hco-backup`: which save of the user each stems from, and whether it is whole |
| `writing` | the system call `writeHermesMPCEntry` is about to make |
| `loaded` | the object `readConfig` has returned |
| `ownBackup`, `excused`, `edits` | history: this call made the backup; a save fell into a call or a stale backup was restored; the user's last save |

`writeMCPEntry` reads (`ReadConfig`), copies (`BeginCopy`, which empties an old backup,
and `EndCopy`) and renames a temporary file over the file (`Replace`);
`writeHermesMPCEntry` then removes the backup (`RemoveBackup`) or, whatever threw,
renames it back (`RestoreBackup`). `Edit` is a save by the user or by Hermes, valid YAML
or not, between any two calls; `KillWrite` the end of the process there.

### SetupWizard

Extends `ProviderLifecycle` with the wizard as one more process on the same tables, and
`HermesConfig` with the stage that writes its file.
`saved` is what `loadSetupState` returns (a torn file loads as a fresh one), `mem` the
state in the running wizard, `step` the question, request or call it has reached.
Commands are actions (`Setup`, `Continue`, `Reset`), and so are the answers and results
of each stage; `Kill` ends the process at any step, also in the middle of writing either
file. What has finished since the user last started over is kept in the history
`completed`, and in `lost` those stages whose record a kill in the middle of a save has
destroyed; no action looks at either. The registration and activation are those of `ProviderLifecycle`, done by the
wizard's process; `LookAtConfig`, `AnswerYaml` and `Writing` take the steps of
`HermesConfig`. `OthersNext` lets the servers do what they can in between, `UserEdits`
the user of Hermes.

### ClaudeSessions

| Variable | In the code |
|---|---|
| `row[s]`, `logged[s]` | status of the row of `claude_sessions`; the types of its `session_events` |
| `owner[s]` | the process (daemon or MCP server) whose launcher launches it |
| `child[s]` | the child process, and how it ended |
| `phase[s]` | what the owner's launcher and runner hold: the process (`held`), or its result until the streams have finished |
| `signalled[s]` | SIGTERM was sent by `abort` before the close event: `_abortedPids` |
| `doing[h]` | the statement process `h` is about to run in a handler it has begun |

`Launch` and `CrashInLaunch` are `launch` with its outcomes (a child, a spawn error that
is told later, an exception of `run`, a death between two statements); `ChildExit` and
`Close` the end of the child and the runner's close event; `Deliver` the exit callback;
`Abort` and `Archive` the commands, each followed by `UpdateArchived` and `AppendEvent`,
the statements another process can come between. `abort` signals in the same turn as
its event, so `AppendEvent` does. `Die` ends a process, which loses what it held.
`stop` is left out (nothing calls it), so is `wait` (it changes nothing), and `launch`
before the row exists (the allowlist and the path).

### Migrations

| Variable | In the code |
|---|---|
| `applied` | the tables, columns and triggers of the schema, by the migration that makes them |
| `recorded` | the rows of `schema_version` |
| `at[p]`, `pending[p]` | where `openDb` of process `p` is, and the migrations its loop has still to run |
| `fresh[p]` | the snapshot of its deferred transaction is still current, so SQLite lets it write |

`Knows[p]` is the last migration of the release that `p` runs, so that old and new
processes can meet. Each migration is tried as the loop does: one that has something to
write takes the lock with its first statement and is one step (`Apply`); one that finds
its tables there (`CREATE ... IF NOT EXISTS`) has read only, and its version may be
refused as its snapshot is stale (`ReadOnly`, `Record`); a second `ALTER TABLE` and a
missing table throw (`Fail`). `Needs` names the earlier migrations whose tables one
reads, alters or puts a trigger on. `Die` is a kill or a lock time-out in any of them.

### ArtifactText

`rows` are the rows of `artifacts` of one execution in the order of their insertion,
`offset[a]` and `parts[a]` what a client that reads artifact `a` asks for next and has
been given. A byte is its class in UTF-8. `Store` checks the two limits and inserts the
chunks; `Read` is `handleExecutionArtifact` for a text, with `Trimmed` for its loop.

## 4. Runs

| Run | Instance | Shows |
|---|---|---|
| `service_spawn` | 2 executions, spawn, 2 crashes | row, attempt, child and log stay consistent; refinement of `ExecutionPromise`; every attempt is decided and closed unless the server dies |
| `service_fake` | 2 executions, fake, 2 rounds of input, 2 crashes | who waits for input can be answered, and every completion decides or waits |
| `shared` | 2 servers, 1 key, 2 different requests, deaths | a key is inserted once, records of attempts stay apart and truthful, no verdict is invented |
| `no_duplicate_launch` | the same, 1 request | refutes a line of the roadmap (section 6) |
| `jobs` | 2 daemons with one id, a third with another, operator, 2 jobs of one second, one broken, lease of 2 s | one holder of each job, leases honoured, paused jobs rest, renewals never cross worker ids |
| `jobs_live` | 1 daemon, 3 jobs, lease of 3 s, 1 death, fairness | every job is run, a dead daemon's job is taken up again |
| `providers` | 2 servers, 1 provider, 2 repositories, 2 validations at a time per server, 1 death | state machine, audit trail and workspaces of active providers only, with one server; unique and audited workspaces with two |
| `setup` | the wizard and a server, 1 death, 1 save of the user | completed stages are kept and not repeated (unless the state file is torn), it does not claim what did not happen, Hermes's file is neither torn nor loses a save |
| `validated_before_activate` | the same, no death, no save | refutes a line of docs/ARCHITECTURE.md (section 6) |
| `sessions` | 2 sessions, 2 processes, 1 death, fairness | status, log and signals agree with how the process ended, final statuses rest, a launched session ends |
| `migrations` | 2 processes of this release, 1 of release 2.0.0, any earlier schema, 1 death, fairness | whoever has opened finds the whole schema, the database stays openable, everybody opens it in the end |
| `text_in_parts` | 1 artifact, 3 characters of up to 3 bytes, chunks of 4 bytes | refutes a comment of the tool and a line of the change log (section 6) |

**Bounds.** Executions do not interact except through the life of the server, so two
are one more than the interesting cases need and show that handlers of one leave the
other alone. Two crashes let the server die, come back, and die again in the handling
of what the first death left. Two rounds of input let a continue be followed by
another wait. Two servers are what a lost update, a lost race for an attempt number or
a refused insert needs. A lease of two seconds is the shortest in which a daemon can be
late, be overtaken and return; in `jobs` no daemon is killed, but the broken job takes
down whoever runs it, so restarts happen all the same; its third daemon has a worker id
of its own, an option of `JobWorker` that `startDaemon` does not use. `jobs_live` has as many jobs as a lease has seconds,
which is the most for which `EveryJobRuns` holds: jobs are never completed, the oldest
claimable one goes first, and a worker claims one per second, so a younger job is
starved when there are more. `MaxProbes` is 2 so that one server's answers can come in
either order; `MaxDeaths` is 1, as a death only leaves a gap in the trail, and the
proofs hold for any number. `Contents` has two members, so that requests with one key
can agree or conflict. One save of the user (`MaxEdits`) falls anywhere, into a call, before
a call or between two; what a second would add the proofs cover. In `migrations` one
process ends with migration 10, so that it can come after, before and between those that
know 12, and one death or time-out is what a half-done series of migrations takes.
`Repos` has two members so that a provider can be rolled
back between two workspaces; the `setup` runs have none, as the wizard creates none.
In `sessions` one process can archive what the other is stopping, and one death falls
anywhere, also in the middle of a launch. All other sets are finite by themselves.

**`Alone`.** `StateMachineKept`, `AuditConsistent` and `WorkspaceForActive` speak of the
time before a second server is started: two servers overwrite each other's status, also
between another's check and its `INSERT` (section 6).
`WorkspaceAudited` speaks of the time before a server has died, as one that dies between
`UPDATE` and event leaves no event. `ProviderTruthful` speaks of at most one server
beside the wizard: two could take back, with a status read before the wizard's
activation, what their own statements and the wizard's had agreed on.

**Symmetry and view** are used in `shared` only, which checks invariants over
interchangeable servers and requests. Its view `CreatedOnly` keeps of the event log how
often the execution was created: no statement reads the log, and no property of the run
asks for more of it.

**Deadlock** is not checked where the system may rest: a server whose clients do
nothing and that has no children, and one whose executions are decided. The job queue
never rests, since time goes on, and is checked for deadlock.

**Fairness.** In `ExecutionService`: weak fairness of `ChildExit` (spawn is given a
timeout between one second and an hour and kills the child), of `Close`, `Deliver` and
`FakeComplete` (events and timers of Node's loop), and of `ValidationReturns` (each
command has a timeout). Clients are not fair: nobody need ever call start, continue or
cancel. A grandchild that keeps the output pipes open can delay the close event for
ever; the model's `Close` assumes there is none. In `JobQueue`: time passes, timers
fire, statements end, handlers return or throw, and a daemon that died is started again (the code
has no supervisor: this is asked of whoever runs it); with `Prompt` no second passes
while a daemon has something to do, that is daemons keep up with their timers. The operator is left out
of the fair specification, since one who keeps recovering or pausing can starve any job.
In `ClaudeSessions`: children end (spawn kills them after `defaultTimeoutMs`), close
events and callbacks are run and handlers that were begun end; nobody need launch, stop
or archive. In `Migrations`: a process that has begun goes on, and one whose `openDb` has
thrown or that was killed is started again by whoever needs it; deaths are bounded, since
a process killed for ever never opens anything. `SessionEnds` excuses deaths, after which a session runs on in the table.

## 5. Proofs

`ExecutionServiceProofs` proves `Spec => []IInv`, where `IInv` is the conjunction of
`TypeOK` and, for each execution, three named parts: `PhaseConsistent` (what the
adapter holds agrees with row, child and signal), `AttemptConsistent` (there is at
most one attempt, and a closed one says aborted exactly if its process was
signalled) and `VerdictConsistent` (verdict and attempt agree, and what a pending
validation may still overwrite). None of the checked invariants is inductive by
itself: that a delivered result is truthful depends on what the close event kept,
and that on the signal a cancel sent earlier.

There is one lemma per action (`SubmitInv`, ..., `RestartInv`), resting on lemmas
about the repository operators (`TransitionType`, `FinishAttemptType`, ...), on
`Frame` and `DieFrame` for the executions a step is not about, and on
`StartedConsistent`, `ExitConsistent` and `ValidatedConsistent` for the one it is
about, which the crash actions share with the whole handlers.

On it rest three more invariants. For `LogIsHistory` the inductive `LogInv` says of each
row that its log is truthful (it announces no verdict the row does not have, and a
validation only where a clean exit is recorded) and, until a server has died, that it is
the history of the row, from its creation along the transition table to the status the
row shows. One lemma per repository function says that the whole write keeps both
(`Kept`) and the torn one the first (`TornKept`). `ValidatesCleanExits` follows from the
same `LogInv`; `InputWaitAnswerable` (`Answerable`) from looking at the steps that enter
and leave the wait.

`ExecutionPromiseProofs` adds what one step may do to the status and the child of an
execution (`StepOK`), and concludes that verdicts are stable and that the service
implements `ExecutionPromise`.

The only assumptions are `AdapterAssumption` and `CountAssumption`: these theorems hold
for any set of executions, any number of input rounds and any number of crashes.

`JobQueueProofs` proves the invariants of leases for any set of jobs and daemons, any
worker ids (equal ones included) and any lease. That a job has one holder (`LeaseExclusive`) is not inductive:
a second claim is refused because the row says running with time left, so the
invariant adds that the row of a holder does (`LeaseInRow`), names the holder's worker
(`WorkerInRow`), and that no running row lacks a lease (`RunningLeased`). The lemma
`Frame` covers the jobs a step is not about. `RenewalByHolder` proves the action
property `RenewedByHolder`: a renewal never extends the lease of a holder with another
worker id, since the row names the worker of its holder. `PausedJobRests` proves
`PausedRests`: no statement of a daemon frees, takes or renews a paused job.

`ProviderLifecycleProofs` proves, for any numbers of servers, providers, repositories,
validations and deaths, type correctness, `WorkspaceUnique`, and

- `WorkspaceAudited`: the inductive `Audited` says that as long as no server has died
  whatever needs an active provider (its row, a workspace, a workspace being created)
  has one whose activation is in the trail or about to be; a lost update of the status
  cannot break it, as the event of the server that lost is appended all the same.
- `StateMachineKept`: the inductive `SoleDecision` says that a server not started does
  nothing and that what the only one has decided on is a transition of the row as it
  still is; it rests on facts about finite sets (`OnlyOne`, `FirstStarted`).
- `WorkspaceForActive`: from the same, the inductive `ActiveMeanwhile` says that the
  provider of a workspace the only server is about to look for or insert is active.
- `AuditConsistent`: relative to `SoleDecision`, the inductive `Trails` says that the log
  of a provider is a path of the state machine that ends in its row's status, or one
  event before it while the server that has updated the row is about to append.

`ClaudeSessionsProofs` proves the four invariants of the `sessions` run and its action
property for any sessions, processes and deaths. The inductive invariant adds three
parts: `PhaseConsistent` (what a launcher holds is of a running or stopped session, and
a result it holds is true), `EndConsistent` (a status or event that the callback wrote
is that of a delivered result) and `DoingConsistent` (what a process is about to write
is true: without it an event appended after another process has archived the row could
be wrong). One lemma per action; `LaunchingInv` serves both launch actions, `ThenInv`
all handlers that begin.

`SharedExecutionsProofs` proves the four invariants of the `shared` run for any servers
and requests. A handler in progress is one of finitely many places (`Handlers`: each
suffix of a statement sequence has a name, and lemmas such as `StartHeads` say which
statement comes next). The inductive invariant is `RowTypes` and

- per server `ServerConsistent`: `StartConsistent` (a server on its way through `start`
  has not touched an attempt before it has inserted one of its own), `AttemptConsistent`
  (what the adapter holds, the child and the record that is still open agree),
  `SettleConsistent` (a verdict about to be written is backed by a closed attempt) and
  `Truthful`;
- `Apart`: no two servers hold the same attempt number. Two of them may have computed the
  same one, but only one `INSERT` of it succeeds;
- `StatusConsistent`: as long as the row is absent or accepted no attempt exists anywhere,
  and a row that tells a verdict has an attempt that backs it;
- `SubmitConsistent`: one creation, by the server whose request the row holds.

`VerdictBacked` needs all of it: that a stale `UPDATE` may overwrite a status is allowed
for, but what it writes was backed when its handler began, and attempts are never
reopened.

`OneServerKeepsPromise` proves that with one server the statements together implement
`ExecutionPromise`, whichever of them a death separates. What is missing for that in the
invariant above, and what a second server takes away, is that a statement may trust what
its handler has read: the inductive `Fresh` says so for `start`, `cancel`, the exit
callback and the validation, each at the statements after its read. Every step then
changes the status as one decision allows (`StatusMove`) and the child as its life does
(`ChildMove`), and `MappingNext` turns the two into steps of
`ExecutionPromise`.

`SetupWizardProofs` proves for `HermesConfig` that the file, what a call is about to
write and the call's own backup are all the user's last save (`SavesKept`), from which
`NeverTorn` and `EditsSurvive` follow; then that the set-up implements `HermesSpec`
(`SetupImplementsHermes`: every step of the wizard, the servers and the user is a step
of `HermesConfig` or leaves the file alone), so that both hold of the whole set-up. For
the stages (whose types are `SetupTypes`), `StageInv` says that outside a prompt to
resume the wizard's memory is the saved state, that the file does not call the stage it
is in complete (`Unfinished`), and that it calls complete whatever has finished and was
not lost with a torn file (`CompletedKept`): `NotRepeated` follows from the last two, for
any servers, providers and deaths. `ConfiguredIsActivated`
proves `ProviderTruthful`, for any number of servers that may be started: `Occupied` says
what the wizard's own process is doing with the table of providers at each step, and
`RowConfigured` what the only server may have decided on meanwhile, so that neither can
take the activation back otherwise than by failing the provider.

`MigrationsProofs` proves `OpenedComplete` and `AlwaysOpenable` for any processes,
releases and deaths. The invariant says that what is recorded is what has been applied
and has no gaps, which rests on the order of the pending migrations and on each running
in one transaction with its version; and of each process that a migration it no longer
has pending is applied (`ProcessConsistent`), though another process may have done it.

Every invariant and every action property of the passing runs is proved. Model-checked
only are the liveness properties, which are outside the prover's reach: `AttemptDecided`,
`AttemptClosed`, `EveryJobRuns`, `OrphanRecovered`, `SessionEnds` and `EveryProcessOpens`;
and what the runs that expect a violation refute.

## 6. Where documentation and code disagree

With a run:

- *Prevent duplicate billable execution* (docs/roadmap/HCO-2.0.0-ROADMAP.md:583), run
  `no_duplicate_launch`: two servers on one database both start an execution, since
  `transition` reads and updates in two statements and the `UPDATE` does not test the
  status.
- *register, validate, discover, recommend, activate* (docs/ARCHITECTURE.md:64), run
  `validated_before_activate`: the wizard validates beside the service, so the row is
  still registered when it asks for activation, and the stage fails.
- *ensure we don't split a UTF-8 code point* (mcp/server.ts:526, CHANGELOG.md:138), run
  `text_in_parts`: the loop drops the continuation bytes of the last character, complete
  or not, and keeps the byte that begins it.

Seen while modelling, without a run:

- *Failed launches leave terminal attempt records* (docs/RELEASE-NOTES-2.0.0.md:33): a
  launch that throws leaves a running row and an open attempt, with no crash involved
  (execution/service.ts:155; `StartThrows`);
- *You can stop safely and resume later without repeating completed stages*
  (docs/SETUP.md:23): the state file is truncated and written in place
  (setup/state.ts:59), and what a wizard killed there leaves loads as a new set-up, so
  that completed stages are run again (and the provider stage then fails, as the
  provider is registered already). The model has these kills; `NotRepeated` and
  `CompletedKept` except the stages whose record they destroy, in the history `lost`;
- *HCO does not activate a provider after failed validation* (docs/SETUP.md:182): the two
  statements of `updateProviderStatus` let one server make active what another has just
  failed (state/provider-repository.ts:103-112);
- a workspace is refused for a provider that "is not active" (workspace/service.ts:28),
  but another server may roll the provider back between that check and the `INSERT`;
- a duplicate key with identical content "returns the existing execution"
  (docs/roadmap/HCO-2.0.0-ROADMAP.md:435): of two servers at the same time one gets a
  constraint error instead (state/execution-repository.ts:113);
- of two processes that open an old database at once one may throw `duplicate column
  name` (migrations 4, 6 and 8), since the version is read outside the transactions;
  tried again it succeeds, as `EveryProcessOpens` shows;
- a backup left by a killed set-up is restored by a later one that fails before its own
  backup (setup/hermes.ts:136), where docs/SETUP.md:80 speaks of the previous
  configuration;
- "Hermes MCP registered" is reported also when writing was declined or failed
  (setup/stages/integration.ts:202), and "Previous configuration restored" when nothing
  was;
- "[DRY RUN] No changes were made." (migrate/migrate-v1-to-v2.ts:187) though `openDb` has
  brought the schema up to date; a second import makes every execution again, as
  each request gets a new key;
- nothing under src/ stores artifacts, which docs/RELEASE-NOTES-2.0.0.md:36 and
  README.md:134 list; two artifacts with the same key are read as one text
  (state/artifact-store.ts:131), and a limit shorter than a character may not advance;
- lease-based claiming "with worker ownership" (docs/roadmap/HCO-2.0.0-ROADMAP.md:44):
  all daemons have the worker id `daemon` (daemon/main.ts:95), so one that returns late
  renews the lease of the daemon that has taken over; `RenewedByHolder` therefore only
  speaks of ids that differ;
- the result of an execution reports the exit code 0, whatever the attempt says
  (execution/service.ts:298);
- a session whose process could not be asked for (`run` throws, launcher.ts:166) or whose
  launcher died stays running in the table for ever, and nothing can stop it;
- the transition table lets completed become failed after validation, where its comment
  says terminal statuses only become archived (state/execution-repository.ts:185, 193);
  two servers can also overwrite cancelled;
- validation is also started for an execution cancelled between the close of its child
  and the delivery, where the release notes (docs/RELEASE-NOTES-2.0.0.md:56) speak of
  successful completions;
- the concurrency default of 1 (README.md:60) is compared with nothing;
- `hco recover` takes back every running job, also one with a live holder (README.md:125
  speaks of a stuck running state);
- the answer no after local verification is not followed (README.md:78);
- a deferred validation cannot be resumed, as the provider is registered again
  (setup/stages/provider.ts:154, 169);
- a set-up with a skipped provider stage becomes ready (docs/SETUP.md:38).

## 7. Not modelled

- *Execution queue* (`claimExecution`, `renewExecutionLease`,
  `releaseExpiredExecutions`), `completeJob`, `failJob`, `cancelJob`, archiving of
  executions and of workspaces: nothing but tests calls them, so the system has no behaviour of theirs.
- *Validation runner*: commands in sequence in one function without state; the services'
  models take its result after any delay.
- *Environment file and systemd drop-in* of the set-up: written once, read by other
  programs; that writing may throw is in `AnswerStore`.
- *Legacy import*: a command run once by hand, one `createExecution` after the other.
- *Model mappings* of providers: no code inserts one.
- Contract schemas, configuration, repository and GitHub policy, reporting, doctor,
  statistics: no state that changes.
- Formatting of results, payloads, wording, and the order of rows in listings.
