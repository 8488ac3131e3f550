# A TLA+ verification of pg_perf_bench

pg_perf_bench prepares a PostgreSQL database, runs pgbench against it for a series of load
values, samples the operating system meanwhile and writes comparable reports. It is one asyncio
process per run. What makes it hard is what it shares with others: a server that several runs may
try to use at once, a server-wide setting (`fsync`) that it turns off for the load and must turn
on again whatever happens, a cluster whose leader may change, replicas that must catch up,
processes and files on other hosts that must not outlive it, and reports that must survive errors,
cancellations and kills.

The modules here model that behaviour, translated from `src/src/pg_perf_bench` (paths below are
relative to it). TLC checks them on small instances; TLAPS proves the most important properties
for every value of the constants. `PROJECT.json` lists for each definition the lines it stands
for, for each property a change of the code that breaks it, and the hazards the properties are for.

## 1. Inventory

| component | code | state | operations | hard behaviour | model |
|---|---|---|---|---|---|
| Server lock | `initialization_settings.py` 59-91, 191-285; `db_operations/db.py`; `benchmark.py` 286-384 | controller session, `lock_acquired`, advisory locks of the server | acquire, cross-check, `assert_held`, reopen after restart, release; drop, stop, start, create | contenders in different databases, restarts that drop all locks, late stops, lost sessions | `BenchmarkLock` |
| Initialization settings | `initialization_settings.py` | `changed`, `original`, journal, `postgresql.auto.conf`, effective `fsync`, dirty data, replicas | open/recover, disable, restore, close, replica barrier | kill between any two steps, failover, host reached by another path, second restore, replicas that come back from elsewhere | `FsyncJournal`, `ReplicaBarrier` |
| Load scheduler | `initialization.py` | task states, `done`, condition, workers | `validate_plan`, take, execute, record, cancel, phases | wakeups, dependencies, partial failure | `LoadScheduler`, `Preparation` |
| Benchmark series | `benchmark.py`; `report/processing.py`; `errors.py` | results, evidence, retained controller, checkpoint, report | iteration, checkpoint, cleanup, partial report, save | errors and cancellations at every await, cleanup that fails | `BenchmarkSeries` |
| OS sampler | `system_metrics.py` | stop event, samples | windows of two providers | last window under cancellation | a task of `BenchmarkSeries` |
| Process executor | `executors/process.py` | process group | run, time out, stop, attach output | children that outlive the leader, signals that are ignored, cancellation of the stop | `ProcessGroup` |
| Transports | `connections/` | SSH, Docker, local | start, commands, two file copies, close | threads that a cancellation does not stop, partial files | `FileCopy`, `Collection` |
| Patroni control | `db_operations/patroni*.py` | member, leader, start times | detect, inspect, restart, verify | leader changes between check and request, lost responses, a proxy | `PatroniRestart` |
| Server control | `db_operations/` | - | drop, create, stop, start | as part of the reset | `BenchmarkLock`, `PatroniRestart` |
| Configuration | `config.py`, `client_tools.py`, `init_policy.py`, `context/` | options, clients, plan hash | `build_runtime_config`, twice per run | options that exclude each other, files that change in between | `Configuration` |
| Command line | `cli.py`, `contracts.py` | report, envelope | one invocation | which error wins, what is lost | `Invocation` |
| Join | `join.py`, `join_catalog.py` | joined report | load, compare, merge | alignment of series, a reference that differs | `Join` |
| Collect info | `collect_info.py`, `report/commands.py`, `session_settings.py` | read-only session, items | items, log archive, cleanup | failures of items, cleanup under cancellation | `Collection` |
| Workloads, rendering, generators | the other files | none | content | none beyond their inputs | not modelled |

They interact like this. `cli.main` (`Invocation`) builds a configuration (`Configuration`) and
runs one command: a join (`Join`), a collection (`Collection`) or a benchmark, which is a series of
points (`BenchmarkSeries`). Each point is prepared (`Preparation`): the configuration file is
copied (`FileCopy`), the database reset with a restart of its server (`PatroniRestart`, or direct),
the plan loaded (`LoadScheduler`) and the replicas awaited (`ReplicaBarrier`), under the lock of the
server (`BenchmarkLock`) and with the settings journalled (`FsyncJournal`). Commands on a host are
process groups (`ProcessGroup`).

What makes the components correct: at most one run owns the server, and a point is measured alone
on the data its run prepared; every change of `fsync` is covered by a journal until it is undone
and the data synchronized; each key is loaded once and after its dependencies, and the phase ends;
the replicas have the rows before the workload starts; a restart reaches the member that was
checked, once, and is verified; neither points nor evidence are lost; nothing of a command goes on
behind its answer; no accepted request does more to its target than it may; and what report,
envelope and exit code say is what happened.

## 2. Modules

| module | models |
|---|---|
| `ServerLock` | what the lock promises: it is acquired only when free and released by its owner |
| `BenchmarkLock` | controllers, advisory locks, resets and restarts of concurrent runs; implements `ServerLock` |
| `FsyncJournal` | `InitializationSettings`: open, recovery, disable, restore, close, over an abstract `ServerLock` |
| `LoadPhase` | what a load phase promises: keys are committed once, it returns with all of them |
| `LoadScheduler` | `run_tasks`; implements `LoadPhase` |
| `BenchmarkSeries` | the series of points of one run, its checkpoint, report, files and exit code |
| `FileCopy` | the two copies of each transport, step by step, in a thread or a coroutine |
| `ProcessGroup` | one call of `run_local_process` with its leader, a child, signals and pipes |
| `Collection` | a collection command; composes `ProcessGroup` and `FileCopy` |
| `PatroniRestart` | discovery, restart and verification on a cluster that changes |
| `ReplicaBarrier` | keys, positions and the wait for the replicas |
| `Preparation` | the preparation of a point; composes `FileCopy`, `PatroniRestart`, `ReplicaBarrier` |
| `Configuration` | which requests are accepted, what they do and what the methodology claims |
| `Join` | loading, comparing and merging reports |
| `Invocation` | one invocation of the CLI; extends `Configuration` and `Join` |
| `MC...` | the instances for TLC, one `.cfg` per run |
| `...Proofs` | theorems and proofs |

**BenchmarkLock.** `pc[r]` is the await at which run `r` stands; one action is the code between two
awaits. `granted` is the server's own view of the lock, `acquired` the run's flag. Acquisition is
three steps as in the code: connect, `pg_try_advisory_lock` in the controller's database, and the
look at `pg_locks` of all databases. A reset follows `reset_db_environment` (restart by host
commands, by Patroni, managed without restart, or schema only); a restart ends all sessions.
`Fail` is an error or a cancellation at any await, `Kill` a SIGKILL, `LoseSession` the end of a
backend at the points of `Exposed`, `StopLands` a stop that takes effect late (Docker thread,
Patroni request). `content` is who prepared a database, `shared` who was disturbed while measuring;
both are histories for the properties. `OffRuns` load with `fsync=off`: when the controller of one
was lost by the end of its load, `restore()` opens another session and takes the lock again
(`FinishLoad`, then `Connect`, `TryLock`, `CrossCheck` with `resume` at "restore"); refused there, the
run is "stranded" with a live session, and `Close` repeats `restore()` over it at "unlocked".

**FsyncJournal.** Slots of one user share a journal directory; each host has an override (`auto`),
an effective value (`eff`), data that is clean, in the kernel or in shared buffers (`dirty`) and a
journal. Two layers meet here: the lock is the one of `ServerLock`, because `BenchmarkLock`
implements it, and `FsyncJournal` uses it in no other way (`JournalUsesLock`). A restart or failover rereads the
configuration, so that an `ALTER SYSTEM` that was not reloaded takes effect. `restore()` is modelled await by await, its reconnection included, and
`close()` calls it again as the code does; `Fail` at one of its awaits is also the second
cancellation, which cuts the shielded cleanup short (`close_initialization_settings`). A role without superuser rights cannot identify the
server, so it stops when any journal exists.

**LoadScheduler.** The loop of `take()` is modelled visit by visit; the condition is the set of
workers at `waiting`. `copies` counts the committed transactions that contain each key, so that a
transaction that is rolled back by a cancellation, or committed before it, is told apart.

**BenchmarkSeries.** One process and its sampler task; `setup` is the policy, whether the OS is
sampled and whether the machine may lose power. The result of an iteration is the set of its
entries (`init`, `before`, `workload`, `samples`, `after`); `collected` is a history of what was
really produced. An exception is a record of what `exception_evidence` can find on it. Writing the
checkpoint is two steps, temporary file and replacement. A failure or a cancellation may arise at
each control point named by `FailsAt` and `CancelsAt`, also while another error is being handled.
A power loss may lose the checkpoint, since it is not synchronized.

**ProcessGroup and FileCopy.** A zombie is a leader that has exited before the event loop noticed:
`process.returncode` is still None and the group can be signalled; afterwards it is not signalled
any more. The child may keep the pipes open, ignore SIGTERM or be forked after it. The local and
the Docker copy run in a thread, so a cancellation answers the caller while the body goes on; over
SSH it interrupts the step. Each step may leave nothing, part or all of its effect; `Covered` is
the range of the `try` that removes the temporary.

**Collection.** The items of the template in order; a shell item on the local or the Docker host is
a `ProcessGroup`, the log archive a `FileCopy`. Two cancellations may arrive at any await; the
session is reset shielded from the first one. A `RESET` that fails is raised in the place of the
report (`failure = "reset"`). The host may be lost, and the database server close the session or
fall silent (`server`); what then has no timeout may fail, late, or hang (`Hanging`). An item's status and the `warned` flag follow
`collection_status`, with the value NULL that sets none.

**PatroniRestart.** Member 1 is on the selected host; the SQL connection may go through a proxy to
the leader. Start times are a clock. `Detect`, `Check`, `Inspect`, `Post`, `Verify` are the requests
of `PatroniController`; between any two the leader may change or someone may restart a server.
`forced`, `wronged` and `began` are histories for the properties. `silent` is a server that is not
heard of any more.

**Preparation.** `validate_plan` places the tasks in rounds (`planned`, its `done`); `open` notes the
replicas (`replicas` counts them per key as the code does, the history `before` keeps which they
were); then the copy, the reset, the phases of `prepare_database` and the barrier. A start of the
server disconnects the replicas. The copy may be cancelled and its host lost, or the database server
fall silent, as in `Collection`. A replica is known by its slot or by the address it connects from,
so keys may be shared and change.

**Configuration, Invocation, Join.** A request is the options of a benchmark that relate to each
other; those that only need a value of the right form are one flag. `Host` is the content of the
files a request names and the clients that are installed; `Change` edits, removes or updates them at
any time. A client that does not tell its version in time fails a configuration whatever it is.
The exception of a benchmark that fails before its first point is answered as an execution error,
also where the code answers a configuration error or a missing file with a code of its own. The three readings of the files (the plan hash, the configuration, the configuration
again before the report is saved) are separate actions, as is the reading at each point. A join loads the
selected files one by one, the reference first and the others by name, skips those it cannot read,
checks labels and schemas, compares and merges one source after another and completes the copy of
the reference with the snapshots. A report in a join is reduced to what the join distinguishes.


## 3. Runs

`tlc -config <cfg> <module>` in this directory; each run ends within about three minutes
on two workers.

| run | distinct states | checks |
|---|---|---|
| `lock_three` | 3.1 million | `MutualExclusion`, `WorkingMeansHolding`, `ImplementsServerLock` |
| `lock_same` | 69,000 | `PointsMeasuredAlone`, `MeasuresOwnData`, `EventuallyReleased` |
| `lock_lost` | violated | `PointsMeasuredAlone` |
| `fsync_pair` | 112,000 | `JournalCoversChange`, `NeverAdoptsOff`, `WorkloadOnDurableData`, `EventuallyRestored` |
| `fsync_trio` | 1.2 million | `JournalCoversChange`, `MutationsHoldLock` |
| `fsync_unlocked` | violated | `JournalCoversChange` |
| `load_three` | 35,000 | `LoadedOnce`, `DependenciesLoaded`, `WaiterHasWaker`, `ImplementsLoadPhase`, `PhaseEnds` |
| `series_points` | 44,000 | `PointsKept`, `EvidenceKept`, `ExitHonest`, `ControllerClosed`, `CheckpointAvailable`, `CancellationHonoured`, `Ends` |
| `series_report` | violated | `ReportHasPoints` |
| `reports` | 524,000 | `AnswerHonest`, `BackendClean`, `GroupStopped`, `CopySettled`, `CommandEnds` |
| `preparation` | 615,000 | `PlanRunnable`, `CopySettled`, `RestartSafe`, `ReplicasHaveRows`, `RestartVerified`, `PreparationEnds` |
| `commands` | 5.7 million | `TargetSpared`, `ReportTruthful`, `ReportSaved`, `ReplyConsistent`, `JoinFaithful` |

What the passing runs show:

* `lock_three`: with controllers in three databases, sessions lost at any await, kills, restarts of
  the server by resets and stops that take effect late, at most one run owns the server and every
  step is one the abstract lock allows. Whoever works over a live session holds the lock, with one
  exception that the property names because the code has it: `restore()` may have opened a session
  and been refused the lock there, and `close()` then repeats it over that session. `fsync_unlocked`
  shows what this leads to.
* `lock_same`: three runs that use one target under the three policies. While no owner loses its
  session and no stop is late, no point is measured while another run works on the server or on
  data that another run prepared, and every run ends with its lock released.
* `fsync_pair`: two runs that load with `fsync=off` on one host. Whatever is killed, fails or
  restarts, a setting that was changed has a journal with the original value, nobody takes `off`
  for the original, no workload runs on data that a crash would lose, and as long as users start
  runs the setting is restored. No session is lost in a load or in `restore()` here.
* `fsync_trio`: two hosts with a failover, journals torn by a kill, a run that reaches the other
  host only and one without superuser rights: journals still cover every change. Sessions are lost
  at any await but the host sync and the removal of the journal; `disable()`, recovery and
  `restore()` change setting and journal under the lock all the same, but for the `restore()` that
  `close()` repeats. (One run of each host turns `fsync` off here, so the case of `fsync_unlocked`,
  which needs two on one host, does not arise.)
* `load_three`: a key is committed at most once, after all keys of the dependencies, nobody waits
  without another worker that will notify, and the phase returns only when everything is loaded
  and every transaction has ended, whichever worker fails and whenever the caller is cancelled.
* `series_points`: see the theorems of `SeriesProofs`; in addition every series ends.
* `reports`: every failure of an item is counted and costs no report; a `RESET` that fails costs the
  report that was collected, as do a connection that cannot be made and a cancellation, and nothing
  else does. A cancellation is never forgotten (but for one, below); of an interrupted command no
  leader runs on and its child was signalled, unless it was forked after SIGTERM; the file that
  was copied is complete or absent and its temporary removed as far as the code covers; a backend
  returns to its pool with our settings only when the `RESET` failed or was cut by a second
  cancellation, and never behind a report; and the command ends or hangs in an await without a
  timeout on a peer that is lost.
* `preparation`: only plans whose tasks can all be run are accepted; a server that Patroni manages
  is never restarted behind its back; a restart takes effect at most once, on the primary, and
  `restart()` succeeds only when the SQL connection is at that member, started since; the workload
  begins only when every expected replica has replayed all rows; and the preparation ends or hangs
  in an await without a timeout on a peer that is lost.
* `commands`: an accepted request neither resets, restarts nor reconfigures more than its options
  allow; what the methodology of a report claims was done before every point, and the hashes of plan
  and configuration are those of what was used unless somebody changed the files meanwhile; a
  report that was built is lost only for the reasons that `ReportSaved` lists; the envelope, the exit code and the saved report agree; and a joined report contains each
  source once, aligned, with every difference from the reference.

**Bounds, and why they are enough.** Two runs make every conflict of the lock; a third one makes
one owner change hands while another run is late. Two points pass through the retained controller
and through a second acquisition. Three faults on one host suffice for a fault in the recovery
from a fault in the recovery; with two hosts two faults do. The plan of `load_three` has each kind
of task (one statement, batches, a single short batch, an empty table, more rows per key than a
batch), listed against the order of dependencies; with three workers two wait while one works.
Three points and `MaxFaults = 3` let a series fail in the handling of a failure of a cleanup. The
template of `reports` has a shell item between database items, so that the session is used
before and after; `MaxCancels = 2` cancels the work and its cleanup. `Focus` in
`MCPreparation` varies together what the code relates: three tasks with any dependencies (a cycle needs no more); any host,
transport and `MaxFaults = 2` changes of the cluster (one to mislead the check, one to mislead the
verification); the options of the loader with two replicas, two addresses, `MaxMoves = 4` (leave
and return of each) and `MaxLsn = 2`. `commands` takes every combination of the options that
relate to each other, `Points = 2` (one before and one after the change) and `MaxChanges = 1` (the
code compares files pairwise); a join needs a reference and two others, 15 kinds of report differ
in at most three of the features that the join looks at, and labels are symmetric (`NameSymmetry`,
no liveness is checked there). No other run uses symmetry.

**Fairness.** Only the code and what it waits for with a bound is fair. Many awaits of the code have
no bound: SFTP `put`, `rename` and `get` (`connections/ssh.py:100-102`, 150), `wait_closed` (48),
`db.close()` (`session_settings.py:30`), the queries of `collect_db_logs`
(`db_operations/__init__.py:28-30`), and `DROP`, `CREATE DATABASE` and the probe of `DBTasks`
(`db_operations/db.py:125-197`, a connect timeout only); no SSH keepalive is set
(`config.py:225-238`). So where a peer can be lost the code is fair only while it is not `Hanging` in
one of them, and `CommandEnds` and `PreparationEnds` name that end beside the good one; everything
else must end, whatever is lost.

* `Collection`: the code as said, the death of a process that was killed, and the notice of it.
* `Preparation`: the code as said.
* `BenchmarkLock` and `FsyncJournal`: `EventuallyReleased` and `EventuallyRestored` speak of a server
  that answers, or whose loss is seen as an error. Each run's next step is fair, and so is a stop
  that was accepted; of `FsyncJournal` also that users start the next run and, strongly, the
  acquisition of a lock that is free again and again (a run that finds it taken is refused and can be
  started again).
* `LoadScheduler`: transactions end; strong fairness where workers compete for the lock of the
  condition, which asyncio grants in order; after a failure the caller cancels the others.
* `BenchmarkSeries`: its steps and the end of the sampler, whose window is bounded; it too relies on
  a server and a host that answer.

Errors, kills, lost sessions, cancellations, failovers, changes of files and processes that end by
themselves have no fairness. `Invocation` is sequential and needs none: only safety is checked.

**What the violated runs show.**

* `lock_lost`: the lock is last checked before pgbench starts (`benchmark.py:871`). A controller
  that is lost during the measurement is not noticed before the point is recorded.
* `fsync_unlocked`: a controller is lost during the load, and the next run takes the lock, recovers
  the setting, disables it again and writes its own journal. The first run's `restore()` opens a new
  session and is refused the lock (`initialization_settings.py:307-310`); `close()` calls `restore()`
  again (384-388), which finds a live session and so asks for no lock, restores the setting under
  the other run's load and removes its journal (331). The next change of that run has none.
* `series_report`: an error of the last checkpoint write replaces the exception that carries the
  points (`benchmark.py:738`), and the partial report has none.

**Observations without a run.** They follow from the models, or were met while reading:

* The journal is written in place (`initialization_settings.py:172`): a partial file makes every
  later `open()` fail in `json.loads` until it is removed by hand. `TornWrites` models it;
  `EventuallyRestored` is checked without.
* `restore()` removes the journal by its path after the host sync, without a look at the lock
  (`initialization_settings.py:330-331`): a session that is lost during the sync leads to the loss of
  another run's journal too. `fsync_pair` and `fsync_trio` therefore lose no session there.
* The documentation says a lost controller "stops subsequent work instead of silently
  reconnecting" (`README.md:492-493`); `restore()` does reconnect.
* A diagnostic session whose `RESET` fails discards a report that was collected completely
  (`session_settings.py:24`, `collect_info.py:171-190`).
* An SSH connection that is cancelled while it closes keeps its `client` (`connections/ssh.py:45-49`);
  the process ends with it.
* With two faults evidence of an iteration may be lost: a cancellation while `finish_sampling`
  waits hides the output of a workload that timed out (`benchmark.py:489`, `errors.py:26`).
  `EvidenceKept` therefore speaks of one fault.
* An exception at the end of the transport discards a finished report (`benchmark.py:1208`).
* The checkpoint is replaced without being synchronized (`benchmark.py:720`): after a power loss it
  may be damaged. `CheckpointAvailable` excludes that.
* `_attach_interrupted_output` catches `CancelledError` (`executors/process.py:129`): a cancellation
  that arrives while the output of a timed out command is collected is swallowed, and the collection goes
  on. `AnswerHonest` excludes that one.
* A `plain_text` query that returns NULL sets no `collection_status` (`report/commands.py:178`) and is
  not counted as a failure.
* The text of workload files is embedded in the report once (`workloads.py:328`), while pgbench
  reads them at each point.
* `load_reports` moves the reference to the front; `load_report_paths` sorts the names again.

## 4. Proofs

Every invariant and every safety action property that a passing run checks is also a theorem: it holds
for every value of the constants that satisfies the named assumptions of its modules, so for any
set of runs, hosts, replicas, plans, requests and reports, any template with at most one shell
item, and any number of points, faults and cancellations. `PROJECT.json` lists the theorems. An
invariant that a run checks is seldom inductive; each module states the strengthening it uses,
proves that the initial states have it and that every action keeps it, one lemma or step per
action, and derives the properties.

* `BenchmarkLockProofs`: `LockInv`. Mutual exclusion alone is not inductive, since two runs may hold
  locks in different databases for a while; the invariant adds that a run past its check still
  holds its lock and that no other holder can pass its own check then. Nothing is assumed about
  faults. `WorkingMeansHoldingHolds` is proved of every run and await, with the one exception that
  the property names (a run at "unlocked"). `LockRefinement` maps the owner and is shown step by step. Under `QuietEnvironment` (no
  owner loses its session on its own, no stop is late; `lock_lost` shows why), points are measured
  alone (`WorkInv`, `AloneInv`, over both states of a step) and on the data of their run
  (`OnceInv`: who has passed its reset keeps the database; `DataInv`).
* `FsyncJournalProofs`: `JournalInv`, under `SessionsLast` (no session is lost in a load or in
  `restore()`; `fsync_unlocked` shows why). It says who holds the lock at each control point, what
  each run knows, and for each host what is true of override, value, data and journal given where
  the owner stands. `MutationsHoldLockHolds` needs no such assumption: for any runs, hosts and lost
  sessions, `HoldInv` alone shows that `disable()`, recovery and the `restore()` of `open()` and of
  `initialize_database()` act under the lock; of the `restore()` that `close()` repeats it says
  nothing (`RepeatedRestore`), since there the code does not. The module also proves an action property that no run checks: a journal is removed only
  when its host has its original setting and durable data. `JournalUsesLock` needs no assumption:
  every step is one of `ServerLock`, so that what `LockRefinement` shows of the real lock is all
  that the journal relies on.
* `LoadSchedulerProofs`: `LoadInv` relates `outstanding` to the workers that hold a batch of the
  task, the keys below `next_key` to those batches or to committed transactions, and `done` to
  tasks whose keys are all committed; from it `LoadedOnce`, `DependenciesLoaded` and the refinement
  of `LoadPhase`. `WakeInv` adds what a scan in progress has already seen, and gives
  `WaiterHasWaker`: the loop cannot reach its end without a waker, since among the tasks that are
  not done one depends on none of the others (`PlanAssumption`, which `PlanRunnableHolds` shows to
  be what `validate_plan` accepts).
* `SeriesProofs`: `SeriesInv` is the conjunction of what is held, how far the series is, which fault
  was met, what the points, the failed entry, the checkpoint and the report contain at each control
  point. From it follow all properties of `series_points` but `Ends`.
* `FileCopyProofs`: `CopyInv` says of every transport and copy what is left at each step, for the
  answer and for what goes on behind it; `CopySettles` follows. `Collection` and `Preparation` do
  not repeat it: `CopyImplemented` shows that each of them, with its own steps around the copy, is
  an implementation of `FileCopy`, and `CopySettled` is taken over.
* `CollectionProofs`: `GroupInv`, `AnswerInv` and `BackendInv` over the composition of the command
  with its processes. `AnswerInv` carries the causes of a lost report from where they arise (a
  `RESET` that failed goes with a session that was not reset) to the answer.
* `PreparationProofs`: `RequestInv` (which member was asked, and at most once) and `StartInv` (the
  start times that the run has noted precede the ones it verifies), through the instance of
  `PatroniRestart`. `PlanInv`: what the rounds of `validate_plan` have placed is closed under
  dependencies and every nonempty part of it has a task that depends on none of the part, so an
  accepted plan has no cycle. `ReplicaInv`: the code remembers and compares numbers of replicas per
  key, while the property is about the replicas; the invariant therefore says that the remembered
  numbers are those of the replicas before, under the keys they had, and `CountedByKey` that as
  many replicas answer as answer under each key.
* `InvocationProofs`: `InvocationInv` is the conjunction of the order of stages, the reply, what was
  done, the points, the inputs as read, and the reasons for losing a report. `JoinInv`, for the join
  task: which files are among the sources and in which order (`SourceInv`), that those merged so
  far were compared with the reference (`CompareInv`), how many series and blocks of each there are
  (`ChartInv`, `BlockInv`, by counting positions, since a sum over the sources would need
  induction), and which labels each list holds, in order (`ListInv`).

Type invariants are proved, not run, where a proof needs them.

Only model-checked is liveness (`EventuallyReleased`, `EventuallyRestored`, `PhaseEnds`, `Ends`,
`CommandEnds`, `PreparationEnds`), since the prover handles neither fairness nor ENABLED.

## 5. Not modelled

* Workload profiles, templates and the generators of their data: pure functions of their input.
* Rendering, redaction, links between reports and the catalog of tasks: formatting and content.
* The parsing of single option values, profile manifests, and the command lines of `pg_ctl`, SSH
  and Docker: an option is well formed or it is not (`formed`).
* The queries of the report and of storage snapshots, and the structural checks of a dataset that
  is kept: their effect is a value, none or an error.
* The two provider loops of the OS sampler: the protocol with the series (stop, last window,
  cancellation) is modelled, what they measure is another program's.
* The induction behind recursive data is avoided: no module declares a RECURSIVE operator.
* A third cancellation of a collection, and a second one inside the unlock itself. The end of a
  transport (`benchmark.py:1208`) is modelled, but no property of its effect holds.
* A peer that is lost without a word during a benchmark's lock and journal statements: there a loss
  is an error, and an await without a bound is not modelled as a hang (see Fairness).
* A client of the machine that answers one of two configurations only: it may be selected in one and
  passed over in the other; the model lets the configuration fail.
* A pgbench that survives a SIGKILL of its run (`benchmark.py:512`) and a pooler between tool and
  server: the documentation limits the lock to cooperating processes and direct sessions.

## 6. State of the plan

The order was: lock, journal, scheduler, series (the core); then the process group, copies and the
collection around them; the replica barrier, Patroni restart and plan validation, composed in the
preparation; configuration, join and the invocation; last the proofs of each. All of it is done.
What could follow: variants that bound the steps of a series, a collection or a join, the safety
part of their termination; the sampler as an implementation of the sampler of `BenchmarkSeries`;
and a composition of two whole preparations under one lock, beyond what `FsyncJournal` does with
the abstract lock.
