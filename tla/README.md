# TLA+ models of mise

mise installs development tools, keeps per-directory environments and runs
tasks. This directory holds TLA+ models of the parts of it that run
concurrently, fail half way or share files with other processes: the dependency
scheduler and its two clients (the installation of tools and the deps engine),
the life of one installed version on disk, the task runner, its keep-order
output, the lock files of tasks and the artifact cache of tasks. TLC checks the
models on small instances; TLAPS proves their safety properties for every
instance, with the exceptions listed under "Only model-checked". Paths below are relative to the repository.

## Inventory

### What mise consists of

| Part | State it keeps | Operations | What makes it correct |
|---|---|---|---|
| **Dependency scheduler** `crates/mise-util/src/deps_graph.rs` | graph, `sent`, `blocked`, the sender of one channel | `new` (with cycle detection), `subscribe`, `complete_success`, `complete_failure`, `blocked_nodes` | a node is sent once, after everything it depends on; a failure blocks exactly what depends on it; the stream ends, and ends only when nothing is left to do |
| **Tool installation order** `src/toolset/toolset_install.rs` | a `DepsGraph`, a semaphore, a `JoinSet`, `in_flight` by job id, lists of installed and failed tools | `install_with_deps`: receive, acquire, spawn, join, drain, report | no tool before the tools it depends on; each tool accounted for; panics attributed; termination |
| **Task graph** `src/task/deps.rs` | petgraph of tasks, `sent`, `removed`, `executed`, `post_dep_parents`, a sender | `new`, `new_pruned`, `subscribe`, `remove`, `remove_batch`, `mark_executed`, `unmark_executed`, `is_runnable_post_dep` | as above, and cleanup (`depends_post`) tasks run exactly when the task they belong to started |
| **Task scheduler** `src/task/task_scheduler.rs` | channel of jobs, `in_flight`, semaphore, `JoinSet`, pending spawn futures | `pump_deps`, `run_loop`, `drop_while_stopping`, `join_all` | leaves when there is nothing left, never earlier; a stop drops what must not start and keeps cleanup |
| **Task jobs** `src/cli/run.rs`, `src/task/task_executor.rs` | `failed_tasks`, `interrupted`, permit of each job, injected graphs | `spawn_sched_job`, `run_task_sched`, `exec_task_run_entries`, `inject_and_wait` | at most `--jobs` scripts; nobody waits on itself; every injected graph drains or is given up |
| **Task locks** `src/task/task_lock.rs` | `flock`ed files, `MISE_TASK_LOCKS`, a lock's waiters | `requested`, `try_take`, `LockAcquisition::wait`, release, `check_nested_order` | all or nothing; no deadlock among slots, terminal and locks, across processes; a crash frees the lock |
| **Deps engine** `src/deps/` | provider graph, `jobs`, results, the state file with source and command hashes | `run` (select, judge, run, save), `run_with_deps`, `run_parallel`, `check_freshness` | order as for the installation; every provider reported; what is judged fresh was made from what is there now; every run ends |
| **Version installation** `src/backend/mod.rs`, `src/toolset/install_state.rs`, `src/cli/link.rs` | the install directory of each path, one lock file, one incomplete marker, one postinstall token for a version | `install_version`, `uninstall_version`, `link`, `is_version_installed` | half-done directories are marked; a report is true; a check that takes no lock is not fooled; a hook may use the version it belongs to, nobody else |
| **Artifact cache** `src/task/task_cache.rs`, `task_cache_store.rs` | local manifests and archives, unpublished parts, a remote store, entry locks, an output lock, the marker of the current key | restore, store, promote, mirror, enforce limits, clear, clean up | a hit installs one run's result; a failing restore loses nothing; a remote result has its blobs; the marker tells the truth |
| **Source freshness** `src/task/task_source_checker.rs` | hashes and times of sources | check, record | a task found fresh has not changed since its last success |
| **Keep-order output** `src/task/task_output_handler.rs` | slots in order, a buffer for each, the live task, the finished ones, who injected whom | init, insert injected, line, finish, retire unused, flush | every line once, blocks whole and in definition order, and the live stream moves on |
| **Command runner** `crates/mise-util/src/cmd.rs` | pids of children, signal state | execute, kill all | no child after a Ctrl-C |
| **Daemons** `crates/mise-daemons/`, `src/daemons/` | supervised processes | start, stop, prune | |
| **Lockfile** `src/lockfile.rs`, `src/lockfile/` | `mise.lock` | read, merge, write atomically | |
| Toolset and versions, configuration, backends and plugins, shell integration, HTTP, secrets, system bootstrap, user interface | data, caches, files | transformations and I/O | formats and precedence |

### How they interact

* `mise install` resolves requests, builds edges (`tool_deps.rs`) and hands
  them to a `DepsGraph`. One async loop consumes its leaves and spawns install
  jobs. The jobs never touch the graph; the loop does when it joins them.
* `mise run` builds one task graph. `pump_deps` forwards its leaves to the
  scheduler's channel from a spawned task. `run_loop` turns each message into a
  *spawn future* which it polls itself; the future takes a permit, checks again
  whether the run is stopping, marks the task executed and spawns the *job* as
  a tokio task. The job runs the commands and then removes the task from the
  graph, which emits new leaves through the forwarder.
* A task whose `run` entries name other tasks injects a graph of its own
  (`inject_and_wait`), gives its permit back, forwards the leaves to the same
  scheduler, and waits, polling every 100 ms for a stop.
* A locked task takes lock files shared by all mise processes of the machine,
  together with a slot of its run and the run's terminal (an `RwLock` that an
  `interactive` task writes). A nested `mise run` inherits the locks of the
  task whose script started it through the environment.
* A job tells the keep-order state when its task starts, prints and ends;
  whoever drops a task (the loop, a spawn future, `inject_and_wait`) retires its
  slot.
* `mise deps` (and `mise run` before its tasks) has the deps engine judge each
  provider by the state file and run the stale ones: in order over a `DepsGraph`
  when one depends on another, else all at once by `parallel`, which aborts the
  rest at the first failure.
* Processes that install, remove or link the same version serialise on its lock
  file; whoever asks whether it is installed reads path, token and marker
  without it. A postinstall hook finds a token in its environment that lets the
  commands it starts use the version before it is complete.
* A cached task asks freshness and marker, then the local and the remote store,
  and runs only then; the entry and output locks are files other processes take.
* Failures, SIGINT deaths of children and the Ctrl-C handler are three separate
  flags, read at different places by the loop, the futures and the jobs.

### What is hard here

Three kinds of tokio tasks and a polled future touch one graph between awaits;
each graph is subscribed to twice; a stop may arrive between any two of their
steps and is asked for with three different expressions; locks, slots and the
terminal are waited for in several orders by several processes, any of which may
be killed. On disk, what belongs together is written in several steps (directory
and marker, manifest and archive, outputs and their key, command and state
file), read in several steps by processes that hold no lock, and left as it is
by a failure or a kill. `PROJECT.json` lists the hazards at the lines where they bite, each
with the properties that watch it.

## The modules

| Module | Models | Extends |
|---|---|---|
| `DepsGraph` | `DepsGraph` of `deps_graph.rs`, as operations its clients compose | |
| `DepsGraph_proof` | lemmas about the graph's operations, for both clients | `DepsGraph` |
| `ToolInstall` | `Toolset::install_with_deps` with its jobs | `DepsGraph` |
| `InstallPlan` | abstract: what an ordered installation promises | |
| `ToolInstall_proof` | proofs about `ToolInstall` | `ToolInstall`, `DepsGraph_proof` |
| `TaskGraph` | `Deps` of `task/deps.rs`, one graph per injecting task | |
| `TaskRun` | forwarders, `run_loop`, spawn futures and jobs | `TaskGraph` |
| `TaskRun_proof` | proofs about `TaskRun` | `TaskRun` |
| `TaskLocks` | lock files, slots and terminals of several runs | |
| `TaskLocks_proof` | proofs about `TaskLocks` | `TaskLocks` |
| `KeepOrder` | `KeepOrderState` and the tasks that drive it | |
| `KeepOrder_proof` | proofs about `KeepOrder` | `KeepOrder` |
| `DepsEngine` | `DepsEngine::run` over several invocations, with edits and crashes | `DepsGraph` |
| `DepsEngine_proof` | proofs about `DepsEngine` | `DepsEngine`, `DepsGraph_proof` |
| `VersionInstall` | installs, removals, links and checks of one version by several processes | |
| `VersionInstall_proof` | proofs about `VersionInstall` | `VersionInstall` |
| `TaskCache` | the cache of one task: restore, run, store, clear by several processes | |
| `TaskCache_proof` | proofs about `TaskCache` | `TaskCache` |
| `MC...` | instances for TLC, one for each of the specifications | the above |

Definitions named "Mutant" in their comment are not used by any specification.
Each is a plausible bug in the definition that follows it; putting it in the
place of that definition makes TLC report the property it belongs to, which
shows that the property depends on this piece of the code.

### DepsGraph and ToolInstall

The variables of `DepsGraph` are the fields of the struct, with `chan` for the
unbounded channel. A key is sent once (`sent`); `blocked` holds nodes behind a
failure and, from the start, nodes no order can complete. The two worklist
searches of the code are written as least closed sets. A batch of leaves is
emitted in any order, because the order is the one of the caller's list.

`ToolInstall` has one variable for each piece of local state of
`install_with_deps`. `pc = "permit"` is the await of `acquire_owned`, during
which no result is joined; `ended` are jobs that have finished and that
`join_next` has not returned yet. The `select!` is biased, so `RecvTool` and
`RecvNone` require `ended = {}`. The drain after the stream's end never finds a
job to join: a tool being installed is still in the graph and not blocked, so
`None` has not been sent. A job ends well, with an error, or by a panic,
which only its task id (`in_flight`) attributes. What an installation does, and
the resolution of versions before it, are abstracted to the outcome. `Finish`
adds failures of lockfile preparations, which concern only tools whose installer
ran, and the tools left blocked.

### TaskGraph and TaskRun

A *task* of these modules is one node of one graph; two nodes with the same key
in two graphs are related by `Same`. `rx[g]` follows the receiver through the
two subscriptions. For the main graph nothing can happen between them except the
gap itself, since `pump_deps` runs before the loop; for an injected graph, the
check that the first receiver is empty and its drop are two steps.

`pc[t]` is where the message, future or job of `t` is; the definition of
`Pending`, `InJob` and `Queued` says which thread owns it. A step is what
happens between two acquisitions of the graph's mutex. The order inside a job is
the code's: a failure is recorded (and siblings signalled) before the task is
removed from the graph, the permit is dropped after that. A panic of a job is
caught and counts as a failure. `opts` is the command
line: the tasks asked for, `--jobs`, `--continue-on-error`, and which faults may
happen: a failing task, a child dying by SIGINT, a Ctrl-C, a failing
installation of an injected task's tools. It never changes.

Two expressions for "stopping" are kept apart as in the code: the executor's
(`ExecutorStopping`: something failed or died by SIGINT) and the run's
(`IsStopping`: that, or the Ctrl-C handler ran).

### TaskLocks

Several runs (processes) share the lock files. `RunOf` and `Starter` describe
the tree of tasks: a task started by another of the same run is a run entry, one
of another run is a nested `mise run`. `pc[t]` follows `run_task_sched` and
`exec_task_run_entries`: wait for slot, then terminal, then try the locks in
sorted order; if one is taken give slot and terminal back and wait; with all
locks, try slot and terminal; if one is taken give the locks back and start
again. `Cover` is how tasks injected by a locked task use its slot and terminal.
`Above[t]` are the tasks `t` runs under, at any distance: the least set closed
under `Starter`, whose locks `MISE_TASK_LOCKS` hands down.
`line` is the queue of the fair `RwLock`. `status[r]` says what the run's
executor and its Ctrl-C handler know.

### KeepOrder

The operators from `NewState` to `FlushAll` are the methods of `KeepOrderState`,
from a state record to a state record; what they print is collected in the
record and appended to `printed` by `Commit`. The actions are the callers. A task
may be named by several entries, and by the command line, so `life` is indexed
by occurrence (who named it, which task). A program with `stops` may have its
tasks fail, after which occurrences that have not started are dropped
(`Drop`) or forgotten with their abandoned subgraph (`Abandon`, `Forget`).

The definition order is computed from the program alone (`Ahead`): a task of an
entry belongs to the place of its parent, after the parent's own output if it
runs a script, before it if it is only an anchor. It is claimed for tasks named
once; a task that is named twice keeps the slot it was given first, and those
its parent names after it follow it there. That much is `EntriesInOrder`. It is
claimed while the earlier task has the slot in which the parent placed or found
it (`injected_by` names the parent): a task that ran for `p`, gave its slot up
and is then named by another parent `q` has a new slot in the group of `q`, which
may be behind what `p` named after it. A program in which the command line asks
for that task first, and then for two parents `p` and `q`, does this; the order
of `p`'s entries says nothing about such a slot.

For the blocks on the terminal the claim is for `Settled` tasks: they and those
they are injected by run once and were not stranded, and so does everything that
descends from what a printing parent names before them. The last part is needed.
Let the command line name `p`, `w`, `x` in this order, `p` have the entries `s`
and `u`, and `s` the entry `x`, all of them scripts. `x` has its slot behind `w`
when `s` adopts it into its group, and so into that of `p`; the end of the group
of `p` is then behind `x`, and `u`, which runs once, is printed behind `w`
although its parent comes before `w`. This is what `group_end` is meant to do
with a slot that is already there, and `Settled` leaves `u` out. Without that
part the property holds on the programs of the run and is false in general, as
the proof brought out.

### DepsEngine

`src` and `cmd` are the contents of sources and the effective command; `built`
is what the outputs were really made from, `saved` what the state file says;
`saw` is what a running command read. `Begin` is `run` up to the choice between
`run_with_deps` and `run_parallel`; their loops follow `ToolInstall` and
`parallel.rs`. `Save` hashes the sources when it is done, as the code does, and
stores the command hash taken before the run. The user edits, and the process
dies, at any moment; the state file is written in place, so a crash while it is
saved may lose any of its entries, or all of them.

### VersionInstall

Each process repeats operations on one version. `dir[x]` is what an observer of
the path could tell: absent, partial, filled (all but its hook) or complete;
`marker` and `token` are the two files, `lock` the holder of the third. The
steps are the writes to these in the code's order, each of which may fail where
the code returns an error, and a process may be killed between any two; then the
lock is free and the files stay. `Checker` processes run `is_version_installed`,
one read at a time; the probe of the lock by `PostinstallToken::matches` takes
it for a moment. What a check could have seen is recorded in history variables.

An uninstall, on its own or before a forced install, begins with the backend's
`uninstall_version_impl`, and only then sets the marker. asdf runs the plugin's
script there, vfox its hook, dotnet and rust remove directories or a toolchain
(npm and go change nothing a reader of the path could tell). `OwnUninstall` says
that the backend has one: `BackendRemoves` then takes any part of the path away,
`BackendUninstalled` ends it well or with an error, the path gone or not.

`orphaned` are the paths that are half done and have no marker. The code leaves
one in three ways: the marker, which the paths of a version share, is cleared for
another path (`Unmark`); `link --force` removes a directory it has not marked; a
backend's own uninstall fails, or its process is killed, before the marker is
set (`Gut`). `HalfDoneIsMarked`, `ReportedIsReal` and `CheckIsHonest` leave these
paths out by name, and the table of known divergences lists all three.

### TaskCache

One task in one directory. A run of its command has a number, which stands for
the outputs it writes, the archive and the manifest stored of it; a checksum
agrees when numbers do. `content[n]` is what was archived of run `n`: a mixture if
another process wrote meanwhile. An invocation has any key (the inputs may
have changed), any mode of `--task-cache`, and goes through freshness, marker,
local store, remote store, command, store and mirror as `run_task_sched` does;
another process may be `mise cache task clear`. Renames are separate steps, also
those of a restore (back up, install, roll back). A rollback may fail to remove
what it had installed, and to put back what it had backed up, root by root. A
clear removes the task's entries under their locks (`Sweep`, `SweepManifest`), then
its unpublished parts (`ClearPart`), then the marker.

## Runs

| Run | Instance | Shows |
|---|---|---|
| `tool_install` | four tools; all 64 relations over three of them, a diamond, a chain, a cycle with a tail, a self edge; two jobs; every outcome | dependencies are installed first; the stream ends only when exhausted; on return every tool is accounted for and exactly the tools not behind a failure or a cycle were tried; the loop implements `InstallPlan` and settles it |
| `task_run` | `test` after `build` with cleanup `clean`, beside `lint`, two jobs, failures and a Ctrl-C; the same with `--continue-on-error` and SIGINT deaths; `deploy`, which injects `lint` again, `publish` and its cleanup `notify`, beside `lint` under one job with failing tasks and installations | dependencies end first; nothing is scheduled twice; no leaf of the main graph is lost; scripts hold permits and there are at most `--jobs`; a run nothing stopped leaves nothing behind |
| `task_run_ends` | the same tasks under one job | the run ends (unless a leaf was lost, below); a cleanup task whose parent is marked comes to its turn; when the run returns, cleanup of tasks that began was started |
| `task_locks` | six situations over two locks: a locked task with a child beside an interactive task with a nested run; the same contending for the terminal; a run entry; two runs whose nested runs want each other's lock; two locked tasks on one slot; an interactive locked task with two run entries, one of them interactive; each beside a third process where it matters; failures, timeouts, Ctrl-C and kills at any moment | all or nothing; no hold and wait; waits in order; locks held while a task runs; an interactive task alone on its terminal; every run ends |
| `keep_order` | six programs of up to six tasks: an anchor with two entries, an anchor inside a group, a task also named on the command line, a task of two parents; two lines for each task; failing or not | every line is printed once and in order; the lines of a task are one block; blocks and slots follow the definition order; the first slot is never that of a task that is over |
| `deps_engine` | three providers in a chain, a fork, a cycle with a self edge, unrelated, and with inactive or unknown ones; two invocations with `--force`, `--only`, dry run; two jobs; an edit and a crash or failed write at any moment | no provider runs before what it depends on, or on a failed or inactive one; each is reported once; what is judged fresh is current; every invocation ends |
| `version_install` | two processes, a check, two paths, two operations out of eight kinds; a backend with an uninstall of its own (which may also do nothing, so the others are included); any step may fail, any process be killed | half-done directories are marked; what is reported is so; a check is honest, a token live; the lock comes free |
| `task_cache` | two processes, two keys, two output roots, four modes, raw tasks or not, the entry of one key only in the remote store, that of the other only here; a kill or a failed rename, store, promotion or mirror | a hit is one run's result; restores do not mix or lose outputs; the cleanup leaves the parts of live writers; remote results have their blobs; the marker of a raw task is honest |

Four more runs are expected to be violated. Each shows that the code does not do
what its documentation or comments say:

| Run | Where | What happens |
|---|---|---|
| `nested_hang` | `task_executor.rs:1607` | After a Ctrl-C that no child dies of, an injecting task waits for ever: the loop has left, and the executor's stop test does not know of the Ctrl-C. |
| `deps_unsaved` | `deps/engine.rs:759` | When one provider fails, `run` returns before it saves the state of those that succeeded; after an edit back such a provider is fresh although its last successful run was on other contents. |
| `version_check` | `backend/mod.rs:3963` | A check reads the path, an install fails, removes the directory and then its marker, the check finds no marker: installed. |
| `cache_marker` | `task_cache.rs:537` | A task that is current under one key runs under another and fails half way; the marker still approves the outputs for the first key. The same follows from a read-only or forced run, from a kill between `save_checksum` and `mark_current`, and from runs that overlap. |

### Known divergences without a run

Met while modelling, and reproduced with the models; the properties above leave
these cases out where they say so.

| Where | What the code says | What happens |
|---|---|---|
| `task_executor.rs:1564` | "forward initial leaves synchronously", "then forward remaining leaves asynchronously" (`:1542`, `:1575`) | A leaf sent to the first receiver of an injected graph between the last `try_recv` and the drop is never scheduled, and the graph never drains. `NoLeafLost` states it does not happen; `EndsUnlessLeafLost` assumes it. |
| `task_scheduler.rs:365` | `depends_post` tasks run after the task has ended (`docs/tasks/task-configuration.md:359`) | After a failure the stop cleanup removes tasks still executing from the graph, so a cleanup task begins while its parent's command still runs. |
| `task_executor.rs:1629` | once a task has started its post-dependencies run, whether it succeeds or fails (`docs/tasks/task-configuration.md:367`) | When an injected task fails, the whole injected graph is removed, cleanup tasks of started tasks with it. |
| `run.rs:1474` | the mark is cleared "when cancellation prevents a scheduled task from reaching process startup" (`deps.rs:470`) | A Ctrl-C between two script entries unmarks a task whose first entry ran; its cleanup is skipped. |
| `task_scheduler.rs:365`, `deps.rs:266` | once a task has started its post-dependencies run (`docs/tasks/task-configuration.md:367`) | Cleanup of cleanup: `b` is `depends_post` of `a`, `c` of `b`. When the run stops while `a` is under way, the stop cleanup removes `c`, because `b` is not marked executed yet and `post_dep_parents` hands cleanup down to the dependencies of a cleanup task but not to its own `depends_post`. `b` then runs and `c` never does. |
| `run.rs:1301`, `:1306` | as above | `is_runnable_post_dep` and `mark_executed` are two critical sections; with two jobs, a stop between them removes the cleanup task of a task about to begin. |
| `task_scheduler.rs:365`, `task_executor.rs:1604` | `wait_for`: the task waits for those tasks if they are running (`docs/tasks/task-configuration.md:379`) | Cleanup in a run that stops does not wait for what the stop took out of its graph: a task it waits for in the normal phase; its own dependencies, when the injected graph is removed one by one; tasks that its run entry prunes as completed because the stop removed them. `NeedsFinishFirst` leaves cleanup of a stopping run out (`StartsWhileStopping`). |
| `task_executor.rs:1641` | the lock is held until the last command ends, those of tasks its run entries start included (`docs/tasks/task-configuration.md:714`) | When the run fails, a locked task returns, and its lock is free, while a task it injected still runs. |
| `task_executor.rs:1331` | while an interactive task runs no other task's command does (`docs/tasks/task-configuration.md:748`) | Two tasks of one entry under an interactive locked task run side by side although one is interactive; and one that outlives its locked parent in a failing run meets whatever begins next. `TerminalAlone` leaves out exactly these two. |
| `task_executor.rs:1073` | | A task waiting for a lock asks only `ctrlc::is_cancelled`, and goes on waiting when another task of its run has failed. |
| `task_executor.rs:1620` | "Retiring a live task's slot would strand every line it prints afterwards at the tail of the map" | `inject_and_wait` retires slots of tasks named twice, or past their last check and not yet marked executed (`stranded`). |
| `backend/mod.rs:5911` | "A removal in progress leaves a directory that is not the install it was, which a check that takes no lock must not read as complete" (`:5932`) | A backend's own uninstall (`asdf.rs:485`, `vfox.rs:668`, `dotnet.rs:273`, `rust.rs:1014`) runs before the marker is set. If it fails half way, or mise is killed before `:5934`, a half-removed path has no marker: a check, and the next `install`, take it for complete (`orphaned`). |
| `link.rs:98` | of a removal: it is marked first (`backend/mod.rs:5932`) | `link --force` removes a directory without a marker (`orphaned`). |
| `backend/mod.rs:5937`, `:6056` | | The marker is shared by the paths of a version: an operation on one clears it for another that is half done (`orphaned`). |
| `install_state.rs:1588` | "A postinstall token is valid only while its own install holds this lock" | The token of a killed installer matches while the next one holds the lock and has not removed it yet (`killed`). |

### Bounds

* Dependency relations: three tools give every relation in which one node is
  behind another, beside it or in a cycle with it; the four-node shapes add a
  node with two independent paths and a tail behind a cycle.
* Two jobs is the least number at which jobs overlap and one below the number
  of ready tasks, so the semaphore is both contended and shared; one job is the
  case in which a task that keeps its permit blocks itself.
* The task file has one instance of each thing the code treats differently: a
  dependency, a cleanup task, an independent task, an injected graph with a
  dependency, with a cleanup task and with a task that completed before.
* One Ctrl-C: a second one exits the process. `Multi` says which tasks have
  several script entries: `lint`, which has no cleanup task (known divergences,
  `run.rs:1474`).
* Two locks are the least with an order, four runs the least in which two of
  them extend their locks in opposite orders.
* `keep_order`: two lines are the least with a block to split; the six programs
  have every relation of parent, anchor, entry and second occurrence that
  `insert_injected_tasks` treats differently.
* `deps_engine`: the second invocation judges what the first recorded; one edit
  is enough to make a record stale, and one more in the other direction (the
  `deps_unsaved` run has more edits) to make it look fresh. Two contents suffice
  because only equality of hashes is used.
* `version_install`: two operations on one version, by one process or by two, are
  the least in which one finds what another left; two paths the least that share
  a marker.
* `task_cache`: two processes and two earlier runs, so that a process finds an
  entry, a marker or a part of another; two roots are the least that can be half
  restored; one fault, because what it leaves is what the next process finds.
* Deadlock is not checked where a run may really stop: in the `task_run*` runs,
  since a run that lost a leaf does, and in `deps_engine` and `version_install`,
  which end when their bounds are used up. The other runs check it; `task_cache`
  so shows that every invocation comes to its end.

### Fairness

* Every tokio task, and the loop with the futures it polls, is weakly fair: the
  runtime polls what is ready. Commands and installations end.
* A Ctrl-C, a kill and a timeout are never fair: nobody has to press the key,
  and no timeout need be configured. A wait for a lock that a Ctrl-C has ended
  is fair, since the wait polls for it.
* tokio's semaphore is a FIFO queue; the model lets any waiter take a permit,
  with weak fairness per task, which suffices because each instance has finitely
  many tasks and each takes its permit a bounded number of times.
* `DepsEngine`: the engine's loop and its jobs are weakly fair (they are tokio
  tasks, and a command ends or is timed out). Invocations, edits and crashes are
  not. `VersionInstall`: every process and check goes on until it is killed.
* `KeepOrder` and `TaskCache` have safety properties only and no fairness.
* `RunsEnd` leaves out one infinite behaviour. Two locked tasks of one run with
  one slot can, under weak fairness, keep giving back what the other tries at
  that moment (`Bouncing`). It needs the same coincidence of timing at every
  round; the code has no back-off or turn that rules it out.

## Proofs

Every theorem holds for all values of the constants under the named assumptions
of the module that declares them; TLC evaluates these in every run. Each
inductive invariant was checked by TLC on the instances of the runs before it
was proved. "Inductive invariant" below means: it holds initially, every step
keeps it, and it implies the properties listed.

| Module | Theorem | States |
|---|---|---|
| `ToolInstall_proof` | `TypeCorrect` | `TypeOK` |
| | `InstallOrder` | `DependenciesInstalledFirst` |
| | `StreamEnd` | `ClosedOnlyWhenExhausted` |
| | `Accounting` | `EveryToolAccountedFor` |
| | `Refinement` | `ImplementsPlan`: the specification `InstallPlan` |
| `TaskRun_proof` | `TypeCorrect` | `TypeOK` |
| | `JobsLimit` | `JobsRespected` |
| | `NoSecondSchedule` | `ScheduledOnce`, an action property |
| | `MainLeavesArrive` | `NoMainLeafLost` |
| | `NeedsAreOver` | `NeedsFinishFirst` |
| | `NothingIsLeft` | `NothingLeftBehind` |
| | `CleanupIsStarted` | `CleanupOfBegunStarted`, of runs that are `Serial` |
| `TaskLocks_proof` | `TakenTogether` | `AllOrNothing` |
| | `NeverBoth` | `NoHoldAndWait` |
| | `LockOrder` | `WaitsInOrder` |
| | `LocksOutlastCommands` | `LockedWhileRunning` |
| | `InteractiveAlone` | `TerminalAlone` |
| `KeepOrder_proof` | `KeepOrderTypes` | `TypeOK` |
| | `KeepOrderLines` | `LinesInOrder` |
| | `KeepOrderBlocks` | `OneBlock` |
| | `KeepOrderStream` | `StreamNotPinned` |
| | `KeepOrderDefinition` | `DefinitionOrder`: the blocks and the slots |
| `DepsEngine_proof` | `TypeCorrect` | `TypeOK` |
| | `DependenciesRunFirst` | `DependenciesFirst` |
| | `EveryoneReported` | `EveryProviderReported` |
| | `FreshOutputsAreCurrent` | `FreshIsCurrent` |
| `VersionInstall_proof` | `TypeCorrect` | `TypeOK` |
| | `HalfDoneMarked` | `HalfDoneIsMarked` |
| | `ReportsAreReal` | `ReportedIsReal` |
| | `ChecksAreHonest` | `CheckIsHonest` |
| | `TokensAreLive` | `TokenIsLive` |
| | `NothingOrphaned` | the three properties without their exception, for a `Plain` version |
| `TaskCache_proof` | `TypeCorrect` | `TypeOK` |
| | `HitsAreWhole` | `HitIsOneRun` |
| | `RestoresDoNotMix` | `TreeIsOneArtifact` |
| | `PartsOfTheLivingStay` | `ActivePartIsKept` |
| | `RemoteNamesOnlyBlobs` | `RemoteIsComplete` |
| | `RawMarkers` | `RawMarkerIsHonest` |
| | `NoOutputIsLost` | `OutputsSurvive`, an action property |

### DepsGraph_proof

Lemmas for both clients of the graph, with no invariant of their own:
`EmitLeavesEffect` says what the end of every graph operation does to `sent`
and the channel, `BatchNamesOnce` that a batch names a leaf once,
`DependentsAreLinked` and `UnorderableWaits` that a node behind a failure, or
in or behind a cycle, can name a neighbour that is too. `Dependents` and
`Unorderable` are least closed sets, so these follow by giving a closed set and
need no induction.

### ToolInstall_proof

For every finite set of tools, every relation over it and every positive number
of jobs. `DependenciesInstalledFirst` is not inductive: a tool starts because
it was received, and is received because it was sent. `IInv` adds that
everything sent has its dependencies installed (`SentReady`), that only sent
tools travel through channel, `tr`, jobs and results (`OnlySentFlows`), that a
dependency that left the graph without being installed has its dependents
blocked (`GoneBlocks`), and that `None` is last in the channel and sent only
when nothing unblocked is left (`EndIsFinal`).

`EveryToolAccountedFor` and the refinement need a second layer, `IInv2`: a tool
that left the graph was installed or failed, and a blocked one can name its
reason (`Accounted`); a tool is in the channel, at the permit, running or
ended, in one place only (`OnePlace`); what was sent depends on no failure,
also on none met later (`SentCouldRun`). With it each step of the loop or of a
job is a step of `InstallPlan` or leaves the mapped status of all tools alone.
Assumptions: the keys are finite, `None` is not one, relations are over keys,
there is a job.

### TaskRun_proof

For every finite set of tasks and graphs, every command line and `--jobs`. The
operations on a graph, some of which remove one task, a batch, or a whole graph
one by one, are first reduced to one shape, `Trims`: some tasks leave, leaves
that nothing left holds back are sent. `StepMoves` shows that every step trims
one graph, builds one or leaves them alone; `PcStep` that a task goes forward
only. The invariant then says what a graph looks like (`Shape`: sent leaves
have no dependency left in it, `None` comes from an empty graph), and of each
task: it is in the channel or beyond it, once (`Once`); a script has its permit
(`HasPermit`); what it injected runs while it waits, or has ended, or the run
must stop (`Injects`); it leaves a graph at its end or by a stop (`LeftWell`);
past the last check its needs are over or it is cleanup (`Admitted`).
`LeavesLast` says that a loop that has left without a stop has left nothing
under way. `NothingLeftBehind` rests on all of them: a task of a graph in use
is in it, finished or stopped, and the graph of an injection that is over is
empty.

The attempt to prove `NeedsFinishFirst` without its exception failed, and TLC
confirmed the reason on a larger instance: cleanup of a stopping run does start
before what it needs (known divergences).

`CleanupOfBegunStarted` does not hold of every run, so `CleanupIsStarted` has a
hypothesis, `Serial`, and each clause of it is there because of a divergence:
one job, and every task a script that needs its permit (else a stop comes
between check and mark); scripts of one entry for the tasks that have cleanup
(else a Ctrl-C between two entries unmarks the task); no cleanup of cleanup. What fails, dies or is interrupted, and when, is left open. The
invariant `CInv` adds to `IInv` that a task that began stays marked (`Marked`),
that from its last check on its cleanup is in the graph or has had its turn,
unless a Ctrl-C keeps the task from beginning (`Kept`: with one job nobody else
can stop the run in between, `NobodyElseStops`), and that the loop leaves an
empty graph (`Emptied`). The instance of `task_run_ends` satisfies `Serial`.

Assumptions: tasks are finite, `Root`
is not one, edges stay within a graph and have no cycle (`Deps::new` refuses
one), a command line asks for tasks of the main graph with their dependencies
and cleanup.

### TaskLocks_proof

For every set of runs, tasks and locks and every depth of nesting. `IInv` says,
for every place a task can be at, what it holds there (`SlotKept`, `NoLockYet`,
`AllTaken`, `NothingElse`, `OnlyOwn`) and that the locks it holds sort before
those it misses and after those it inherits (`TakenInOrder`). `IInv2` adds what
relates a task to those above it: whoever started a task waits for it unless
its run is stopping (`StarterWaits`, `EntryWaits`), the tasks past their checks
were admitted by these, nothing is under way in a killed process, and a writer
of a terminal is alone there (`OneWriter`). Each is about one edge of the tree.
That they carry over to all tasks above (`AllAboveWait`, `EntriesAboveWait`)
uses that `Above` is the least closed set and, by `TreeAssumption`, well
founded; `BehindCommand` then finds, for a command without a guard of its own,
the outermost locked task that holds one for it.

`TerminalAlone` had to be stated with its two exceptions (known divergences) to
hold at every depth; the instance `desk` of `task_locks` reaches them.
Assumptions: locks are integers (their sorted ids), the functions that describe
the tasks have their types, tasks form a forest in which siblings are all
entries or all nested runs. That waits in order exclude a cycle among runs is
the classical argument; TLC checks its consequence, `RunsEnd`.

### KeepOrder_proof

For every finite set of tasks, every program over it and every number of lines.
The state of the output is a value that several operations change one after the
other within one step, some of them folded over a sequence of tasks. The proof
follows that: `Sound(k, c, X, Y)` says of a state `k` of the output, in the
middle of a step, how it fits the rest of the run, which is the record `c` (what
is printed, how many lines each task has produced, which tasks are exempt, quiet,
still to end or begun); `X` and `Y` are tasks in transition. Each operation has a
lemma that it keeps `Sound` (`RetireSound`, `ActivateSound`, `FlushSound`,
`FinishedSound`, `UnusedSound`, `InitSound`, `InsertSound`, `LiveLineSound`,
`BufferedLineSound`), and the folds follow by induction on the elements they have
consumed. The library's induction theorems are about operators, which the
provers cannot instantiate; the inductions here take the least element of the
set of counterexamples, a set of numbers (`NatMin`, `NatInd`), and first turn a
fold into the sequence of its intermediate states (`FoldRetire` and its kin).

`IInv` is `Sound` of `ko` in the context of the state, and what the lives of the
tasks satisfy. `StreamNotPinned` needs of it that a finished task is never in the
first slot (`FrontOK`), and that a slot whose task has not finished belongs to an
occurrence that will still end, not to one whose subgraph was abandoned
(`HeldOK`, `Orphan`). `LinesInOrder` needs that what is printed and what is
buffered of a task make up its lines at every moment of a step (`LinesOK`).
`OneBlock` needs that a block that is not the last on the terminal belongs to a
task that is retired and will print no more (`BlocksOK`), and that the live task
is the one in the first slot (`Shape`). `StepBegin` and `StepEnd` pass between the
state and the context of a step; there is one lemma for each action.

`DefinitionOrder` has an invariant of its own on top of that, `OInv`:

* `Lived`: what the lives of tasks, `entry`, `injected_by` and the slots say of
  each other (a task that may print has a slot or is stranded; who injected a
  task that runs once is recorded; an entry that was injected has all of its
  tasks there or known to be complete);
* `Sorted`: of what a printing parent named, the slots are in the order written;
* `Ranked`: in the order of the definition (`Defined`) earlier slots come before
  later ones, and what is on the terminal before what is printed after it and
  before every task that has a slot;
* `Contiguous`: between a printing parent and one of its group there are only
  slots of its group. Without it, the end of a group says nothing about what is
  in front of it.

Every action but `Inject` is `Calm`: it keeps any order of slots and terminal in
which stranded tasks may come last, because lines are only printed from the
first slot, so `CalmOrder` does for all of them. `Inject` is the heart of the
proof. The tasks of an entry get their slots one by one; `Placing` is what holds
in between: slots that were there keep their order (`Grows`), and the place of
the next one is before the parent if it is an anchor (`Anchors`), else behind all
of its group and in front of everything else (`Gathers`). `InsertOrder` and
`InsertUnsettled` show that a new slot at that place has the definition order
with every other, `InsertingParts` to `NotAbove` where the others are;
`JoinedFollows` that what is already on the terminal is ahead of the new tasks;
`GroupEndMax` and `FirstPlace` that `group_end` finds the place. Definition order
is about lineages, so the proof begins with those: that of a task that runs once
is a chain (`LineageChain`), and what is settled is settled with what comes
before it (`EarlierSettled`).

Assumptions: tasks are finite, `Top` is
none of them, there is a line, programs are well formed and name a task that has
entries once (`ProgramAssumption`), since `entry` and `known` follow it by name.

### DepsEngine_proof

For every set of providers and configurations, every number of jobs and any
number of edits, invocations and crashes. While `run_with_deps` is at work the
invariant is that of its graph (`Scheduled`, as for the installation, and that
the graph has every edge to a provider that is stale or inactive,
`EdgesKnown`); `run_parallel` is taken when nothing depends on anything
(`Independent`). Every stale provider is in exactly one place (`Apart`,
`Accounted`), also through a crash or an abort, which end the accounts.
`Sources` is what `FreshIsCurrent` needs: outputs were made from what was saved
or, for a provider that ran and is not saved yet, from the sources it has,
unless these were edited since. Assumptions: configurations and invocations are
well formed, `Never` is no version, there is a version and a job.

### VersionInstall_proof

For every set of processes, checks, paths and requests and every bound on
operations. None of the properties is inductive alone. The invariant `IInv`, at
the end of `VersionInstall`, adds what the process at each step knows of its
request, its path and the marker (`AtStep`: the marker is there from `mark` to
`clear`, the path is absent or complete when the marker is about to go), that a
token belongs to a hook that runs or to an installer that was killed
(`TokenHasHook`), and what a check has recorded of what it could have seen
(`Recorded`: if the path was there and the marker now is not, then the path was
complete, or lost its marker, or a marker was cleared during the check). One
lemma for each action, or group of actions that touch the same files, shows
that it is kept; `Observe`, which records what checks could see, has a lemma of
its own.

`HalfDoneMarked`, `ReportsAreReal` and `ChecksAreHonest` except the orphaned
paths. `NothingOrphaned` says what the exceptions cost: for a version with one
path, a backend without an uninstall of its own and no forced link (`Plain`),
nothing is ever orphaned (`PlainInv`, on top of `IInv`), so a half-done directory
is always marked, every report is true, and a check errs only when a marker is
cleared during it, which is what `version_check` shows. Each clause of `Plain`
removes one of the three ways into `orphaned`; TLC reaches all three.
Assumptions: processes, checks and `Free` are distinct, requests are well formed,
the bound is a number.

### TaskCache_proof

For every set of keys, any number of output roots, processes and faults, and
every way earlier runs may have left the stores. The invariant goes process by
process: which locks and which part it holds at each step and what it is there
for (`PlaceOf`); that the run it carries, and those that manifests, archives
and the remote store name, are whole runs of their key (`EntryOf`, `KeyEntry`);
how far its install has got (`InstallOf`: what was in the directory before can
still be put together from tree and backup). `IdleTree` and `RawWrites` say the
same of the directory when nobody installs, and of the sole writer of a raw
task. Steps that leave the directory alone (`Quiet`, `Calm`) share one lemma;
backup, install, rollback and kill have their own. `OutputsSurvive` is proved
from the invariant action by action. Assumptions: `ConstantsFit`, and
`StartsFit`: the initial stores name runs of existing keys.

### Only model-checked

* Liveness (`SettlesPlan`, `CleanupRuns`, `EndsUnlessLeafLost`, `RunsEnd`,
  `RunEnds`, `LockIsFreed`): out of the prover's reach.
* `CleanupOfBegunStarted` of runs that are not `Serial`: it does not hold there
  (known divergences).

The type invariants of `ToolInstall`, `TaskLocks`, `TaskRun`, `DepsEngine` and
`KeepOrder` are proved and so not checked by a run.

## What is not modelled

* In the modelled parts: confirmations and prompts, secrets, dry runs, output,
  telemetry, argument and template rendering, the marks that make dependents
  of a task stale (`mark_did_work`, `mark_cache_key`), timeouts of single commands, the
  second Ctrl-C, and holder records, which only feed messages. The
  interactive task that has only run entries takes the terminal and drops it at
  once before it injects; `TaskLocks` leaves that step out. After a Ctrl-C it
  treats children that have not begun as dropped; that an injecting parent may
  still wait for them is the subject of `nested_hang`.
* `ToolInstall` begins with a graph that was built; the error of building one
  (`toolset_install.rs:717`) reports every tool as failed and starts no loop.
* `TaskLocks`: an interactive task confirms under the terminal's guard
  (`task_executor.rs:759`) before `check_nested_order` refuses it; the model
  refuses at `Enter`.
* A task of `TaskLocks` starts others either by run entries or from scripts, and
  once; `TaskRun`'s tasks inject one graph each.
* `DepsEngine`: the stale marker of a created venv, output rules, state files of
  older versions, two invocations at once. Sources edited while their command
  runs are set aside (`raced`). The permit of a job is dropped (`engine.rs:999`)
  in the step in which it ends. The drain after the loop (`engine.rs:1025`) finds
  no job: one that runs keeps its provider in the graph and the stream open.
* `KeepOrder`: a failing task may print one more line, which the code does only
  after a panic or without an exit status (`run.rs:1411`), so the model has more
  behaviours than the code; cleanup tasks of a stopping run have no slot in it.
* `VersionInstall`: `mise purge`, which takes no lock; the identity layout, rolling
  versions, repairs in place, markers of older versions. A `make_install_dirs` that
  fails before it has touched an old directory is taken to have touched it, under
  the marker. That a token matches only while the lock is held, which
  `PostinstallToken::matches` probes, is modelled; `TokenIsLive` leaves killed
  installers out, the case the probe is for, and so says nothing of it.
* `TaskCache`: how a key is computed, archives and their checks for symbolic
  links, tasks with `outputs = []`, excluded outputs, manifests of older versions
  (without a checksum, so not verified), staging files of the
  remote store, `mise cache clear`, which takes no locks. Freshness is left open
  except that a missing output is stale; a snapshot of outputs is one step; the
  limits remove any of the entries they listed.
* Source freshness by itself (hashing, globs, times) and the construction of task
  graphs are not modelled.
* Backends, plugins, configuration, shell integration, HTTP, secrets, bootstrap
  and user interface are transformations of data and I/O with no protocol of
  their own between concurrent parts.

## Plan

Done: `DepsGraph`, `ToolInstall`, `InstallPlan`, `TaskGraph`, `TaskRun`,
`TaskLocks`, `KeepOrder`, `DepsEngine`, `VersionInstall`, `TaskCache`; their safety
properties proved but for those under "Only model-checked", and that
`ToolInstall` implements `InstallPlan`.

Next, in this order:

1. Construction of a task graph (`Deps::new`: `depends`, `depends_post`,
   `wait_for`, cycle limit) as operators, checked against a reference definition
   over all small task files.
2. Lockfile preparation and replacement, and daemons, as far as they are
   protocols.
