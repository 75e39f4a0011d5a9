------------------------------ MODULE TaskRun ------------------------------
(***************************************************************************)
(* One `mise run`: the scheduler loop (Scheduler::run_loop), the spawn     *)
(* futures it drives (Run::spawn_sched_job), the jobs they start in the    *)
(* JoinSet, the forwarders of the dependency graphs, and the graphs that   *)
(* tasks inject from their run entries (TaskExecutor::inject_and_wait).    *)
(*                                                                         *)
(* Threads: the loop polls the spawn futures itself, so they advance only  *)
(* while it lives; jobs and forwarders are tokio tasks of their own. A     *)
(* graph is behind one mutex, and a step of this model is what happens     *)
(* between two acquisitions of it.                                         *)
(*                                                                         *)
(* The tasks here are neither interactive nor locked: TaskLocks models the *)
(* terminal and the lock files.                                            *)
(***************************************************************************)
EXTENDS TaskGraph

CONSTANTS
    Script,             \* the tasks that run a script or a file, and need a permit
    Multi,              \* those of them with several script entries
    Invocations         \* the command lines, and what may go wrong in each

ASSUME ScriptAssumption == Script \subseteq Task /\ Multi \subseteq Script
(***************************************************************************)
(* An invocation asks for tasks of the main graph, with everything they    *)
(* depend on and their cleanup tasks, and has the options --jobs and       *)
(* --continue-on-error. Its faults are what may happen while it runs.      *)
(***************************************************************************)
Fault == {"fail", "sigint", "ctrl-c", "install"}

ASSUME InvocationAssumption ==
    \A i \in Invocations :
        /\ i.tasks \subseteq Nodes(Root)
        /\ \A e \in Edges : e[1] \in i.tasks => e[2] \in i.tasks
        /\ \A e \in Post : e[2] \in i.tasks => e[1] \in i.tasks
        /\ i.jobs \in Nat \ {0}
        /\ i.continueOnError \in BOOLEAN
        /\ i.faults \subseteq Fault

VARIABLES
    pc,             \* pc[t]: how far t has come
    permits,        \* the tasks that hold a permit of the semaphore
    allowed,        \* the tasks started with allow_during_interruption
    snapshot,       \* snapshot[t]: completion_state when the job of t, which injects, began
    loop,           \* where run_loop is
    drained,        \* drained_any
    woken,          \* a future of pending_jobs has completed
    cleaned,        \* stop_cleanup_done
    failed,         \* failed_tasks is not empty
    interrupted,    \* the executor's interrupted flag: a task died by SIGINT
    cancelled,      \* ctrlc::is_cancelled()
    began,          \* history: the tasks whose commands began
    opts            \* the invocation

runVars == <<pc, permits, allowed, snapshot, loop, drained, woken, cleaned,
             failed, interrupted, cancelled, began, opts>>

vars == <<graphVars, runVars>>

(***************************************************************************)
(* A task is "idle", then "queued" in the scheduler's channel; its spawn   *)
(* future is at "spawn", waits for a "permit", installs tools ("install")  *)
(* or is about to "mark" the task executed; its job is at "job" before the *)
(* commands, in them ("exec"), waits for the graph it injected ("inject"), *)
(* or for its permit back ("regain"), has "ended" or was "abandoned" at a  *)
(* command, has "removed" itself from the graph, is "gone". A task may     *)
(* also be "dropped" or, with the channel or the future that held it,      *)
(* "lost".                                                                 *)
(***************************************************************************)
Pending == {t \in Task : pc[t] \in {"spawn", "permit", "install", "mark"}}
InJob == {t \in Task : pc[t] \in {"job", "exec", "inject", "regain", "ended", "abandoned",
                                  "removed"}}
InFlight == InJob \cup {t \in Task : pc[t] = "mark"}
Queued == {t \in Task : pc[t] = "queued"}

PcState == {"idle", "queued", "spawn", "permit", "install", "mark", "job", "exec", "inject",
            "regain", "ended", "abandoned", "removed", "gone", "dropped", "lost"}

Injected(t) == Home[t] # Root

(* What the executor knows of a stop: a task failed or died by SIGINT. It  *)
(* does not look at the Ctrl-C handler's flag, the run does.               *)
ExecutorStopping == interrupted \/ failed

IsStopping == cancelled \/ ExecutorStopping

(* What stops new work: a failure unless errors are to be survived, and an *)
(* interruption by the user in any case.                                   *)
MustStop == IsStopping /\ (~opts.continueOnError \/ cancelled)

(* allow_during_interruption of the scheduler's message: a graph injected  *)
(* by a cleanup task inherits it.                                          *)
Inherits(t) == Injected(t) /\ Home[t] \in allowed

(* Mutant: cleanup tasks are stopped like any other.                       *)
MayStartUnlessStopping(t) == ~MustStop \/ Inherits(t)

MayStart(t) == ~MustStop \/ Inherits(t) \/ IsRunnablePostDep(t)

Send(t) == IF loop = "exited" THEN "lost" ELSE "queued"

(***************************************************************************)
(* pump_deps forwards the leaves of the main graph before the loop begins, *)
(* so the run starts with them queued and the first receiver dropped.      *)
(***************************************************************************)
Init ==
    /\ opts \in Invocations
    /\ executed = {}
    /\ graph = [g \in Graph |-> IF g = Root THEN opts.tasks ELSE {}]
    /\ removed = [g \in Graph |-> {}]
    /\ sent = [g \in Graph |-> IF g = Root THEN Leaves(opts.tasks) ELSE {}]
    /\ ready = [g \in Graph |-> {}]
    /\ fin = [g \in Graph |-> FALSE]
    /\ rx = [g \in Graph |-> IF g = Root THEN "gap" ELSE "none"]
    /\ pc = [t \in Task |-> IF t \in Leaves(opts.tasks) THEN "queued" ELSE "idle"]
    /\ permits = {}
    /\ allowed = {}
    /\ snapshot = [t \in Task |-> {}]
    /\ loop = "drain"
    /\ drained = FALSE
    /\ woken = FALSE
    /\ cleaned = FALSE
    /\ failed = FALSE
    /\ interrupted = FALSE
    /\ cancelled = FALSE
    /\ began = {}

-----------------------------------------------------------------------------
(***************************************************************************)
(* Forwarders.                                                             *)
(***************************************************************************)
SubscribeAgain(g) == Resubscribe(g) /\ UNCHANGED runVars

(* A task is taken from the channel and sent to the scheduler; the send is *)
(* ignored when the loop has gone.                                         *)
Forward(g, t) ==
    /\ rx[g] \in {"sync", "open"}
    /\ t \in ready[g]
    /\ ready' = [ready EXCEPT ![g] = @ \ {t}]
    /\ pc' = [pc EXCEPT ![t] = Send(t)]
    /\ UNCHANGED <<graph, removed, sent, executed, fin, rx, permits, allowed, snapshot, loop, drained,
                   woken, cleaned, failed, interrupted, cancelled, began, opts>>

(* The first receiver of an injected graph is found empty (or holds None), *)
SyncEmpty(g) ==
    /\ rx[g] = "sync"
    /\ ready[g] = {}
    /\ rx' = [rx EXCEPT ![g] = "closing"]
    /\ UNCHANGED <<graph, removed, sent, executed, ready, fin, runVars>>

(* and dropped, with whatever was sent to it in between.                   *)
SyncClose(g) ==
    /\ rx[g] = "closing"
    /\ rx' = [rx EXCEPT ![g] = "gap"]
    /\ ready' = [ready EXCEPT ![g] = {}]
    /\ fin' = [fin EXCEPT ![g] = FALSE]
    /\ UNCHANGED <<graph, removed, sent, executed, runVars>>

(* None: main_done becomes true, or the injecting task is told.            *)
ForwardNone(g) ==
    /\ rx[g] = "open"
    /\ ready[g] = {}
    /\ fin[g]
    /\ rx' = [rx EXCEPT ![g] = "done"]
    /\ fin' = [fin EXCEPT ![g] = FALSE]
    /\ UNCHANGED <<graph, removed, sent, executed, ready, runVars>>

MainDone == rx[Root] = "done"

-----------------------------------------------------------------------------
(***************************************************************************)
(* run_loop: drain the channel, clean up once when stopping, leave when    *)
(* the main graph is done and nothing is under way, else wait.             *)
(***************************************************************************)

(* A message, in the drain or in the select!: the task is dropped when the *)
(* run is stopping, unless it is cleanup, else it becomes a spawn future.  *)
Recv(t) ==
    /\ loop \in {"drain", "select"}
    /\ pc[t] = "queued"
    /\ IF MayStart(t)
         THEN /\ pc' = [pc EXCEPT ![t] = "spawn"]
              /\ UNCHANGED <<graph, removed, sent, ready, fin>>
         ELSE /\ pc' = [pc EXCEPT ![t] = "dropped"]
              /\ Remove(t)
    /\ drained' = (loop = "drain")
    /\ loop' = "drain"
    /\ UNCHANGED <<executed, rx, permits, allowed, snapshot, woken, cleaned, failed,
                   interrupted, cancelled, began, opts>>

DrainEnd ==
    /\ loop = "drain"
    /\ Queued = {}
    /\ loop' = "check"
    /\ UNCHANGED <<graphVars, pc, permits, allowed, snapshot, drained, woken, cleaned, failed,
                   interrupted, cancelled, began, opts>>

(* When the loop returns, the channel's messages and the spawn futures go  *)
(* with it.                                                                *)
Exit ==
    /\ loop' = "exited"
    /\ pc' = [t \in Task |-> IF t \in Pending \cup Queued THEN "lost" ELSE pc[t]]
    /\ permits' = permits \ Pending

(* Mutant: the cleanup of a stopped run removes the cleanup tasks too.     *)
StopCleanupOfAll ==
    /\ loop = "check"
    /\ MustStop /\ ~cleaned
    /\ cleaned' = TRUE
    /\ RemoveBatch(Root, graph[Root])
    /\ Exit
    /\ UNCHANGED <<executed, rx, allowed, snapshot, drained, woken, failed, interrupted,
                   cancelled, began, opts>>

StopCleanup ==
    /\ loop = "check"
    /\ MustStop /\ ~cleaned
    /\ cleaned' = TRUE
    /\ LET S == {t \in graph[Root] : ~IsRunnablePostDep(t)}
       IN /\ RemoveBatch(Root, S)
          /\ IF graph[Root] \subseteq S
               THEN Exit
               ELSE UNCHANGED <<loop, pc, permits>>
    /\ UNCHANGED <<executed, rx, allowed, snapshot, drained, woken, failed, interrupted,
                   cancelled, began, opts>>

(* Mutant: the loop leaves when nothing is under way, without main_done.   *)
CheckIdle ==
    /\ loop = "check"
    /\ ~MustStop \/ cleaned
    /\ IF InFlight = {} /\ Pending = {} /\ ~drained
         THEN Exit
         ELSE loop' = "select" /\ UNCHANGED <<pc, permits>>
    /\ UNCHANGED <<graphVars, allowed, snapshot, drained, woken, cleaned, failed, interrupted,
                   cancelled, began, opts>>

(* The exit condition, then the select!.                                   *)
Check ==
    /\ loop = "check"
    /\ ~MustStop \/ cleaned
    /\ IF MainDone /\ InFlight = {} /\ Pending = {} /\ ~drained
         THEN Exit
         ELSE loop' = "select" /\ UNCHANGED <<pc, permits>>
    /\ UNCHANGED <<graphVars, allowed, snapshot, drained, woken, cleaned, failed, interrupted,
                   cancelled, began, opts>>

(* The other arms of the select!: a completed spawn future, and changed()  *)
(* on main_done, which returns at once when its sender has gone.           *)
Wake ==
    /\ loop = "select"
    /\ woken \/ MainDone
    /\ loop' = "drain"
    /\ woken' = FALSE
    /\ drained' = FALSE
    /\ UNCHANGED <<graphVars, pc, permits, allowed, snapshot, cleaned, failed, interrupted,
                   cancelled, began, opts>>

-----------------------------------------------------------------------------
(***************************************************************************)
(* spawn_sched_job.                                                        *)
(***************************************************************************)

(* should_abort_while_stopping: the task leaves the graph, its future ends.*)
Abort(t) ==
    /\ loop # "exited"
    /\ pc[t] \in {"spawn", "permit", "install"}
    /\ pc[t] = "permit" => Cardinality(permits) < opts.jobs
    /\ ~MayStart(t)
    /\ Remove(t)
    /\ pc' = [pc EXCEPT ![t] = "dropped"]
    /\ permits' = permits \ {t}
    /\ woken' = TRUE
    /\ UNCHANGED <<executed, rx, allowed, snapshot, loop, drained, cleaned, failed,
                   interrupted, cancelled, began, opts>>

(* The steps of a future past its first check: a permit (for a script, or  *)
(* for the installation of an injected task's tools), the installation,    *)
(* and last the in_flight increment with is_runnable_post_dep.             *)
NeedsPermit(t) == t \in Script \/ Injected(t)

FirstCheck(t) ==
    /\ loop # "exited"
    /\ pc[t] = "spawn"
    /\ MayStart(t)
    /\ IF NeedsPermit(t)
         THEN pc' = [pc EXCEPT ![t] = "permit"] /\ UNCHANGED allowed
         ELSE /\ pc' = [pc EXCEPT ![t] = "mark"]
              /\ allowed' = IF Inherits(t) \/ IsRunnablePostDep(t) THEN allowed \cup {t}
                                                                  ELSE allowed
    /\ UNCHANGED <<graphVars, permits, snapshot, loop, drained, woken, cleaned, failed,
                   interrupted, cancelled, began, opts>>

Acquire(t) ==
    /\ loop # "exited"
    /\ pc[t] = "permit"
    /\ Cardinality(permits) < opts.jobs
    /\ MayStart(t)
    /\ permits' = permits \cup {t}
    /\ IF Injected(t)
         THEN pc' = [pc EXCEPT ![t] = "install"] /\ UNCHANGED allowed
         ELSE /\ pc' = [pc EXCEPT ![t] = "mark"]
              /\ allowed' = IF IsRunnablePostDep(t) THEN allowed \cup {t} ELSE allowed
    /\ UNCHANGED <<graphVars, snapshot, loop, drained, woken, cleaned, failed, interrupted,
                   cancelled, began, opts>>

Installed(t) ==
    /\ loop # "exited"
    /\ pc[t] = "install"
    /\ MayStart(t)
    /\ pc' = [pc EXCEPT ![t] = "mark"]
    /\ permits' = IF t \in Script THEN permits ELSE permits \ {t}
    /\ allowed' = IF Inherits(t) \/ IsRunnablePostDep(t) THEN allowed \cup {t} ELSE allowed
    /\ UNCHANGED <<graphVars, snapshot, loop, drained, woken, cleaned, failed, interrupted,
                   cancelled, began, opts>>

(* fail_sched_job_before_start.                                            *)
InstallFails(t) ==
    /\ "install" \in opts.faults
    /\ loop # "exited"
    /\ pc[t] = "install"
    /\ MayStart(t)
    /\ failed' = TRUE
    /\ executed' = executed \cup {t}
    /\ Remove(t)
    /\ pc' = [pc EXCEPT ![t] = "gone"]
    /\ permits' = permits \ {t}
    /\ woken' = TRUE
    /\ UNCHANGED <<rx, allowed, snapshot, loop, drained, cleaned, interrupted, cancelled,
                   began, opts>>

(* mark_executed, then the job is spawned and the future completes.        *)
MarkExecuted(t) ==
    /\ loop # "exited"
    /\ pc[t] = "mark"
    /\ executed' = executed \cup {t}
    /\ pc' = [pc EXCEPT ![t] = "job"]
    /\ woken' = TRUE
    /\ UNCHANGED <<graph, removed, sent, ready, fin, rx, permits, allowed, snapshot, loop, drained,
                   cleaned, failed, interrupted, cancelled, began, opts>>

-----------------------------------------------------------------------------
(***************************************************************************)
(* The job: run_task_sched and what follows it in spawn_sched_job.         *)
(***************************************************************************)
Interruptible(t) == cancelled /\ t \notin allowed

(* check_interruption, asked several times before the first command.       *)
Abandons(t) ==
    /\ Interruptible(t)
    /\ pc' = [pc EXCEPT ![t] = "abandoned"]
    /\ UNCHANGED <<began, failed>>

(* The task has nothing to do (task.skip, fresh sources, skip_if, outputs  *)
(* restored from the cache), or is refused (untrusted, a grant, a template,*)
(* a confirmation). A Ctrl-C may have come after the last check.           *)
EndsBeforeCommands(t) ==
    /\ pc' = [pc EXCEPT ![t] = "ended"]
    /\ failed' \in {failed} \cup (IF "fail" \in opts.faults THEN {TRUE} ELSE {})
    /\ UNCHANGED began

BeginsCommands(t) ==
    /\ ~Interruptible(t)
    /\ pc' = [pc EXCEPT ![t] = "exec"]
    /\ began' = began \cup {t}
    /\ UNCHANGED failed

(* run_task_sched up to the first command.                                 *)
Prepare(t) ==
    /\ pc[t] = "job"
    /\ snapshot' = [snapshot EXCEPT ![t] = IF t \in Graph THEN Completed(Home[t]) ELSE {}]
    /\ Abandons(t) \/ EndsBeforeCommands(t) \/ BeginsCommands(t)
    /\ UNCHANGED <<graphVars, permits, allowed, loop, drained, woken, cleaned, interrupted,
                   cancelled, opts>>

(* Between two script entries a Ctrl-C ends the task as if it had not      *)
(* begun: the next command is refused with TaskInterrupted.                *)
RefuseNextEntry(t) ==
    /\ pc[t] = "exec"
    /\ t \in Multi
    /\ Interruptible(t)
    /\ pc' = [pc EXCEPT ![t] = "abandoned"]
    /\ UNCHANGED <<graphVars, permits, allowed, snapshot, loop, drained, woken, cleaned,
                   failed, interrupted, cancelled, began, opts>>

(* Mutant: the permit is kept while the injected graph runs.               *)
InjectHolding(t) ==
    /\ pc[t] = "exec"
    /\ t \in Graph
    /\ rx[t] = "none"
    /\ pc' = [pc EXCEPT ![t] = "inject"]
    /\ NewPruned(t, snapshot[t])
    /\ UNCHANGED <<executed, permits, allowed, snapshot, loop, drained, woken, cleaned, failed,
                   interrupted, cancelled, began, opts>>

(* A run entry that names tasks: the permit is given back, the graph of    *)
(* the named tasks built and subscribed to.                                *)
Inject(t) ==
    /\ pc[t] = "exec"
    /\ t \in Graph
    /\ rx[t] = "none"
    /\ pc' = [pc EXCEPT ![t] = "inject"]
    /\ permits' = permits \ {t}
    /\ NewPruned(t, snapshot[t])
    /\ UNCHANGED <<executed, allowed, snapshot, loop, drained, woken, cleaned, failed,
                   interrupted, cancelled, began, opts>>

GivesUp(t) == ExecutorStopping /\ ~opts.continueOnError /\ t \notin allowed

(* The wait for done_rx ends, and the permit is taken back.                *)
InjectDone(t) ==
    /\ pc[t] = "inject"
    /\ rx[t] = "done"
    /\ IF GivesUp(t)
         THEN pc' = [pc EXCEPT ![t] = "ended"] /\ failed' = TRUE
         ELSE pc' = [pc EXCEPT ![t] = "regain"] /\ UNCHANGED failed
    /\ UNCHANGED <<graphVars, permits, allowed, snapshot, loop, drained, woken, cleaned,
                   interrupted, cancelled, began, opts>>

(* Mutant: the task goes on without its permit.                            *)
RegainNothing(t) ==
    /\ pc[t] = "regain"
    /\ pc' = [pc EXCEPT ![t] = "exec"]
    /\ UNCHANGED <<graphVars, permits, allowed, snapshot, loop, drained, woken, cleaned,
                   failed, interrupted, cancelled, began, opts>>

Regain(t) ==
    /\ pc[t] = "regain"
    /\ t \in Script => Cardinality(permits) < opts.jobs
    /\ permits' = IF t \in Script THEN permits \cup {t} ELSE permits
    /\ pc' = [pc EXCEPT ![t] = "exec"]
    /\ UNCHANGED <<graphVars, allowed, snapshot, loop, drained, woken, cleaned, failed,
                   interrupted, cancelled, began, opts>>

(* The stop seen by the 100ms poll: every task of the graph is removed and *)
(* the task fails.                                                         *)
InjectAbort(t) ==
    /\ pc[t] = "inject"
    /\ rx[t] \in {"gap", "open", "done"}
    /\ GivesUp(t)
    /\ RemoveOneByOne(t)
    /\ pc' = [pc EXCEPT ![t] = "ended"]
    /\ failed' = TRUE
    /\ UNCHANGED <<executed, rx, permits, allowed, snapshot, loop, drained, woken, cleaned,
                   interrupted, cancelled, began, opts>>

(* The commands end: well, by a failure (which also SIGTERMs the siblings) *)
(* or by SIGINT. The failure is recorded before the graph is touched.      *)
CommandsEnd(t) ==
    /\ pc[t] = "exec"
    /\ pc' = [pc EXCEPT ![t] = "ended"]
    /\ \/ /\ t \in Graph => rx[t] # "none"
          /\ UNCHANGED <<failed, interrupted>>
       \/ /\ "fail" \in opts.faults
          /\ failed' = TRUE
          /\ UNCHANGED interrupted
       \/ /\ "sigint" \in opts.faults \/ cancelled
          /\ interrupted' = TRUE
          /\ UNCHANGED failed
    /\ UNCHANGED <<graphVars, permits, allowed, snapshot, loop, drained, woken, cleaned,
                   cancelled, began, opts>>

(* The task leaves the graph, unmarked if it was refused a command. A task *)
(* refused a command counts as interrupted.                                *)
RemoveSelf(t) ==
    /\ pc[t] \in {"ended", "abandoned"}
    /\ executed' = IF pc[t] = "abandoned" THEN executed \ {t} ELSE executed
    /\ interrupted' = (interrupted \/ pc[t] = "abandoned")
    /\ Remove(t)
    /\ pc' = [pc EXCEPT ![t] = "removed"]
    /\ UNCHANGED <<rx, permits, allowed, snapshot, loop, drained, woken, cleaned, failed,
                   cancelled, began, opts>>

(* in_flight is decremented and the job's future dropped, with its permit. *)
JobOver(t) ==
    /\ pc[t] = "removed"
    /\ pc' = [pc EXCEPT ![t] = "gone"]
    /\ permits' = permits \ {t}
    /\ UNCHANGED <<graphVars, allowed, snapshot, loop, drained, woken, cleaned, failed,
                   interrupted, cancelled, began, opts>>

(* The first Ctrl-C: the handler marks the run cancelled and SIGINTs the   *)
(* children. (A second one exits the process.)                             *)
CtrlC ==
    /\ "ctrl-c" \in opts.faults
    /\ ~cancelled
    /\ cancelled' = TRUE
    /\ UNCHANGED <<graphVars, pc, permits, allowed, snapshot, loop, drained, woken, cleaned,
                   failed, interrupted, began, opts>>

(* join_all has seen every job end.                                        *)
Returned == loop = "exited" /\ InJob = {}

Over == Returned /\ UNCHANGED vars

Spawning(t) ==
    \/ Abort(t) \/ FirstCheck(t) \/ Acquire(t) \/ Installed(t) \/ InstallFails(t)
    \/ MarkExecuted(t)

Running(t) ==
    \/ Prepare(t) \/ RefuseNextEntry(t) \/ Inject(t) \/ InjectDone(t) \/ Regain(t)
    \/ InjectAbort(t) \/ CommandsEnd(t) \/ RemoveSelf(t) \/ JobOver(t)

Forwarding(g) ==
    \/ SubscribeAgain(g) \/ (\E t \in Task : Forward(g, t)) \/ SyncEmpty(g) \/ SyncClose(g)
    \/ ForwardNone(g)

Looping == (\E t \in Task : Recv(t)) \/ DrainEnd \/ StopCleanup \/ Check \/ Wake

Next ==
    \/ \E g \in Graph : Forwarding(g)
    \/ Looping
    \/ \E t \in Task : Spawning(t) \/ Running(t)
    \/ CtrlC
    \/ Over

(* Every tokio task is polled as long as it can advance, the semaphore is  *)
(* fair, commands end. Nobody has to press Ctrl-C.                         *)
Fairness ==
    /\ \A g \in Graph : WF_vars(Forwarding(g))
    /\ WF_vars(Looping)
    /\ \A t \in Task : WF_vars(Spawning(t)) /\ WF_vars(Running(t))

Spec == Init /\ [][Next]_vars /\ Fairness

-----------------------------------------------------------------------------
(***************************************************************************)
(* Properties.                                                             *)
(***************************************************************************)

(* Every variable has its type.                                            *)
TypeOK ==
    /\ GraphTypeOK
    /\ pc \in [Task -> PcState]
    /\ permits \subseteq Task
    /\ allowed \subseteq Task
    /\ snapshot \in [Task -> SUBSET Task]
    /\ loop \in {"drain", "check", "select", "exited"}
    /\ {drained, woken, cleaned, failed, interrupted, cancelled} \subseteq BOOLEAN
    /\ began \subseteq Task
    /\ opts \in Invocations

(* A task is over: its job has left the graph, or the same task had run    *)
(* before the graph was built.                                             *)
Finished(t) ==
    \/ pc[t] \in {"removed", "gone"}
    \/ \E c \in Task : <<t, c>> \in Same /\ pc[c] \in {"removed", "gone"}

(* Cleanup that a stopped run still lets start: a task of the cleanup      *)
(* subtree of another, or one injected by a task that was let start so.    *)
StartsWhileStopping(t) == MustStop /\ (Inherits(t) \/ \E u \in Task : <<t, u>> \in Post)

(* No command of a task begins before every task it depends on is over,    *)
(* through resubscriptions, permit waits and the pruning of injected       *)
(* graphs; except for cleanup in a run that is stopping, which no longer   *)
(* waits for what the stop has taken out of its graph.                     *)
NeedsFinishFirst ==
    \A t \in began : \A d \in Task :
        <<t, d>> \in Needs => Finished(d) \/ StartsWhileStopping(t)

(* No task is scheduled twice, although a graph is subscribed to twice and *)
(* a leaf whose send failed is sent again.                                 *)
ScheduledOnce ==
    [][\A t \in Task : pc'[t] = "queued" => pc[t] \in {"idle", "queued"}]_vars

(* A leaf that counts as sent is on its way or being run: between the two  *)
(* subscriptions of the main graph nothing is lost.                        *)
OnItsWay(g) ==
    \A t \in sent[g] \cap graph[g] : t \in ready[g] \/ pc[t] \notin {"idle", "lost"}

NoMainLeafLost == loop # "exited" => OnItsWay(Root)

(* The same of every graph.                                                *)
NoLeafLost == loop # "exited" => \A g \in Graph : OnItsWay(g)

(* Scripts run under a permit, and there are never more than --jobs of     *)
(* them, although injecting tasks give their permit back and retake it.    *)
JobsRespected ==
    /\ {t \in Script : pc[t] = "exec"} \subseteq permits
    /\ Cardinality(permits) <= opts.jobs

(* A run that nothing stopped has run everything: when the loop leaves, no *)
(* task of a graph in use is left waiting, queued or under way.            *)
NothingLeftBehind ==
    loop = "exited" /\ ~MustStop =>
        \A t \in Task :
            rx[Home[t]] # "none" /\ (Home[t] = Root => t \in opts.tasks) => Finished(t)

(* The cleanup tasks of a task that started run: while one is in the main  *)
(* graph and its parent is marked, it is going to begin, be found up to    *)
(* date or fail, whatever stops the run, unless the parent is unmarked.    *)
CleanupRuns ==
    \A p \in {e[1] : e \in Post} :
        (p \in graph[Root] /\ IsRunnablePostDep(p)) ~>
            (pc[p] \in {"ended", "removed", "gone"} \/ ~IsRunnablePostDep(p))

(* The run ends, unless a leaf was lost between two subscriptions.         *)
EndsUnlessLeafLost == []NoLeafLost => <>Returned

(* When the run returns, the cleanup tasks of every task of the main graph *)
(* that began have been started.                                           *)
CleanupOfBegunStarted ==
    Returned =>
        \A p \in Nodes(Root) :
            (\E t \in began : <<p, t>> \in Post) => pc[p] = "gone"
=============================================================================
