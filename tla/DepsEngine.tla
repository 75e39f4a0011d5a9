---------------------------- MODULE DepsEngine -----------------------------
(***************************************************************************)
(* DepsEngine::run of src/deps/engine.rs, over several invocations of one  *)
(* project: which providers are stale, the commands of the stale ones in   *)
(* dependency order (run_with_deps, on the graph of DepsGraph) or all at   *)
(* once (run_parallel), and the state file that says, the next time, what  *)
(* is fresh. The user edits sources and the configuration and deletes      *)
(* outputs at any time, also while providers run; the process may die.     *)
(*                                                                         *)
(* Providers have sources and outputs; the stale marker of a created venv, *)
(* the output rules and state files of older versions are left out. One    *)
(* invocation runs at a time.                                              *)
(***************************************************************************)
EXTENDS DepsGraph

CONSTANTS
    Configs,        \* the configurations: depends, inactive
    Invocations,    \* the command lines: selected, only, force, dry
    Jobs,           \* the permits of the semaphore
    Version,        \* the contents a source or a command may have
    Never,          \* no version: no entry in the state file, no outputs
    MaxEdits,       \* bound: edits of sources, commands and outputs
    MaxRuns,        \* bound: invocations
    MaxFaults       \* bound: crashes and failed writes of the state file

(* A provider may depend on one that is not configured, and on itself.     *)
ASSUME ConfigAssumption ==
    \A c \in Configs : c.inactive \subseteq Key /\ \A e \in c.depends : e[1] \in Key
ASSUME InvocationAssumption ==
    Invocations \subseteq
        [selected : SUBSET Key, only : BOOLEAN, force : BOOLEAN, dry : BOOLEAN]
ASSUME JobsAssumption == Jobs \in Nat \ {0}
ASSUME VersionAssumption == Version # {} /\ Never \notin Version \cup (Version \X Version)
ASSUME BoundAssumption == {MaxEdits, MaxRuns, MaxFaults} \subseteq Nat

VARIABLES
    config,
    src,        \* the contents of each provider's sources
    cmd,        \* the effective command of each provider
    built,      \* <<source, command>> that the outputs were made from; half made: <<Never>>
    saved,      \* the state file: <<source hashes, command hash>> of each provider
    pc,
    command,    \* the commands of this invocation
    jobs,       \* the providers whose job was not started
    tr,         \* the received provider that waits for a permit
    running,    \* the jobs in the JoinSet, each with its permit
    begun,      \* those whose command has begun
    saw,        \* the sources as they were when the command of a provider began
    ended,      \* <<provider, succeeded>> of ended jobs not joined yet
    ran, failed, skipped,   \* the results
    toSave,     \* the providers that ran and are not in the state file yet
    requested,  \* history: the stale providers of this invocation
    absent,     \* history: its selected inactive providers
    done,       \* history: what the last successful command of a provider was run on
    edited,     \* history: those whose sources were edited since their command began
    unsaved,    \* history: the providers whose last run is not in the state file
    raced,      \* history: those whose sources were edited during the run that is in it
    edits, runs, faults

worldVars == <<config, src, cmd, edits, edited>>
loopVars == <<pc, command, jobs, tr, running, begun, ended, ran, failed, skipped,
              toSave>>
runVars == <<runs, faults, requested, absent>>

vars == <<depsVars, worldVars, loopVars, built, done, saved, saw, unsaved, raced, runVars>>

Init ==
    /\ config \in Configs
    /\ edges = {} /\ graph = {} /\ sent = {} /\ blocked = {} /\ chan = <<>>
    /\ src \in [Key -> {CHOOSE v \in Version : TRUE}]
    /\ cmd = src
    /\ built = [p \in Key |-> Never]
    /\ saved = [p \in Key |-> Never]
    /\ pc = "idle"
    /\ command = cmd
    /\ jobs = {} /\ tr = None /\ running = {} /\ begun = {} /\ ended = {}
    /\ saw = src
    /\ ran = {} /\ failed = {} /\ skipped = {} /\ toSave = {}
    /\ requested = {} /\ absent = {}
    /\ done = [p \in Key |-> Never]
    /\ unsaved = {} /\ raced = {} /\ edited = {}
    /\ edits = 0 /\ runs = 0 /\ faults = 0

(***************************************************************************)
(* What an invocation is to run.                                           *)
(***************************************************************************)

(* check_freshness.                                                        *)
Fresh(p) == built[p] # Never /\ saved[p] = <<src[p], cmd[p]>>

(* The stale providers among the selected, active ones.                    *)
Candidates(i) == {p \in i.selected \ config.inactive : i.force \/ ~Fresh(p)}

Depends(p) == {e[2] : e \in {f \in config.depends : f[1] = p}}

(* Mutant: only a provider that names an inactive one is held back.        *)
InactiveBlockedOnce(i) ==
    {p \in Candidates(i) : Depends(p) \cap config.inactive \cap i.selected # {}}

(* The candidates that depend on a selected inactive provider, directly or *)
(* through other candidates.                                               *)
InactiveBlocked(i) ==
    {p \in Candidates(i) :
        \A C \in SUBSET Candidates(i) :
            (\A q \in Candidates(i) :
                Depends(q) \cap (C \cup (config.inactive \cap i.selected)) # {} => q \in C)
            => p \in C}

(* An invocation whose --only names an inactive provider is refused. The   *)
(* dependencies that are fresh or not selected count as satisfied, unknown *)
(* ones are only warned about.                                             *)
Begin(i) ==
    LET toRun == Candidates(i) \ InactiveBlocked(i)
        E == UsableEdges({e \in toRun \X toRun : e[2] \in Depends(e[1])})
        cyclic == toRun \ Orderable(toRun, E)
        ordered == \E p \in toRun : Depends(p) # {}
    IN /\ pc = "idle"
       /\ runs < MaxRuns
       /\ ~(i.only /\ i.selected \cap config.inactive # {})
       /\ runs' = runs + 1
       /\ requested' = IF i.dry THEN {} ELSE Candidates(i)
       /\ absent' = i.selected \cap config.inactive
       /\ ran' = {} /\ failed' = {}
       /\ command' = cmd
       /\ IF i.dry \/ toRun = {}
            THEN /\ skipped' = InactiveBlocked(i)
                 /\ UNCHANGED <<depsVars, pc, jobs>>
            ELSE IF ordered
            THEN /\ edges' = E /\ graph' = toRun /\ sent' = {} /\ blocked' = cyclic
                 /\ chan' = <<>>
                 /\ jobs' = toRun \ cyclic
                 /\ skipped' = InactiveBlocked(i) \cup cyclic
                 /\ pc' = "subscribe"
            ELSE /\ jobs' = toRun
                 /\ skipped' = InactiveBlocked(i)
                 /\ pc' = "spawn"
                 /\ UNCHANGED depsVars
       /\ UNCHANGED <<worldVars, tr, running, begun, ended, toSave, built, done, saved, saw, unsaved,
                      raced, faults>>

-----------------------------------------------------------------------------
(***************************************************************************)
(* The jobs. The command reads the sources when it begins or later; when   *)
(* it fails, the outputs are left half made. A panic is caught and is a    *)
(* failure.                                                                *)
(***************************************************************************)
JobBegins(p) ==
    /\ p \in running \ begun
    /\ begun' = begun \cup {p}
    /\ saw' = [saw EXCEPT ![p] = src[p]]
    /\ built' = [built EXCEPT ![p] = <<Never>>]
    /\ unsaved' = unsaved \cup {p}
    /\ edited' = edited \ {p}
    /\ UNCHANGED <<depsVars, config, src, cmd, edits, pc, command, jobs, tr, running, ended, ran,
                   failed, skipped, toSave, done, saved, raced, runVars>>

JobEnds(p, ok) ==
    /\ p \in begun
    /\ running' = running \ {p}
    /\ begun' = begun \ {p}
    /\ ended' = ended \cup {<<p, ok>>}
    /\ \/ /\ ok
          /\ \E s \in {saw[p], src[p]} : built' = [built EXCEPT ![p] = <<s, command[p]>>]
          /\ done' = [done EXCEPT ![p] = <<saw[p], command[p]>>]
       \/ /\ ~ok
          /\ UNCHANGED <<built, done>>
    /\ UNCHANGED <<depsVars, worldVars, pc, command, jobs, tr, ran, failed, skipped, toSave,
                   saved, saw, unsaved, raced, runVars>>

(***************************************************************************)
(* run_with_deps.                                                          *)
(***************************************************************************)
notLoop == <<worldVars, built, done, saved, saw, unsaved, raced, runVars>>

SubscribeReady ==
    /\ pc = "subscribe"
    /\ pc' = "select"
    /\ Subscribe
    /\ UNCHANGED <<command, jobs, tr, running, begun, ended, ran, failed, skipped, toSave, notLoop>>

(* Mutant: the dependents of a failed provider are not taken out of jobs.  *)
JoinForgetsBlocked(p, ok) ==
    /\ pc = "select"
    /\ <<p, ok>> \in ended
    /\ ended' = ended \ {<<p, ok>>}
    /\ \/ ok /\ ran' = ran \cup {p} /\ CompleteSuccess(p) /\ UNCHANGED failed
       \/ ~ok /\ failed' = failed \cup {p} /\ CompleteFailure(p) /\ UNCHANGED ran
    /\ UNCHANGED <<pc, command, jobs, tr, running, begun, skipped, toSave, notLoop>>

(* Mutant: the graph is not told of a failure.                             *)
JoinKeepsFailed(p, ok) ==
    /\ pc = "select"
    /\ <<p, ok>> \in ended
    /\ ended' = ended \ {<<p, ok>>}
    /\ \/ ok /\ ran' = ran \cup {p} /\ CompleteSuccess(p) /\ UNCHANGED failed
       \/ ~ok /\ failed' = failed \cup {p} /\ UNCHANGED <<ran, depsVars>>
    /\ UNCHANGED <<pc, command, jobs, tr, running, begun, skipped, toSave, notLoop>>

(* The first arm of the select!: a failure takes the providers it blocks   *)
(* out of jobs and reports them skipped.                                   *)
Join(p, ok) ==
    /\ pc = "select"
    /\ <<p, ok>> \in ended
    /\ ended' = ended \ {<<p, ok>>}
    /\ \/ /\ ok
          /\ ran' = ran \cup {p}
          /\ CompleteSuccess(p)
          /\ UNCHANGED <<failed, jobs, skipped>>
       \/ /\ ~ok
          /\ failed' = failed \cup {p}
          /\ CompleteFailure(p)
          /\ jobs' = jobs \ (graph' \cap blocked')
          /\ skipped' = skipped \cup (jobs \cap graph' \cap blocked')
          /\ UNCHANGED ran
    /\ UNCHANGED <<pc, command, tr, running, begun, toSave, notLoop>>

(* The second arm, when no job is ready: a provider, or the end.           *)
RecvProvider(p) ==
    /\ pc = "select"
    /\ ended = {}
    /\ p \in Key
    /\ Receive(p)
    /\ IF p \in jobs THEN jobs' = jobs \ {p} /\ tr' = p /\ pc' = "permit"
                     ELSE UNCHANGED <<jobs, tr, pc>>
    /\ UNCHANGED <<command, running, begun, ended, ran, failed, skipped, toSave, notLoop>>

RecvNone ==
    /\ pc = "select"
    /\ ended = {}
    /\ Receive(None)
    /\ pc' = "drain"
    /\ UNCHANGED <<command, jobs, tr, running, begun, ended, ran, failed, skipped, toSave, notLoop>>

SpawnReady ==
    /\ pc = "permit"
    /\ Cardinality(running) < Jobs
    /\ running' = running \cup {tr}
    /\ tr' = None
    /\ pc' = "select"
    /\ UNCHANGED <<depsVars, command, jobs, begun, ended, ran, failed, skipped, toSave, notLoop>>

(* With an error the whole run is one, and what ran is not saved.          *)
Drained ==
    /\ pc = "drain"
    /\ running = {} /\ ended = {}
    /\ pc' = IF failed = {} THEN "save" ELSE "idle"
    /\ toSave' = IF failed = {} THEN ran ELSE {}
    /\ UNCHANGED <<depsVars, command, jobs, tr, running, begun, ended, ran, failed, skipped, notLoop>>

(***************************************************************************)
(* run_parallel: every job is spawned as permits allow, and only then are  *)
(* results joined. The first failure aborts the jobs that have not begun;  *)
(* a command that runs is not interrupted, but its result is dropped.      *)
(***************************************************************************)
SpawnNext(p) ==
    /\ pc = "spawn"
    /\ p \in jobs
    /\ Cardinality(running) < Jobs
    /\ jobs' = jobs \ {p}
    /\ running' = running \cup {p}
    /\ pc' = IF jobs = {p} THEN "join" ELSE "spawn"
    /\ UNCHANGED <<depsVars, command, tr, begun, ended, ran, failed, skipped, toSave, notLoop>>

JoinAny(p, ok) ==
    /\ pc = "join"
    /\ <<p, ok>> \in ended
    /\ ended' = ended \ {<<p, ok>>}
    /\ \/ /\ ok
          /\ ran' = ran \cup {p}
          /\ UNCHANGED <<pc, running, failed>>
       \/ /\ ~ok
          /\ failed' = {p}
          /\ running' = begun
          /\ pc' = "abort"
          /\ UNCHANGED ran
    /\ UNCHANGED <<depsVars, command, jobs, tr, begun, skipped, toSave, notLoop>>

JoinAborted(p, ok) ==
    /\ pc = "abort"
    /\ <<p, ok>> \in ended
    /\ ended' = ended \ {<<p, ok>>}
    /\ UNCHANGED <<depsVars, pc, command, jobs, tr, running, begun, ran, failed, skipped, toSave,
                   notLoop>>

Joined ==
    /\ pc \in {"join", "abort"}
    /\ running = {} /\ ended = {}
    /\ pc' = IF pc = "join" THEN "save" ELSE "idle"
    /\ toSave' = IF pc = "join" THEN ran ELSE {}
    /\ UNCHANGED <<depsVars, command, jobs, tr, running, begun, ended, ran, failed, skipped, notLoop>>

(***************************************************************************)
(* The state file is loaded, changed and saved for each provider that ran: *)
(* its sources as they are now, and the command that was run. A state that *)
(* cannot be hashed or written is only warned about.                       *)
(***************************************************************************)

(* Mutant: the command hash is computed again when the state is saved.     *)
SaveRehashed(p, ok) ==
    /\ pc = "save"
    /\ p \in toSave
    /\ toSave' = toSave \ {p}
    /\ saved' = [saved EXCEPT ![p] = <<src[p], cmd[p]>>]
    /\ unsaved' = unsaved \ {p}
    /\ raced' = IF p \in edited THEN raced \cup {p} ELSE raced \ {p}
    /\ UNCHANGED <<depsVars, worldVars, pc, command, jobs, tr, running, begun, ended, ran, failed,
                   skipped, built, done, saw, runVars>>

Save(p, ok) ==
    /\ pc = "save"
    /\ p \in toSave
    /\ toSave' = toSave \ {p}
    /\ \/ /\ ok
          /\ saved' = [saved EXCEPT ![p] = <<src[p], command[p]>>]
          /\ unsaved' = unsaved \ {p}
          /\ raced' = IF p \in edited THEN raced \cup {p} ELSE raced \ {p}
          /\ UNCHANGED faults
       \/ /\ ~ok
          /\ faults < MaxFaults
          /\ faults' = faults + 1
          /\ UNCHANGED <<saved, unsaved, raced>>
    /\ UNCHANGED <<depsVars, worldVars, pc, command, jobs, tr, running, begun, ended, ran, failed,
                   skipped, built, done, saw, runs, requested, absent>>

Saved ==
    /\ pc = "save"
    /\ toSave = {}
    /\ pc' = "idle"
    /\ UNCHANGED <<depsVars, command, jobs, tr, running, begun, ended, ran, failed, skipped, toSave,
                   notLoop>>

(* The process dies. The state file is written in place: a crash while it  *)
(* is written may lose entries, a file that does not parse counts as empty.*)
Crash ==
    /\ pc # "idle"
    /\ faults < MaxFaults
    /\ faults' = faults + 1
    /\ pc' = "idle"
    /\ jobs' = {} /\ tr' = None /\ running' = {} /\ begun' = {} /\ ended' = {}
    /\ ran' = {} /\ failed' = {} /\ skipped' = {} /\ toSave' = {}
    /\ edges' = {} /\ graph' = {} /\ sent' = {} /\ blocked' = {} /\ chan' = <<>>
    /\ \E lost \in SUBSET (IF pc = "save" THEN Key ELSE {}) :
          saved' = [p \in Key |-> IF p \in lost THEN Never ELSE saved[p]]
    /\ UNCHANGED <<worldVars, command, built, done, saw, unsaved, raced, runs, requested, absent>>

-----------------------------------------------------------------------------
(***************************************************************************)
(* The user, at any time.                                                  *)
(***************************************************************************)
userVars == <<depsVars, loopVars, config, done, saved, saw, unsaved, raced, runVars>>

Edit(p, v) ==
    /\ edits < MaxEdits
    /\ v # src[p]
    /\ src' = [src EXCEPT ![p] = v]
    /\ edited' = edited \cup {p}
    /\ edits' = edits + 1
    /\ UNCHANGED <<cmd, built, userVars>>

EditCommand(p, v) ==
    /\ edits < MaxEdits
    /\ v # cmd[p]
    /\ cmd' = [cmd EXCEPT ![p] = v]
    /\ edits' = edits + 1
    /\ UNCHANGED <<src, edited, built, userVars>>

DeleteOutputs(p) ==
    /\ edits < MaxEdits
    /\ built[p] # Never
    /\ built' = [built EXCEPT ![p] = Never]
    /\ edits' = edits + 1
    /\ UNCHANGED <<src, cmd, edited, userVars>>

EngineStep ==
    \/ SubscribeReady
    \/ \E p \in Key, ok \in BOOLEAN : Join(p, ok) \/ JoinAny(p, ok) \/ JoinAborted(p, ok)
    \/ \E p \in Key : RecvProvider(p) \/ SpawnNext(p)
    \/ RecvNone \/ SpawnReady \/ Drained \/ Joined \/ Saved
    \/ \E p \in Key, ok \in BOOLEAN : Save(p, ok)

JobStep == \E p \in Key : JobBegins(p) \/ \E ok \in BOOLEAN : JobEnds(p, ok)

UserStep == \E p \in Key : DeleteOutputs(p) \/ \E v \in Version : Edit(p, v) \/ EditCommand(p, v)

Next ==
    \/ \E i \in Invocations : Begin(i)
    \/ EngineStep
    \/ JobStep
    \/ UserStep
    \/ Crash

(* The engine and its jobs are polled, and a command ends or is timed out. *)
Fairness == WF_vars(EngineStep) /\ WF_vars(JobStep)

Spec == Init /\ [][Next]_vars /\ Fairness

-----------------------------------------------------------------------------
(* Types.                                                                  *)
TypeOK ==
    /\ DepsTypeOK
    /\ config \in Configs
    /\ {src, cmd, command, saw} \subseteq [Key -> Version]
    /\ built \in [Key -> (Version \X Version) \cup {Never, <<Never>>}]
    /\ {saved, done} \subseteq [Key -> (Version \X Version) \cup {Never}]
    /\ pc \in {"idle", "subscribe", "select", "permit", "drain", "spawn", "join", "abort", "save"}
    /\ (pc = "permit") = (tr # None)
    /\ begun \subseteq running /\ Cardinality(running) <= Jobs
    /\ jobs \cup running \cup ran \cup failed \cup {e[1] : e \in ended} \subseteq requested
    /\ skipped \cup unsaved \cup raced \cup edited \cup requested \cup absent \subseteq Key
    /\ toSave \subseteq ran
    /\ edits <= MaxEdits /\ runs <= MaxRuns /\ faults <= MaxFaults

(* No command runs before the stale providers it depends on have succeeded *)
(* in this invocation, and none runs on an inactive one: a fresh, unknown  *)
(* or not selected dependency is the only one that may be missing.         *)
DependenciesFirst ==
    \A p \in running \cup {e[1] : e \in ended} \cup ran :
        \A d \in Depends(p) \ {p} : d \in requested \cup absent => d \in ran

(* When the run is over without an error, every stale provider is reported *)
(* once: it ran or was skipped; while run_with_deps drains its last jobs,  *)
(* it ran, failed, was skipped or is still at work, and none is forgotten. *)
EveryProviderReported ==
    /\ pc = "save" => ran \cup skipped = requested /\ failed = {}
    /\ pc = "drain" => /\ requested = ran \cup failed \cup skipped \cup running \cup {e[1] : e \in ended}
                       /\ jobs = {}
    /\ ran \cap skipped = {} /\ ran \cap failed = {} /\ skipped \cap failed = {}

(* A provider that is judged fresh has outputs made from the sources and   *)
(* the command it has now, over any sequence of edits, invocations,        *)
(* failures, crashes and lost state files; excepted are providers whose    *)
(* last command is not in the state file (see SuccessIsRecorded) and those *)
(* whose sources were edited while the recorded command ran.               *)
FreshIsCurrent ==
    \A p \in Key \ (unsaved \cup raced) : Fresh(p) => built[p] = <<src[p], cmd[p]>>

(* Between invocations, a provider that is judged fresh has not changed    *)
(* since its last successful run (docs/dev-tools/deps.md), edits during a  *)
(* run apart. Not so: the `?` after run_with_deps returns before the loop  *)
(* that saves "each successfully ran provider" when another one failed.    *)
SuccessIsRecorded ==
    pc = "idle" => \A p \in Key \ raced : Fresh(p) => done[p] = <<src[p], cmd[p]>>

(* Every invocation ends.                                                  *)
RunEnds == pc # "idle" ~> pc = "idle"
=============================================================================
