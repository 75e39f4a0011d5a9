---------------------------- MODULE ToolInstall ----------------------------
(***************************************************************************)
(* Toolset::install_with_deps of src/toolset/toolset_install.rs: the tools *)
(* of one `mise install` are installed in dependency order, at most Jobs   *)
(* at a time. One task (the loop) receives ready tools from the graph and  *)
(* spawns an install job for each; the jobs run concurrently with it, and  *)
(* their results are handled by the loop, before any new tool is received  *)
(* (the select! is biased). While the loop waits for a permit it handles   *)
(* no result.                                                              *)
(***************************************************************************)
EXTENDS DepsGraph

CONSTANTS
    Graphs,     \* the dependency relations considered, each a subset of Key \X Key
    Jobs,       \* the permits of the semaphore
    Generate    \* Settings::generate_lockfiles(): preparations run beside the jobs

ASSUME GraphsAssumption == Graphs \subseteq SUBSET (Key \X Key)
ASSUME JobsAssumption == Jobs \in Nat \ {0}
ASSUME GenerateAssumption == Generate \in BOOLEAN

VARIABLES
    pc,             \* where the loop is
    tr,             \* the received tool that waits for a permit
    running,        \* the install jobs under way, each holding a permit
    ended,          \* <<tool, outcome>> of ended jobs not joined yet
    in_flight,      \* the tools whose job id is recorded, to attribute a panic
    installed,
    failed,         \* the tools reported failed, for whatever reason
    attempted       \* attempted_failures: failed after their installer started

loopVars == <<pc, tr, running, ended, in_flight, installed, failed, attempted>>

vars == <<depsVars, loopVars>>

Outcome == {"ok", "err", "panic"}

Init ==
    /\ \E E \in Graphs : New(E)
    /\ pc = "start"
    /\ tr = None
    /\ running = {}
    /\ ended = {}
    /\ in_flight = {}
    /\ installed = {}
    /\ failed = {}
    /\ attempted = {}

(* The graph is built; the loop subscribes to it.                          *)
Start ==
    /\ pc = "start"
    /\ pc' = "select"
    /\ Subscribe
    /\ UNCHANGED <<tr, running, ended, in_flight, installed, failed, attempted>>

(***************************************************************************)
(* Joining an ended job, from the select! and, after the stream has ended, *)
(* from the drain. A panic is attributed through in_flight.                *)
(***************************************************************************)
JoinedOk(t) ==
    /\ installed' = installed \cup {t}
    /\ CompleteSuccess(t)
    /\ UNCHANGED <<in_flight, failed, attempted>>

(* Mutant: the failure is reported, but not as one of an installer.        *)
JoinedErrUnattempted(t) ==
    /\ failed' = failed \cup {t}
    /\ CompleteFailure(t)
    /\ UNCHANGED <<in_flight, installed, attempted>>

JoinedErr(t) ==
    /\ attempted' = attempted \cup {t}
    /\ failed' = failed \cup {t}
    /\ CompleteFailure(t)
    /\ UNCHANGED <<in_flight, installed>>

JoinedPanic(t) ==
    IF t \in in_flight
      THEN /\ in_flight' = in_flight \ {t}
           /\ attempted' = attempted \cup {t}
           /\ failed' = failed \cup {t}
           /\ CompleteFailure(t)
           /\ UNCHANGED installed
      ELSE UNCHANGED <<depsVars, in_flight, installed, failed, attempted>>

JoinNext(t, o) ==
    /\ pc \in {"select", "drain"}
    /\ <<t, o>> \in ended
    /\ ended' = ended \ {<<t, o>>}
    /\ \/ o = "ok" /\ JoinedOk(t)
       \/ o = "err" /\ JoinedErr(t)
       \/ o = "panic" /\ JoinedPanic(t)
    /\ UNCHANGED <<pc, tr, running>>

(* The second arm of the select!, taken only when no job is ready.         *)
RecvTool(t) ==
    /\ pc = "select"
    /\ ended = {}
    /\ t # None
    /\ Receive(t)
    /\ tr' = t
    /\ pc' = "permit"
    /\ UNCHANGED <<running, ended, in_flight, installed, failed, attempted>>

RecvNone ==
    /\ pc = "select"
    /\ ended = {}
    /\ Receive(None)
    /\ pc' = "drain"
    /\ UNCHANGED <<tr, running, ended, in_flight, installed, failed, attempted>>

(* Mutant: the job id is not recorded, so that a panic is nobody's.        *)
SpawnUnrecorded ==
    /\ pc = "permit"
    /\ Cardinality(running) < Jobs
    /\ running' = running \cup {tr}
    /\ tr' = None
    /\ pc' = "select"
    /\ UNCHANGED <<depsVars, ended, in_flight, installed, failed, attempted>>

(* acquire_owned, then spawn and record the job's id.                      *)
SpawnJob ==
    /\ pc = "permit"
    /\ Cardinality(running) < Jobs
    /\ running' = running \cup {tr}
    /\ in_flight' = in_flight \cup {tr}
    /\ tr' = None
    /\ pc' = "select"
    /\ UNCHANGED <<depsVars, ended, installed, failed, attempted>>

(* A job ends, its permit with it. Jobs are concurrent with the loop.      *)
JobEnds(t, o) ==
    /\ t \in running
    /\ running' = running \ {t}
    /\ ended' = ended \cup {<<t, o>>}
    /\ UNCHANGED <<depsVars, pc, tr, in_flight, installed, failed, attempted>>

(* Mutant: the tools left blocked are not reported.                        *)
FinishSilently ==
    /\ pc = "drain"
    /\ running = {}
    /\ ended = {}
    /\ failed' = failed
    /\ pc' = "done"
    /\ UNCHANGED <<depsVars, tr, running, ended, in_flight, installed, attempted>>

(* The end of install_with_deps: failures of the lockfile preparations,    *)
(* which name tools whose installer ran, and the tools left blocked.       *)
Finish ==
    /\ pc = "drain"
    /\ running = {}
    /\ ended = {}
    /\ \E prep \in IF Generate THEN SUBSET (installed \cup attempted) ELSE {{}} :
          failed' = failed \cup prep \cup BlockedNodes
    /\ pc' = "done"
    /\ UNCHANGED <<depsVars, tr, running, ended, in_flight, installed, attempted>>

Done == pc = "done" /\ UNCHANGED vars

Next ==
    \/ Start
    \/ \E t \in Key, o \in Outcome : JoinNext(t, o)
    \/ \E t \in Key : RecvTool(t)
    \/ RecvNone
    \/ SpawnJob
    \/ \E t \in Key, o \in Outcome : JobEnds(t, o)
    \/ Finish
    \/ Done

(* The loop is one async function polled until it returns, and an install  *)
(* job is a process or a download that ends.                               *)
Fairness ==
    /\ WF_vars(Start)
    /\ WF_vars(\E t \in Key, o \in Outcome : JoinNext(t, o))
    /\ WF_vars((\E t \in Key : RecvTool(t)) \/ RecvNone)
    /\ WF_vars(SpawnJob)
    /\ \A t \in Key : WF_vars(\E o \in Outcome : JobEnds(t, o))
    /\ WF_vars(Finish)

Spec == Init /\ [][Next]_vars /\ Fairness

-----------------------------------------------------------------------------
(***************************************************************************)
(* Properties.                                                             *)
(***************************************************************************)
Started == running \cup {e[1] : e \in ended} \cup installed \cup attempted

(* Every variable has its type.                                            *)
TypeOK ==
    /\ DepsTypeOK
    /\ pc \in {"start", "select", "permit", "drain", "done"}
    /\ tr \in Key \cup {None}
    /\ running \subseteq Key
    /\ ended \subseteq Key \X Outcome
    /\ in_flight \subseteq Key
    /\ installed \subseteq Key
    /\ failed \subseteq Key
    /\ attempted \subseteq Key

(* No installer starts before every tool it depends on was installed: the  *)
(* permit wait, the batch order and a failure joined late do not break it. *)
DependenciesInstalledFirst ==
    \A t \in Started : \A d \in Key : <<t, d>> \in edges => d \in installed

(* The tools that could be installed given the failures met: all their     *)
(* dependencies could be installed and did not fail.                       *)
CouldRun ==
    {n \in Key :
        \A C \in SUBSET Key :
            (\A m \in Key : {k \in Key : <<m, k>> \in edges} \subseteq C \ attempted => m \in C)
                => n \in C}

(* When install_with_deps returns, the tools it started are exactly those  *)
(* that do not depend, through any chain, on a failed tool or on a cycle;  *)
(* each was installed or failed, and all others are reported failed.       *)
EveryToolAccountedFor ==
    pc = "done" =>
        /\ installed \cup attempted = CouldRun
        /\ installed \cap attempted = {}
        /\ Key \ installed \subseteq failed

(* The stream is closed only when nothing is left to start: once the loop  *)
(* stops receiving, no tool is queued, ready or being installed that it    *)
(* does not still join.                                                    *)
ClosedOnlyWhenExhausted ==
    pc \in {"drain", "done"} =>
        /\ \A i \in DOMAIN chan : chan[i] = None
        /\ NewLeaves(graph, blocked) = {}
        /\ graph \subseteq blocked

(***************************************************************************)
(* The abstract specification implemented.                                 *)
(***************************************************************************)
ToolStatus(t) ==
    CASE t \in installed -> "installed"
      [] t \in attempted -> "failed"
      [] t \in running \/ t \in {e[1] : e \in ended} -> "installing"
      [] OTHER -> IF pc = "done" THEN "skipped" ELSE "waiting"

Plan == INSTANCE InstallPlan
    WITH Tool <- Key, needs <- edges, status <- [t \in Key |-> ToolStatus(t)]

(* install_with_deps implements InstallPlan: every step of the loop and of *)
(* the jobs begins, ends or gives up tools as the plan allows, or changes  *)
(* nothing the plan speaks of.                                             *)
ImplementsPlan == Plan!Spec

(* and it settles every tool: the loop cannot stay behind a permit, a      *)
(* result or a message for ever.                                           *)
SettlesPlan == Plan!Settles
=============================================================================
