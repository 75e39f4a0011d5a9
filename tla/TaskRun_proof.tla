--------------------------- MODULE TaskRun_proof ---------------------------
(***************************************************************************)
(* Proofs about TaskRun, for every set of tasks and graphs, every command  *)
(* line and every --jobs: no task is scheduled twice and no leaf of the    *)
(* main graph is lost, although a graph is subscribed to twice; scripts    *)
(* hold permits and there are at most --jobs of them; a task begins when   *)
(* what it needs is over; a run that nothing stops leaves nothing behind.  *)
(*                                                                         *)
(* The steps on a graph are reduced to two shapes first: Trims, which      *)
(* takes tasks out and sends leaves, and the injection of a new graph. The *)
(* invariant then says what a graph (Shape) and a task (the others) look   *)
(* like between two steps.                                                 *)
(***************************************************************************)
EXTENDS TaskRun, FiniteSetTheorems, TLAPS

HasLeft(t) == pc[t] \in {"removed", "gone"}

(* What a graph holds, has lost and has sent are its own tasks; a leaf is  *)
(* sent once, when nothing it waits for is left; None comes from an empty  *)
(* graph. The main graph is subscribed to before the loop begins.          *)
Shape(g) ==
    /\ graph[g] \cup removed[g] \cup sent[g] \subseteq Nodes(g)
    /\ ready[g] \subseteq sent[g]
    /\ fin[g] \/ rx[g] = "done" => graph[g] = {}
    /\ rx[g] = "none" => sent[g] = {}
    /\ \A t \in sent[g], d \in graph[g] : <<t, d>> \notin Edges
    /\ g = Root => /\ rx[g] \in {"gap", "open", "done"}
                   /\ graph[g] \cup sent[g] \subseteq opts.tasks

(* A task waits in the channel of its graph until it is forwarded, and     *)
(* comes there once.                                                       *)
Once(t) ==
    /\ pc[t] # "idle" => t \in sent[Home[t]]
    /\ t \in ready[Home[t]] => pc[t] = "idle"
    /\ t \in sent[Root] => t \in ready[Root] \/ pc[t] # "idle"
    /\ pc[t] = "lost" => loop = "exited"
    /\ t \in began => pc[t] # "idle"

(* A script has a permit from its acquisition on, but while it injects.    *)
HasPermit(t) ==
    t \in Script /\ pc[t] \in {"install", "mark", "job", "exec"} => t \in permits

(* What a task injected runs while it waits, or ended well, or the run is  *)
(* stopping.                                                               *)
Injects(t) ==
    /\ pc[t] = "inject" => t \in Graph
    /\ t \in Graph /\ rx[t] # "none" =>
           /\ pc[t] \in {"inject", "regain", "exec", "ended", "abandoned", "removed", "gone"}
           /\ rx[t] = "done" \/ pc[t] = "inject" \/ MustStop

(* Only a stop takes a task out of a graph that has not ended.             *)
LeftWell(t) ==
    /\ t \in removed[Home[t]] => HasLeft(t) \/ MustStop
    /\ snapshot[t] \subseteq removed[Home[t]]
    /\ rx[Home[t]] # "none" /\ (Home[t] = Root => t \in opts.tasks) =>
           t \in graph[Home[t]] \/ Finished(t) \/ MustStop

(* A task past its last check has what it needs, or is cleanup.            *)
Admitted(t) ==
    t \in began \/ pc[t] \in {"mark", "job"} =>
        \A d \in Task : <<t, d>> \in Needs =>
            Finished(d) \/ Inherits(t) \/ \E u \in Task : <<t, u>> \in Post

(* A loop that has left a run that goes on has left nothing under way.     *)
LeavesLast == loop = "exited" => MustStop \/ (MainDone /\ InFlight = {})

AtMostJobs == Cardinality(permits) <= opts.jobs

TaskInv(t) ==
    Once(t) /\ HasPermit(t) /\ Injects(t) /\ LeftWell(t) /\ Admitted(t)

IInv ==
    /\ TypeOK
    /\ \A g \in Graph : Shape(g)
    /\ \A t \in Task : TaskInv(t)
    /\ AtMostJobs
    /\ LeavesLast

-----------------------------------------------------------------------------
(***************************************************************************)
(* What a step does to the graphs.                                         *)
(***************************************************************************)

(* G is left of graph g, the leaves X are sent, None with the last task.   *)
Trims(g, G, X) ==
    /\ g \in Graph
    /\ G \subseteq graph[g]
    /\ X \subseteq graph[g] \ sent[g]
    /\ \A x \in X, d \in G : <<x, d>> \notin Edges
    /\ X # {} => rx'[g] # "none"
    /\ graph' = [graph EXCEPT ![g] = G]
    /\ removed' = [removed EXCEPT ![g] = @ \cup (graph[g] \ G)]
    /\ sent' = [sent EXCEPT ![g] = @ \cup X]
    /\ ready' = [ready EXCEPT ![g] = @ \cup X]
    /\ fin' \in [Graph -> BOOLEAN]
    /\ \A h \in Graph : fin'[h] => fin[h] \/ (h = g /\ G = {})

(* Nothing but a receiver's state changes.                                 *)
SameGraphs == UNCHANGED <<graph, removed, sent, ready, fin>>

(* The main graph and the home of every task are graphs.                   *)
LEMMA GraphType == Root \in Graph /\ \A t \in Task : Home[t] \in Graph
BY DEF Graph

(* Every other graph is named by the task that injected it.                *)
LEMMA GraphIsTask == ASSUME NEW g \in Graph, g # Root PROVE g \in Task
BY HomeAssumption DEF Graph

(* emit_leaves sends what nothing left in the graph holds back.            *)
LEMMA EmitTrims ==
  ASSUME GraphTypeOK, NEW g \in Graph, NEW G \in SUBSET graph[g],
         NEW b \in BOOLEAN, b => rx'[g] # "none",
         graph' = [graph EXCEPT ![g] = G],
         removed' = [removed EXCEPT ![g] = @ \cup (graph[g] \ G)],
         EmitLeaves(g, G, b)
  PROVE  \E X : Trims(g, G, X)
<1> DEFINE X == IF b THEN Leaves(G) \ sent[g] ELSE {}
<1>1. X \subseteq graph[g] \ sent[g] /\ \A x \in X, d \in G : <<x, d>> \notin Edges
  BY DEF Leaves
<1>2. sent' = [sent EXCEPT ![g] = @ \cup X] /\ ready' = [ready EXCEPT ![g] = @ \cup X]
  <2>1. CASE b
    <3>1. sent[g] \cup Leaves(G) = sent[g] \cup X
      BY <2>1
    <3> QED
      BY <2>1, <3>1 DEF EmitLeaves
  <2>2. CASE ~b
    BY <2>2 DEF EmitLeaves, GraphTypeOK
  <2> QED
    BY <2>1, <2>2
<1>3. fin' \in [Graph -> BOOLEAN]
  BY DEF EmitLeaves, GraphTypeOK
<1>4. \A h \in Graph : fin'[h] => fin[h] \/ (h = g /\ G = {})
  BY DEF EmitLeaves, GraphTypeOK
<1>5. X # {} => rx'[g] # "none"
  OBVIOUS
<1>6. Trims(g, G, X)
  <2> HIDE DEF X
  <2> QED
    BY <1>1, <1>2, <1>3, <1>4, <1>5 DEF Trims
<1> QED
  BY <1>6

(* So a removal trims a graph, or finds that the task has left it;         *)
LEMMA RemoveTrims ==
  ASSUME GraphTypeOK, NEW t \in Task, Remove(t), UNCHANGED rx
  PROVE  SameGraphs \/ \E X : Trims(Home[t], graph[Home[t]] \ {t}, X)
<1> DEFINE g == Home[t]
<1>1. g \in Graph
  BY GraphType
<1>2. CASE t \in graph[g]
  <2> DEFINE G == graph[g] \ {t}
  <2>1. /\ graph' = [graph EXCEPT ![g] = G]
        /\ removed' = [removed EXCEPT ![g] = @ \cup {t}]
        /\ EmitLeaves(g, G, Receiving(g))
    BY <1>2 DEF Remove
  <2>2. graph[g] \ G = {t}
    BY <1>2
  <2>3. Receiving(g) \in BOOLEAN /\ (Receiving(g) => rx'[g] # "none")
    BY DEF Receiving
  <2> HIDE DEF G
  <2>4. G \in SUBSET graph[g]
    BY DEF G
  <2>5. \E X : Trims(g, G, X)
    BY <1>1, <2>1, <2>2, <2>3, <2>4, EmitTrims
  <2> QED
    BY <2>5 DEF G
<1>3. CASE t \notin graph[g]
  BY <1>3 DEF Remove, SameGraphs
<1> QED
  BY <1>2, <1>3

(* so does a removal in one batch,                                         *)
LEMMA BatchTrims ==
  ASSUME GraphTypeOK, NEW g \in Graph, NEW S, RemoveBatch(g, S), UNCHANGED rx
  PROVE  \E X : Trims(g, graph[g] \ S, X)
<1> DEFINE G == graph[g] \ S
<1>1. graph[g] \ G = graph[g] \cap S
  OBVIOUS
<1>2. /\ graph' = [graph EXCEPT ![g] = G]
      /\ removed' = [removed EXCEPT ![g] = @ \cup (graph[g] \ G)]
      /\ EmitLeaves(g, G, Receiving(g))
  BY <1>1 DEF RemoveBatch
<1>3. Receiving(g) \in BOOLEAN /\ (Receiving(g) => rx'[g] # "none")
  BY DEF Receiving
<1>4. G \in SUBSET graph[g]
  OBVIOUS
<1> HIDE DEF G
<1>5. \E X : Trims(g, G, X)
  BY <1>2, <1>3, <1>4, EmitTrims
<1> QED
  BY <1>5 DEF G

(* the removal one by one of a stopped injection,                          *)
LEMMA OneByOneTrims ==
  ASSUME GraphTypeOK, NEW g \in Graph, RemoveOneByOne(g), UNCHANGED rx
  PROVE  \E X : Trims(g, {}, X)
<1>1. CASE Receiving(g) /\ graph[g] # {}
  <2>1. PICK X \in SUBSET (graph[g] \ sent[g]) :
            /\ sent' = [sent EXCEPT ![g] = @ \cup X]
            /\ ready' = [ready EXCEPT ![g] = @ \cup X]
            /\ fin' = [fin EXCEPT ![g] = TRUE]
    BY <1>1 DEF RemoveOneByOne
  <2>2. rx'[g] # "none"
    BY <1>1 DEF Receiving
  <2>3. fin' \in [Graph -> BOOLEAN] /\ \A h \in Graph : fin'[h] => fin[h] \/ h = g
    BY <2>1 DEF GraphTypeOK
  <2>4. graph[g] \ {} = graph[g]
    OBVIOUS
  <2>5. Trims(g, {}, X)
    BY <2>1, <2>2, <2>3, <2>4 DEF Trims, RemoveOneByOne
  <2> QED
    BY <2>5
<1>2. CASE ~(Receiving(g) /\ graph[g] # {})
  <2>1. UNCHANGED <<sent, ready, fin>>
    BY <1>2 DEF RemoveOneByOne
  <2>2. sent' = [sent EXCEPT ![g] = @ \cup {}] /\ ready' = [ready EXCEPT ![g] = @ \cup {}]
    BY <2>1 DEF GraphTypeOK
  <2>3. graph[g] \ {} = graph[g]
    OBVIOUS
  <2>4. Trims(g, {}, {})
    BY <2>1, <2>2, <2>3 DEF Trims, RemoveOneByOne, GraphTypeOK
  <2> QED
    BY <2>4
<1> QED
  BY <1>1, <1>2

(* and the second subscription, which takes nothing out.                   *)
LEMMA ResubscribeTrims ==
  ASSUME GraphTypeOK, NEW g \in Graph, Resubscribe(g)
  PROVE  \E X : Trims(g, graph[g], X)
<1> DEFINE G == graph[g]
<1>1. graph[g] \ G = {}
  OBVIOUS
<1>2. graph' = [graph EXCEPT ![g] = G] /\ removed' = [removed EXCEPT ![g] = @ \cup {}]
  BY DEF Resubscribe, GraphTypeOK
<1>3. EmitLeaves(g, G, TRUE) /\ rx'[g] # "none"
  BY DEF Resubscribe, GraphTypeOK
<1>4. G \in SUBSET graph[g]
  OBVIOUS
<1> HIDE DEF G
<1>5. \E X : Trims(g, G, X)
  BY <1>1, <1>2, <1>3, <1>4, EmitTrims
<1> QED
  BY <1>5 DEF G

(* The steps on graphs: none; tasks taken out and leaves sent, by whatever *)
(* operation; the second subscription; an injection; a receiver's steps.   *)
GraphMoves ==
    \/ SameGraphs /\ UNCHANGED rx
    \/ UNCHANGED rx /\ \E g, G, X : Trims(g, G, X)
    \/ \E g \in Graph : /\ rx[g] = "gap" /\ rx' = [rx EXCEPT ![g] = "open"]
                        /\ \E X : Trims(g, graph[g], X)
    \/ \E t \in Task : Inject(t)
    \/ \E g \in Graph : \/ \E t \in Task : Forward(g, t)
                        \/ SyncEmpty(g) \/ SyncClose(g) \/ ForwardNone(g)

(* Every step is one of these.                                             *)
LEMMA StepMoves == ASSUME IInv, [Next]_vars PROVE GraphMoves
<1>a. GraphTypeOK
  BY DEF IInv, TypeOK
<1>1. CASE SameGraphs /\ UNCHANGED rx
  BY <1>1 DEF GraphMoves
<1>2. ASSUME NEW g \in Graph, Forwarding(g) PROVE GraphMoves
  <2>1. CASE SubscribeAgain(g)
    <3>1. Resubscribe(g)
      BY <2>1 DEF SubscribeAgain
    <3>2. \E X : Trims(g, graph[g], X)
      BY <3>1, <1>a, ResubscribeTrims
    <3> QED
      BY <3>1, <3>2 DEF GraphMoves, Resubscribe
  <2> QED
    BY <1>2, <2>1 DEF Forwarding, GraphMoves
<1>3. ASSUME NEW t \in Task, Remove(t), UNCHANGED rx PROVE GraphMoves
  BY <1>a, <1>3, RemoveTrims DEF GraphMoves
<1>4. CASE Looping
  <2>1. CASE StopCleanup
    BY <1>a, <2>1, BatchTrims, GraphType DEF GraphMoves, StopCleanup
  <2>2. ASSUME NEW t \in Task, Recv(t) PROVE GraphMoves
    BY <1>1, <1>3, <2>2 DEF Recv, SameGraphs
  <2>3. CASE DrainEnd \/ Check \/ Wake
    BY <1>1, <2>3 DEF DrainEnd, Check, Wake, SameGraphs, graphVars
  <2> QED
    BY <1>4, <2>1, <2>2, <2>3 DEF Looping
<1>5. ASSUME NEW t \in Task, Spawning(t) PROVE GraphMoves
  <2>1. CASE Abort(t) \/ InstallFails(t)
    BY <1>3, <2>1 DEF Abort, InstallFails
  <2>2. CASE FirstCheck(t) \/ Acquire(t) \/ Installed(t) \/ MarkExecuted(t)
    BY <1>1, <2>2 DEF FirstCheck, Acquire, Installed, MarkExecuted, SameGraphs, graphVars
  <2> QED
    BY <1>5, <2>1, <2>2 DEF Spawning
<1>6. ASSUME NEW t \in Task, Running(t) PROVE GraphMoves
  <2>1. CASE RemoveSelf(t)
    BY <1>3, <2>1 DEF RemoveSelf
  <2>2. CASE InjectAbort(t)
    <3>1. t \in Graph
      BY <2>2 DEF InjectAbort, IInv, TaskInv, Injects
    <3> QED
      BY <1>a, <2>2, <3>1, OneByOneTrims DEF InjectAbort, GraphMoves
  <2>3. CASE Inject(t)
    BY <2>3 DEF GraphMoves
  <2>4. CASE \/ Prepare(t) \/ RefuseNextEntry(t) \/ InjectDone(t) \/ Regain(t)
             \/ CommandsEnd(t) \/ JobOver(t)
    BY <1>1, <2>4 DEF Prepare, RefuseNextEntry, InjectDone, Regain, CommandsEnd, JobOver,
                      SameGraphs, graphVars
  <2> QED
    BY <1>6, <2>1, <2>2, <2>3, <2>4 DEF Running
<1>7. CASE CtrlC \/ Over \/ UNCHANGED vars
  BY <1>1, <1>7 DEF CtrlC, Over, SameGraphs, graphVars, vars
<1> QED
  BY <1>2, <1>4, <1>5, <1>6, <1>7 DEF Next

(* Every step keeps the types of the graphs,                               *)
LEMMA GraphTypeStep == ASSUME IInv, [Next]_vars PROVE GraphTypeOK'
<1>a. TypeOK /\ GraphTypeOK
  BY DEF IInv, TypeOK
<1>b. executed' \subseteq Task
  <2> USE <1>a DEF GraphTypeOK, graphVars, vars
  <2>1. CASE UNCHANGED executed
    BY <2>1
  <2>2. ASSUME NEW g \in Graph, Forwarding(g) PROVE UNCHANGED executed
    BY <2>2 DEF Forwarding, SubscribeAgain, Resubscribe, Forward, SyncEmpty, SyncClose, ForwardNone
  <2>3. CASE Looping
    BY <2>1, <2>3 DEF Looping, Recv, DrainEnd, StopCleanup, Check, Wake
  <2>4. ASSUME NEW t \in Task, Spawning(t) PROVE executed' \subseteq Task
    BY <2>4 DEF Spawning, Abort, FirstCheck, Acquire, Installed, InstallFails, MarkExecuted
  <2>5. ASSUME NEW t \in Task, Running(t) PROVE executed' \subseteq Task
    BY <2>5 DEF Running, Prepare, RefuseNextEntry, Inject, InjectDone, Regain, InjectAbort,
                CommandsEnd, RemoveSelf, JobOver
  <2> QED
    BY <2>1, <2>2, <2>3, <2>4, <2>5 DEF Next, CtrlC, Over
<1>1. ASSUME rx' \in [Graph -> RxState],
             SameGraphs \/ \E g, G, X : Trims(g, G, X)
      PROVE  GraphTypeOK'
  <2>1. CASE SameGraphs
    BY <1>a, <1>b, <1>1, <2>1 DEF SameGraphs, GraphTypeOK
  <2>2. ASSUME NEW g, NEW G, NEW X, Trims(g, G, X) PROVE GraphTypeOK'
    <3>1. g \in Graph /\ G \in SUBSET Task /\ X \in SUBSET Task /\ graph[g] \subseteq Task
      BY <1>a, <2>2 DEF Trims, GraphTypeOK
    <3>2. graph' \in [Graph -> SUBSET Task]
      BY <1>a, <2>2, <3>1 DEF Trims, GraphTypeOK
    <3>3. removed' \in [Graph -> SUBSET Task]
      BY <1>a, <2>2, <3>1 DEF Trims, GraphTypeOK
    <3>4. sent' \in [Graph -> SUBSET Task] /\ ready' \in [Graph -> SUBSET Task]
      BY <1>a, <2>2, <3>1 DEF Trims, GraphTypeOK
    <3> QED
      BY <1>b, <1>1, <2>2, <3>2, <3>3, <3>4 DEF Trims, GraphTypeOK
  <2> QED
    BY <1>1, <2>1, <2>2
<1>2. CASE UNCHANGED rx /\ (SameGraphs \/ \E g, G, X : Trims(g, G, X))
  BY <1>1, <1>2, <1>a DEF GraphTypeOK
<1>3. ASSUME NEW g \in Graph, rx' = [rx EXCEPT ![g] = "open"], \E X : Trims(g, graph[g], X)
      PROVE  GraphTypeOK'
  <2>1. rx' \in [Graph -> RxState]
    BY <1>3, <1>a DEF GraphTypeOK, RxState
  <2> QED
    BY <1>1, <1>3, <2>1
<1>4. ASSUME NEW t \in Task, Inject(t) PROVE GraphTypeOK'
  <2> DEFINE G == {u \in Nodes(t) : \A c \in snapshot[t] : <<u, c>> \notin Same}
  <2>1. /\ t \in Graph
        /\ graph' = [graph EXCEPT ![t] = G]
        /\ rx' = [rx EXCEPT ![t] = "sync"]
        /\ EmitLeaves(t, G, TRUE)
        /\ UNCHANGED removed
    BY <1>4 DEF Inject, NewPruned
  <2>2. G \in SUBSET Task
    BY DEF Nodes
  <2> HIDE DEF G
  <2>3. Leaves(G) \in SUBSET Task
    BY <2>2 DEF Leaves
  <2>4. sent' \in [Graph -> SUBSET Task] /\ ready' \in [Graph -> SUBSET Task]
    BY <1>a, <2>1, <2>3 DEF EmitLeaves, GraphTypeOK
  <2>5. fin' \in [Graph -> BOOLEAN]
    BY <1>a, <2>1 DEF EmitLeaves, GraphTypeOK
  <2> QED
    BY <1>a, <1>b, <2>1, <2>2, <2>4, <2>5 DEF GraphTypeOK, RxState
<1>5. ASSUME NEW g \in Graph, NEW t \in Task, Forward(g, t) PROVE GraphTypeOK'
  BY <1>a, <1>b, <1>5 DEF Forward, GraphTypeOK
<1>6. ASSUME NEW g \in Graph, SyncEmpty(g) \/ SyncClose(g) \/ ForwardNone(g)
      PROVE  GraphTypeOK'
  BY <1>a, <1>b, <1>6 DEF SyncEmpty, SyncClose, ForwardNone, GraphTypeOK, RxState
<1> QED
  BY StepMoves, <1>2, <1>3, <1>4, <1>5, <1>6 DEF GraphMoves

(* and those of the scheduler and the jobs.                                *)
LEMMA TypeStep == ASSUME IInv, [Next]_vars PROVE TypeOK'
<1>a. TypeOK /\ GraphTypeOK'
  BY GraphTypeStep DEF IInv
<1> DEFINE RunTypeOK ==
      /\ pc \in [Task -> PcState]
      /\ permits \subseteq Task
      /\ allowed \subseteq Task
      /\ snapshot \in [Task -> SUBSET Task]
      /\ loop \in {"drain", "check", "select", "exited"}
      /\ {drained, woken, cleaned, failed, interrupted, cancelled} \subseteq BOOLEAN
      /\ began \subseteq Task
      /\ opts \in Invocations
<1>b. RunTypeOK
  BY <1>a DEF TypeOK
<1>c. Pending \subseteq Task /\ Queued \subseteq Task
  BY DEF Pending, Queued
<1>1. CASE UNCHANGED runVars
  BY <1>1, <1>a, <1>b DEF runVars, TypeOK
<1>2. ASSUME NEW g \in Graph, NEW t \in Task, Forward(g, t) PROVE TypeOK'
  BY <1>2, <1>a, <1>b DEF Forward, Send, TypeOK, PcState
<1>3. CASE Looping
  <2>1. ASSUME Exit PROVE pc' \in [Task -> PcState] /\ permits' \subseteq Task /\ loop' = "exited"
    BY <2>1, <1>b, <1>c DEF Exit, PcState
  <2>2. CASE StopCleanup
    BY <2>1, <2>2, <1>a, <1>b DEF StopCleanup, TypeOK
  <2>3. CASE Check
    BY <2>1, <2>3, <1>a, <1>b DEF Check, TypeOK
  <2>4. ASSUME NEW t \in Task, Recv(t) PROVE TypeOK'
    <3>1. pc' \in [Task -> PcState]
      BY <2>4, <1>b DEF Recv, PcState
    <3>2. drained' \in BOOLEAN /\ loop' = "drain"
      BY <2>4 DEF Recv
    <3> QED
      BY <2>4, <3>1, <3>2, <1>a, <1>b DEF Recv, TypeOK
  <2>5. CASE DrainEnd \/ Wake
    BY <2>5, <1>a, <1>b DEF DrainEnd, Wake, TypeOK
  <2> QED
    BY <1>3, <2>2, <2>3, <2>4, <2>5 DEF Looping
<1>4. ASSUME NEW t \in Task, Spawning(t) PROVE TypeOK'
  <2>1. CASE Abort(t)
    BY <2>1, <1>a, <1>b DEF Abort, TypeOK, PcState
  <2>2. CASE FirstCheck(t)
    BY <2>2, <1>a, <1>b DEF FirstCheck, TypeOK, PcState
  <2>3. CASE Acquire(t)
    BY <2>3, <1>a, <1>b DEF Acquire, TypeOK, PcState
  <2>4. CASE Installed(t)
    BY <2>4, <1>a, <1>b DEF Installed, TypeOK, PcState
  <2>5. CASE InstallFails(t)
    BY <2>5, <1>a, <1>b DEF InstallFails, TypeOK, PcState
  <2>6. CASE MarkExecuted(t)
    BY <2>6, <1>a, <1>b DEF MarkExecuted, TypeOK, PcState
  <2> QED
    BY <1>4, <2>1, <2>2, <2>3, <2>4, <2>5, <2>6 DEF Spawning
<1>5. ASSUME NEW t \in Task, Running(t) PROVE TypeOK'
  <2>1. CASE Prepare(t)
    <3>1. pc' \in [Task -> PcState] /\ began' \subseteq Task /\ failed' \in BOOLEAN
      BY <2>1, <1>b DEF Prepare, Abandons, EndsBeforeCommands, BeginsCommands, PcState
    <3>2. snapshot' \in [Task -> SUBSET Task]
      <4>1. t \in Graph => Completed(Home[t]) \subseteq Task
        BY <1>a, GraphType DEF Completed, TypeOK, GraphTypeOK
      <4> QED
        BY <2>1, <4>1, <1>b DEF Prepare
    <3> QED
      BY <2>1, <3>1, <3>2, <1>a, <1>b DEF Prepare, TypeOK
  <2>2. CASE RefuseNextEntry(t) \/ InjectDone(t) \/ Regain(t)
    BY <2>2, <1>a, <1>b DEF RefuseNextEntry, InjectDone, Regain, TypeOK, PcState
  <2>3. CASE Inject(t)
    BY <2>3, <1>a, <1>b DEF Inject, TypeOK, PcState
  <2>4. CASE InjectAbort(t)
    BY <2>4, <1>a, <1>b DEF InjectAbort, TypeOK, PcState
  <2>5. CASE CommandsEnd(t)
    BY <2>5, <1>a, <1>b DEF CommandsEnd, TypeOK, PcState
  <2>6. CASE RemoveSelf(t)
    BY <2>6, <1>a, <1>b DEF RemoveSelf, TypeOK, PcState
  <2>7. CASE JobOver(t)
    BY <2>7, <1>a, <1>b DEF JobOver, TypeOK, PcState
  <2> QED
    BY <1>5, <2>1, <2>2, <2>3, <2>4, <2>5, <2>6, <2>7 DEF Running
<1>6. CASE CtrlC
  BY <1>6, <1>a, <1>b DEF CtrlC, TypeOK
<1>7. ASSUME NEW g \in Graph, Forwarding(g) PROVE TypeOK'
  BY <1>1, <1>2, <1>7 DEF Forwarding, SubscribeAgain, SyncEmpty, SyncClose, ForwardNone, runVars
<1> QED
  BY <1>1, <1>3, <1>4, <1>5, <1>6, <1>7 DEF Next, Over, vars

(* The options stay, a stop is never taken back, and neither is the        *)
(* permission to run during one.                                           *)
LEMMA StopOnward ==
  ASSUME TypeOK, [Next]_vars
  PROVE  opts' = opts /\ (MustStop => MustStop') /\ allowed \subseteq allowed'
<1> DEFINE Onward == /\ opts' = opts /\ allowed \subseteq allowed'
                     /\ failed => failed'
                     /\ interrupted => interrupted'
                     /\ cancelled => cancelled'
<1>1. ASSUME UNCHANGED vars \/ CtrlC \/ Over PROVE Onward
  BY <1>1 DEF vars, runVars, CtrlC, Over
<1>2. ASSUME NEW g \in Graph, Forwarding(g) PROVE Onward
  BY <1>2 DEF Forwarding, SubscribeAgain, Forward, SyncEmpty, SyncClose, ForwardNone, runVars
<1>3. ASSUME Looping PROVE Onward
  BY <1>3 DEF Looping, Recv, DrainEnd, StopCleanup, Check, Wake
<1>4. ASSUME NEW t \in Task, Spawning(t) PROVE Onward
  BY <1>4 DEF Spawning, Abort, FirstCheck, Acquire, Installed, InstallFails, MarkExecuted
<1>5. ASSUME NEW t \in Task, Running(t) PROVE Onward
  <2>1. CASE Prepare(t)
    <3>1. failed' \in {failed, TRUE}
      BY <2>1 DEF Prepare, Abandons, EndsBeforeCommands, BeginsCommands
    <3>2. failed => failed'
      BY <3>1
    <3> QED
      BY <2>1, <3>2 DEF Prepare
  <2>2. CASE CommandsEnd(t)
    BY <2>2 DEF CommandsEnd
  <2>3. CASE RemoveSelf(t)
    <3>1. interrupted => interrupted'
      BY <2>3 DEF RemoveSelf
    <3> QED
      BY <2>3, <3>1 DEF RemoveSelf
  <2>4. CASE \/ RefuseNextEntry(t) \/ Inject(t) \/ InjectDone(t) \/ Regain(t)
             \/ InjectAbort(t) \/ JobOver(t)
    BY <2>4 DEF RefuseNextEntry, Inject, InjectDone, Regain, InjectAbort, JobOver
  <2> QED
    BY <1>5, <2>1, <2>2, <2>3, <2>4 DEF Running
<1>6. Onward
  BY <1>1, <1>2, <1>3, <1>4, <1>5 DEF Next
<1>7. MustStop => MustStop'
  <2>1. IsStopping => IsStopping'
    BY <1>6 DEF IsStopping, ExecutorStopping
  <2>2. ~opts.continueOnError \/ cancelled => (~opts.continueOnError \/ cancelled)'
    BY <1>6
  <2> QED
    BY <2>1, <2>2 DEF MustStop
<1> QED
  BY <1>6, <1>7

(* Each step keeps the shape of every graph.                               *)
LEMMA ShapeStep == ASSUME IInv, [Next]_vars, NEW h \in Graph PROVE Shape(h)'
<1>a. GraphTypeOK /\ Shape(h) /\ opts' = opts
  BY StopOnward DEF IInv, TypeOK
<1>b. \A g \in Graph : Shape(g)
  BY DEF IInv
<1>1. CASE SameGraphs /\ UNCHANGED rx
  BY <1>1, <1>a DEF SameGraphs, Shape
<1>2. ASSUME NEW g, NEW G, NEW X, Trims(g, G, X),
             rx' = rx \/ (rx[g] = "gap" /\ rx' = [rx EXCEPT ![g] = "open"])
      PROVE  Shape(h)'
  <2>a. g \in Graph
    BY <1>2 DEF Trims
  <2>1. CASE h # g
    <3>1. /\ graph'[h] = graph[h] /\ removed'[h] = removed[h] /\ sent'[h] = sent[h]
          /\ ready'[h] = ready[h] /\ rx'[h] = rx[h] /\ (fin'[h] => fin[h])
      BY <1>2, <1>a, <2>1, <2>a DEF Trims, GraphTypeOK
    <3> QED
      BY <3>1, <1>a DEF Shape
  <2>2. CASE h = g
    <3>1. /\ graph'[h] = G /\ removed'[h] = removed[h] \cup (graph[h] \ G)
          /\ sent'[h] = sent[h] \cup X /\ ready'[h] = ready[h] \cup X
      BY <1>2, <1>a, <2>2 DEF Trims, GraphTypeOK
    <3>2. G \subseteq graph[h] /\ X \subseteq graph[h] /\ (fin'[h] => fin[h] \/ G = {})
      BY <1>2, <2>2 DEF Trims
    <3>3. rx'[h] = rx[h] \/ (rx[h] = "gap" /\ rx'[h] = "open")
      BY <1>2, <1>a, <2>2 DEF GraphTypeOK
    <3>4. X # {} => rx'[h] # "none"
      BY <1>2, <2>2 DEF Trims
    <3>5. \A x \in X, d \in G : <<x, d>> \notin Edges
      BY <1>2 DEF Trims
    <3>6. (graph[h] \cup removed[h] \cup sent[h] \subseteq Nodes(h))'
      BY <3>1, <3>2, <1>a DEF Shape, Nodes
    <3>7. (fin[h] \/ rx[h] = "done" => graph[h] = {})'
      BY <3>1, <3>2, <3>3, <1>a DEF Shape
    <3>8. (rx[h] = "none" => sent[h] = {})'
      BY <3>1, <3>3, <3>4, <1>a DEF Shape
    <3>9. (\A t \in sent[h], d \in graph[h] : <<t, d>> \notin Edges)'
      BY <3>1, <3>2, <3>5, <1>a DEF Shape, Edges
    <3>10. (ready[h] \subseteq sent[h])'
      BY <3>1, <1>a DEF Shape
    <3>11. (h = Root => /\ rx[h] \in {"gap", "open", "done"}
                        /\ graph[h] \cup sent[h] \subseteq opts.tasks)'
      BY <3>1, <3>2, <3>3, <1>a DEF Shape
    <3> QED
      BY <3>6, <3>7, <3>8, <3>9, <3>10, <3>11 DEF Shape
  <2> QED
    BY <2>1, <2>2
<1>3. ASSUME NEW t \in Task, Inject(t) PROVE Shape(h)'
  <2> DEFINE G == {u \in Nodes(t) : \A c \in snapshot[t] : <<u, c>> \notin Same}
  <2>1. /\ t \in Graph /\ rx[t] = "none"
        /\ graph' = [graph EXCEPT ![t] = G]
        /\ rx' = [rx EXCEPT ![t] = "sync"]
        /\ sent' = [sent EXCEPT ![t] = @ \cup Leaves(G)]
        /\ ready' = [ready EXCEPT ![t] = @ \cup (Leaves(G) \ sent[t])]
        /\ fin' = [fin EXCEPT ![t] = G = {}]
        /\ UNCHANGED removed
    BY <1>3 DEF Inject, NewPruned, EmitLeaves
  <2>2. G \subseteq Nodes(t) /\ Leaves(G) \subseteq G
        /\ \A x \in Leaves(G), d \in G : <<x, d>> \notin Edges
    BY DEF Leaves
  <2>3. sent[t] = {} /\ t # Root
    BY <2>1, <1>b, RootAssumption DEF Shape
  <2> HIDE DEF G
  <2>4. CASE h # t
    <3>1. /\ graph'[h] = graph[h] /\ removed'[h] = removed[h] /\ sent'[h] = sent[h]
          /\ ready'[h] = ready[h] /\ rx'[h] = rx[h] /\ fin'[h] = fin[h]
      BY <1>a, <2>1, <2>4 DEF GraphTypeOK
    <3> QED
      BY <3>1, <1>a DEF Shape
  <2>5. CASE h = t
    <3>1. /\ graph'[h] = G /\ removed'[h] = removed[h] /\ sent'[h] = Leaves(G)
          /\ ready'[h] = ready[h] \cup Leaves(G) /\ rx'[h] = "sync" /\ fin'[h] = (G = {})
      BY <1>a, <2>1, <2>3, <2>5 DEF GraphTypeOK
    <3>2. ready[h] = {}
      BY <1>a, <2>3, <2>5 DEF Shape
    <3>3. (graph[h] \cup removed[h] \cup sent[h] \subseteq Nodes(h))'
      BY <3>1, <2>2, <2>5, <1>a DEF Shape, Nodes
    <3>4. (fin[h] \/ rx[h] = "done" => graph[h] = {})'
      BY <3>1
    <3>5. (ready[h] \subseteq sent[h])' /\ (rx[h] = "none" => sent[h] = {})'
      BY <3>1, <3>2
    <3>6. (\A x \in sent[h], d \in graph[h] : <<x, d>> \notin Edges)'
      BY <3>1, <2>2 DEF Edges
    <3> QED
      BY <3>3, <3>4, <3>5, <3>6, <2>3, <2>5 DEF Shape
  <2> QED
    BY <2>4, <2>5
<1>4. ASSUME NEW g \in Graph, NEW t \in Task, Forward(g, t) PROVE Shape(h)'
  <2>1. ready'[h] \subseteq ready[h] /\ UNCHANGED <<graph, removed, sent, fin, rx>>
    BY <1>4, <1>a DEF Forward, GraphTypeOK
  <2> QED
    BY <2>1, <1>a DEF Shape
<1>5. ASSUME NEW g \in Graph, SyncEmpty(g) \/ SyncClose(g) \/ ForwardNone(g)
      PROVE  Shape(h)'
  <2>1. /\ ready'[h] \subseteq ready[h] /\ UNCHANGED <<graph, removed, sent>>
        /\ fin'[h] => fin[h]
    BY <1>5, <1>a DEF SyncEmpty, SyncClose, ForwardNone, GraphTypeOK
  <2>2. \/ rx'[h] = rx[h]
        \/ rx[h] \in {"sync", "closing"} /\ rx'[h] \in {"closing", "gap"}
        \/ rx[h] = "open" /\ rx'[h] = "done" /\ fin[h]
    BY <1>5, <1>a DEF SyncEmpty, SyncClose, ForwardNone, GraphTypeOK
  <2> QED
    BY <2>1, <2>2, <1>a DEF Shape
<1>6. CASE UNCHANGED rx /\ \E g, G, X : Trims(g, G, X)
  BY <1>2, <1>6
<1>7. ASSUME NEW g \in Graph, rx[g] = "gap", rx' = [rx EXCEPT ![g] = "open"],
             \E X : Trims(g, graph[g], X)
      PROVE  Shape(h)'
  BY <1>2, <1>7
<1> QED
  BY StepMoves, <1>1, <1>3, <1>4, <1>5, <1>6, <1>7 DEF GraphMoves

(* What is forwarded is idle, and from its own graph.                      *)
LEMMA ForwardsIdle ==
  ASSUME IInv, NEW g \in Graph, NEW t \in Task, Forward(g, t)
  PROVE  pc[t] = "idle" /\ Home[t] = g
<1>1. t \in Nodes(g)
  BY DEF Forward, IInv, Shape
<1> QED
  BY <1>1 DEF Forward, IInv, TaskInv, Once, Nodes

(* Apart from the forwarder and the loop that leaves, a step moves one     *)
(* task that is under way, and never back.                                 *)
PcMoves(u) ==
    \/ pc'[u] = pc[u]
    \/ pc[u] = "idle" /\ \E g \in Graph : Forward(g, u)
    \/ Exit /\ u \in Pending \cup Queued /\ pc'[u] = "lost"
    \/ /\ pc[u] \notin {"idle", "lost", "gone", "dropped"}
       /\ pc'[u] \notin {"idle", "queued", "lost"}
       /\ pc[u] = "removed" => pc'[u] = "gone"
       /\ loop = "exited" => u \in InFlight

(* Every step moves the tasks like this.                                   *)
LEMMA PcStep == ASSUME IInv, [Next]_vars, NEW u \in Task PROVE PcMoves(u)
<1>a. pc \in [Task -> PcState]
  BY DEF IInv, TypeOK
<1>1. CASE UNCHANGED pc
  BY <1>1 DEF PcMoves
<1>2. ASSUME NEW g \in Graph, Forwarding(g) PROVE PcMoves(u)
  <2>1. ASSUME NEW t \in Task, Forward(g, t) PROVE PcMoves(u)
    <3>1. t # u => pc'[u] = pc[u]
      BY <2>1, <1>a DEF Forward
    <3> QED
      BY <2>1, <3>1, ForwardsIdle DEF PcMoves
  <2> QED
    BY <1>2, <1>1, <2>1 DEF Forwarding, SubscribeAgain, SyncEmpty, SyncClose, ForwardNone, runVars
<1>3. CASE Looping
  <2>1. ASSUME Exit PROVE PcMoves(u)
    BY <2>1, <1>a DEF Exit, PcMoves
  <2>2. ASSUME NEW t \in Task, Recv(t) PROVE PcMoves(u)
    BY <2>2, <1>a DEF Recv, PcMoves
  <2>3. CASE StopCleanup \/ Check
    BY <2>1, <2>3, <1>1 DEF StopCleanup, Check
  <2> QED
    BY <1>1, <1>3, <2>2, <2>3 DEF Looping, DrainEnd, Wake
<1>4. ASSUME NEW t \in Task, Spawning(t) PROVE PcMoves(u)
  <2>1. /\ pc[t] \in {"spawn", "permit", "install", "mark"} /\ loop # "exited"
        /\ pc'[t] \in {"dropped", "permit", "mark", "install", "gone", "job"}
        /\ u # t => pc'[u] = pc[u]
    BY <1>4, <1>a DEF Spawning, Abort, FirstCheck, Acquire, Installed, InstallFails, MarkExecuted
  <2> QED
    BY <2>1 DEF PcMoves
<1>5. ASSUME NEW t \in Task, Running(t) PROVE PcMoves(u)
  <2>1. /\ t \in InFlight
        /\ pc[t] \notin {"idle", "lost", "gone", "dropped"}
        /\ pc'[t] \in {"abandoned", "ended", "exec", "inject", "regain", "removed", "gone"}
        /\ pc[t] = "removed" => pc'[t] = "gone"
        /\ u # t => pc'[u] = pc[u]
    BY <1>5, <1>a DEF Running, Prepare, Abandons, EndsBeforeCommands, BeginsCommands,
          RefuseNextEntry, Inject, InjectDone, Regain, InjectAbort, CommandsEnd, RemoveSelf,
          JobOver, InFlight, InJob
  <2> QED
    BY <2>1 DEF PcMoves
<1> QED
  BY <1>1, <1>2, <1>3, <1>4, <1>5 DEF Next, CtrlC, Over, vars, runVars

(* Sent and removed tasks stay so, a graph stays in use, the loop does not *)
(* come back.                                                              *)
LEMMA GraphsOnward ==
  ASSUME IInv, [Next]_vars
  PROVE  /\ \A g \in Graph : /\ sent[g] \subseteq sent'[g]
                             /\ removed[g] \subseteq removed'[g]
                             /\ rx[g] # "none" => rx'[g] # "none"
         /\ loop = "exited" => loop' = "exited"
<1>a. GraphTypeOK
  BY DEF IInv, TypeOK
<1> DEFINE Onward(g) == /\ sent[g] \subseteq sent'[g]
                        /\ removed[g] \subseteq removed'[g]
                        /\ rx[g] # "none" => rx'[g] # "none"
<1>1. ASSUME NEW h \in Graph PROVE Onward(h)
  <2>1. CASE SameGraphs /\ UNCHANGED rx
    BY <2>1 DEF SameGraphs
  <2>2. ASSUME NEW g, NEW G, NEW X, Trims(g, G, X)
        PROVE  sent[h] \subseteq sent'[h] /\ removed[h] \subseteq removed'[h]
    BY <2>2, <1>a DEF Trims, GraphTypeOK
  <2>3. CASE UNCHANGED rx /\ \E g, G, X : Trims(g, G, X)
    BY <2>2, <2>3
  <2>4. ASSUME NEW g \in Graph, rx' = [rx EXCEPT ![g] = "open"], \E X : Trims(g, graph[g], X)
        PROVE  Onward(h)
    <3>1. rx[h] # "none" => rx'[h] # "none"
      BY <2>4, <1>a DEF GraphTypeOK
    <3> QED
      BY <2>2, <2>4, <3>1
  <2>5. ASSUME NEW t \in Task, Inject(t) PROVE Onward(h)
    <3> DEFINE G == {u \in Nodes(t) : \A c \in snapshot[t] : <<u, c>> \notin Same}
    <3>1. /\ sent' = [sent EXCEPT ![t] = @ \cup Leaves(G)]
          /\ rx' = [rx EXCEPT ![t] = "sync"] /\ UNCHANGED removed
      BY <2>5 DEF Inject, NewPruned, EmitLeaves
    <3> HIDE DEF G
    <3> QED
      BY <3>1, <1>a DEF GraphTypeOK
  <2>6. ASSUME NEW g \in Graph, NEW t \in Task, Forward(g, t) PROVE Onward(h)
    BY <2>6 DEF Forward
  <2>7. ASSUME NEW g \in Graph, SyncEmpty(g) \/ SyncClose(g) \/ ForwardNone(g) PROVE Onward(h)
    BY <2>7, <1>a DEF SyncEmpty, SyncClose, ForwardNone, GraphTypeOK
  <2> QED
    BY StepMoves, <2>1, <2>3, <2>4, <2>5, <2>6, <2>7 DEF GraphMoves
<1>2. loop = "exited" => loop' = "exited"
  <2>1. ASSUME NEW g \in Graph, Forwarding(g) PROVE loop' = loop
    BY <2>1 DEF Forwarding, SubscribeAgain, Forward, SyncEmpty, SyncClose, ForwardNone, runVars
  <2>2. ASSUME NEW t \in Task, Running(t) PROVE loop' = loop
    BY <2>2 DEF Running, Prepare, RefuseNextEntry, Inject, InjectDone, Regain, InjectAbort,
                CommandsEnd, RemoveSelf, JobOver
  <2>3. ASSUME NEW t \in Task, Spawning(t) PROVE loop' = loop
    BY <2>3 DEF Spawning, Abort, FirstCheck, Acquire, Installed, InstallFails, MarkExecuted
  <2>4. CASE Looping
    BY <2>4 DEF Looping, Recv, DrainEnd, StopCleanup, Check, Wake
  <2> QED
    BY <2>1, <2>2, <2>3, <2>4 DEF Next, CtrlC, Over, vars, runVars
<1> QED
  BY <1>1, <1>2

(* Each step keeps a task in one place between its graph and its end.      *)
LEMMA OnceStep == ASSUME IInv, [Next]_vars, NEW u \in Task PROVE Once(u)'
<1> DEFINE h == Home[u]
<1>a. GraphTypeOK /\ Once(u) /\ h \in Graph /\ Root \in Graph
  BY GraphType DEF IInv, TypeOK, TaskInv
<1>b. PcMoves(u) /\ sent[h] \subseteq sent'[h] /\ (loop = "exited" => loop' = "exited")
  BY <1>a, PcStep, GraphsOnward
<1>c. \A g \in Graph : Shape(g)
  BY DEF IInv
<1>d. ASSUME NEW g \in Graph, Forward(g, u)
      PROVE  /\ g = h /\ ready' = [ready EXCEPT ![g] = @ \ {u}] /\ u \in sent[h]
             /\ UNCHANGED <<sent, rx, began, loop>>
             /\ pc'[u] = Send(u)
  <2>1. g = h
    BY <1>d, ForwardsIdle
  <2>2. pc \in [Task -> PcState]
    BY DEF IInv, TypeOK
  <2> QED
    BY <1>d, <1>c, <2>1, <2>2 DEF Forward, Shape
<1>1. (pc[u] # "idle" => u \in sent[Home[u]])'
  BY <1>a, <1>b, <1>d DEF PcMoves, Once, Pending, Queued
<1>2. (u \in ready[Home[u]] => pc[u] = "idle")'
  <2> SUFFICES ASSUME u \in ready'[h] PROVE pc'[u] = "idle"
    OBVIOUS
  <2>1. u \in ready[h] \/ u \notin sent[h]
    <3>1. ASSUME NEW g, NEW G, NEW X, Trims(g, G, X) PROVE u \in ready[h] \/ u \notin sent[h]
      BY <3>1, <1>a DEF Trims, GraphTypeOK
    <3>2. ASSUME NEW t \in Task, Inject(t) PROVE u \in ready[h] \/ u \notin sent[h]
      <4> DEFINE G == {v \in Nodes(t) : \A c \in snapshot[t] : <<v, c>> \notin Same}
      <4>1. ready' = [ready EXCEPT ![t] = @ \cup (Leaves(G) \ sent[t])]
        BY <3>2 DEF Inject, NewPruned, EmitLeaves
      <4> HIDE DEF G
      <4> QED
        BY <4>1, <1>a DEF GraphTypeOK
    <3>3. ASSUME NEW g \in Graph, NEW t \in Task, Forward(g, t) PROVE u \in ready[h]
      BY <3>3, <1>a DEF Forward, GraphTypeOK
    <3>4. ASSUME NEW g \in Graph, SyncEmpty(g) \/ SyncClose(g) \/ ForwardNone(g)
          PROVE  u \in ready[h]
      BY <3>4, <1>a DEF SyncEmpty, SyncClose, ForwardNone, GraphTypeOK
    <3> QED
      BY StepMoves, <3>1, <3>2, <3>3, <3>4 DEF GraphMoves, SameGraphs
  <2>2. pc[u] = "idle"
    BY <2>1, <1>a DEF Once
  <2>3. \A g \in Graph : ~Forward(g, u)
    <3> SUFFICES ASSUME NEW g \in Graph, Forward(g, u) PROVE FALSE
      OBVIOUS
    <3>1. u \notin ready'[h]
      BY <1>a, <1>d DEF GraphTypeOK
    <3> QED
      BY <3>1
  <2> QED
    BY <2>2, <2>3, <1>b DEF PcMoves, Pending, Queued
<1>3. (u \in sent[Root] => u \in ready[Root] \/ pc[u] # "idle")'
  <2> SUFFICES ASSUME u \in sent'[Root], pc'[u] = "idle" PROVE u \in ready'[Root]
    OBVIOUS
  <2>1. pc[u] = "idle" /\ \A g \in Graph : ~Forward(g, u)
    BY <1>b, <1>d DEF PcMoves, Send
  <2>2. u \in sent[Root] => u \in ready[Root]
    BY <2>1, <1>a DEF Once
  <2>3. ASSUME NEW g, NEW G, NEW X, Trims(g, G, X) PROVE u \in ready'[Root]
    BY <2>2, <2>3, <1>a DEF Trims, GraphTypeOK
  <2>4. ASSUME NEW t \in Task, Inject(t) PROVE u \in ready'[Root]
    <3> DEFINE G == {v \in Nodes(t) : \A c \in snapshot[t] : <<v, c>> \notin Same}
    <3>1. /\ ready' = [ready EXCEPT ![t] = @ \cup (Leaves(G) \ sent[t])]
          /\ sent' = [sent EXCEPT ![t] = @ \cup Leaves(G)]
      BY <2>4 DEF Inject, NewPruned, EmitLeaves
    <3> HIDE DEF G
    <3> QED
      BY <3>1, <2>2, <1>a, RootAssumption DEF GraphTypeOK
  <2>5. ASSUME NEW g \in Graph, NEW t \in Task, Forward(g, t) PROVE u \in ready'[Root]
    <3>1. t # u /\ UNCHANGED sent /\ ready' = [ready EXCEPT ![g] = @ \ {t}]
      BY <2>1, <2>5 DEF Forward
    <3> QED
      BY <3>1, <2>2, <1>a DEF GraphTypeOK
  <2>6. ASSUME NEW g \in Graph, SyncEmpty(g) \/ SyncClose(g) \/ ForwardNone(g)
        PROVE  u \in ready'[Root]
    <3>1. UNCHANGED sent /\ (SyncClose(g) => g # Root)
      BY <2>6, <1>c DEF SyncEmpty, SyncClose, ForwardNone, Shape
    <3>2. ready'[Root] = ready[Root]
      BY <2>6, <3>1, <1>a DEF SyncEmpty, SyncClose, ForwardNone, GraphTypeOK
    <3> QED
      BY <3>1, <3>2, <2>2
  <2> QED
    BY StepMoves, <2>2, <2>3, <2>4, <2>5, <2>6 DEF GraphMoves, SameGraphs
<1>4. (pc[u] = "lost" => loop = "exited")'
  BY <1>a, <1>b, <1>d DEF PcMoves, Once, Send, Exit
<1>5. (u \in began => pc[u] # "idle")'
  <2>1. pc[u] # "idle" => pc'[u] # "idle"
    BY <1>b DEF PcMoves
  <2>2. u \in began' => u \in began \/ pc'[u] = "exec"
    <3>a. pc \in [Task -> PcState]
      BY DEF IInv, TypeOK
    <3>1. ASSUME NEW g \in Graph, Forwarding(g) PROVE UNCHANGED began
      BY <3>1 DEF Forwarding, SubscribeAgain, Forward, SyncEmpty, SyncClose, ForwardNone, runVars
    <3>2. ASSUME NEW t \in Task, Running(t), t = u => pc'[u] # "exec", u \in began' PROVE u \in began
      BY <3>2, <3>a DEF Running, Prepare, Abandons, EndsBeforeCommands, BeginsCommands,
          RefuseNextEntry, Inject, InjectDone, Regain, InjectAbort, CommandsEnd, RemoveSelf,
          JobOver
    <3>3. ASSUME NEW t \in Task, Spawning(t) PROVE UNCHANGED began
      BY <3>3 DEF Spawning, Abort, FirstCheck, Acquire, Installed, InstallFails, MarkExecuted
    <3>4. CASE Looping
      BY <3>4 DEF Looping, Recv, DrainEnd, StopCleanup, Check, Wake
    <3> QED
      BY <3>1, <3>2, <3>3, <3>4 DEF Next, CtrlC, Over, vars, runVars
  <2> QED
    BY <2>1, <2>2, <1>a DEF Once
<1> QED
  BY <1>1, <1>2, <1>3, <1>4, <1>5 DEF Once

(* A task that has left a graph, or is over, stays so.                     *)
LEMMA FinishedOnward ==
  ASSUME IInv, [Next]_vars, NEW t \in Task
  PROVE  (HasLeft(t) => HasLeft(t)') /\ (Finished(t) => Finished(t)')
<1>1. \A u \in Task : HasLeft(u) => HasLeft(u)'
  BY PcStep DEF PcMoves, HasLeft, Pending, Queued
<1> QED
  BY <1>1 DEF HasLeft, Finished

(* Each step keeps the permits of scripts.                                 *)
LEMMA PermitStep == ASSUME IInv, [Next]_vars, NEW u \in Task PROVE HasPermit(u)'
<1>a. TypeOK /\ HasPermit(u) /\ pc \in [Task -> PcState]
  BY DEF IInv, TypeOK, TaskInv
<1> USE <1>a DEF HasPermit
<1>1. CASE UNCHANGED <<pc, permits>>
  BY <1>1
<1>2. ASSUME NEW g \in Graph, Forwarding(g) PROVE HasPermit(u)'
  <2>1. ASSUME NEW t \in Task, Forward(g, t) PROVE HasPermit(u)'
    BY <2>1 DEF Forward, Send
  <2> QED
    BY <1>1, <1>2, <2>1 DEF Forwarding, SubscribeAgain, SyncEmpty, SyncClose, ForwardNone, runVars
<1>3. CASE Looping
  <2>1. ASSUME Exit PROVE HasPermit(u)'
    BY <2>1 DEF Exit, Pending
  <2> QED
    BY <1>1, <1>3, <2>1 DEF Looping, Recv, DrainEnd, StopCleanup, Check, Wake
<1>4. ASSUME NEW t \in Task, Spawning(t) PROVE HasPermit(u)'
  BY <1>4 DEF Spawning, Abort, FirstCheck, NeedsPermit, Acquire, Installed, InstallFails,
              MarkExecuted
<1>5. ASSUME NEW t \in Task, Running(t) PROVE HasPermit(u)'
  BY <1>5 DEF Running, Prepare, Abandons, EndsBeforeCommands, BeginsCommands,
          RefuseNextEntry, Inject, InjectDone, Regain, InjectAbort, CommandsEnd, RemoveSelf,
          JobOver
<1> QED
  BY <1>1, <1>2, <1>3, <1>4, <1>5 DEF Next, CtrlC, Over, vars, runVars

(* Each step keeps to --jobs.                                              *)
LEMMA JobsStep == ASSUME IInv, [Next]_vars PROVE AtMostJobs'
<1>a. /\ permits \subseteq Task /\ AtMostJobs /\ opts' = opts /\ opts.jobs \in Nat
  BY StopOnward, InvocationAssumption DEF IInv, TypeOK
<1>b. IsFiniteSet(permits) /\ Cardinality(permits) \in Nat
  BY <1>a, TaskAssumption, FS_Subset, FS_CardinalityType
<1>1. CASE permits' \subseteq permits
  <2>1. Cardinality(permits') \in Nat /\ Cardinality(permits') <= Cardinality(permits)
    BY <1>1, <1>b, FS_Subset, FS_CardinalityType
  <2> QED
    BY <2>1, <1>a, <1>b DEF AtMostJobs
<1>2. ASSUME NEW t \in Task, permits' = permits \cup {t}, Cardinality(permits) < opts.jobs
      PROVE  AtMostJobs'
  <2>1. Cardinality(permits') \in Nat /\ Cardinality(permits') <= Cardinality(permits) + 1
    <3>1. Cardinality(permits \cup {t}) = IF t \in permits THEN Cardinality(permits)
                                                         ELSE Cardinality(permits) + 1
      BY <1>b, FS_AddElement
    <3> QED
      BY <1>2, <1>b, <3>1
  <2> QED
    BY <2>1, <1>2, <1>a, <1>b DEF AtMostJobs
<1>3. ASSUME NEW g \in Graph, Forwarding(g) PROVE permits' = permits
  BY <1>3 DEF Forwarding, SubscribeAgain, Forward, SyncEmpty, SyncClose, ForwardNone, runVars
<1>4. ASSUME Looping PROVE permits' \subseteq permits
  BY <1>4 DEF Looping, Recv, DrainEnd, StopCleanup, Check, Wake, Exit
<1>5. ASSUME NEW t \in Task, Spawning(t)
      PROVE  \/ permits' \subseteq permits
             \/ permits' = permits \cup {t} /\ Cardinality(permits) < opts.jobs
  BY <1>5 DEF Spawning, Abort, FirstCheck, Acquire, Installed, InstallFails, MarkExecuted
<1>6. ASSUME NEW t \in Task, Running(t)
      PROVE  \/ permits' \subseteq permits
             \/ permits' = permits \cup {t} /\ Cardinality(permits) < opts.jobs
  BY <1>6 DEF Running, Prepare, RefuseNextEntry, Inject, InjectDone, Regain, InjectAbort,
              CommandsEnd, RemoveSelf, JobOver
<1> QED
  BY <1>1, <1>2, <1>3, <1>4, <1>5, <1>6 DEF Next, CtrlC, Over, vars, runVars

(* Each step keeps what is known of injected graphs.                       *)
LEMMA InjectsStep == ASSUME IInv, [Next]_vars, NEW u \in Task PROVE Injects(u)'
<1>a. TypeOK /\ Injects(u) /\ pc \in [Task -> PcState] /\ GraphTypeOK
  BY DEF IInv, TypeOK, TaskInv
<1>b. MustStop => MustStop'
  BY <1>a, StopOnward
<1>c. PcMoves(u)
  BY PcStep
<1>d. ASSUME u \in Graph, rx'[u] # "none"
      PROVE  /\ rx[u] # "none" \/ Inject(u)
             /\ rx[u] = "done" => rx'[u] = "done"
  <2>1. CASE UNCHANGED rx
    BY <1>d, <2>1
  <2>2. ASSUME NEW g \in Graph, rx[g] = "gap", rx' = [rx EXCEPT ![g] = "open"]
        PROVE  rx[u] # "none" /\ (rx[u] = "done" => rx'[u] = "done")
    BY <1>a, <1>d, <2>2 DEF GraphTypeOK
  <2>3. ASSUME NEW t \in Task, Inject(t)
        PROVE  (rx[u] # "none" \/ t = u) /\ (rx[u] = "done" => rx'[u] = "done")
    BY <1>a, <1>d, <2>3 DEF Inject, NewPruned, GraphTypeOK
  <2>4. ASSUME NEW g \in Graph, NEW t \in Task, Forward(g, t) PROVE UNCHANGED rx
    BY <2>4 DEF Forward
  <2>5. ASSUME NEW g \in Graph, SyncEmpty(g) \/ SyncClose(g) \/ ForwardNone(g)
        PROVE  rx[u] # "none" /\ (rx[u] = "done" => rx'[u] = "done")
    BY <1>a, <1>d, <2>5 DEF SyncEmpty, SyncClose, ForwardNone, GraphTypeOK
  <2>6. \/ UNCHANGED rx
        \/ \E g \in Graph : rx[g] = "gap" /\ rx' = [rx EXCEPT ![g] = "open"]
        \/ \E t \in Task : Inject(t)
        \/ \E g \in Graph : SyncEmpty(g) \/ SyncClose(g) \/ ForwardNone(g)
    BY StepMoves, <2>4 DEF GraphMoves
  <2> QED
    BY <2>1, <2>2, <2>3, <2>5, <2>6
<1>1. CASE Inject(u)
  <2>1. u \in Graph /\ pc'[u] = "inject"
    BY <1>1, <1>a DEF Inject
  <2> QED
    BY <2>1 DEF Injects
<1>2. CASE ~Inject(u)
  <2>1. (pc[u] = "inject" => u \in Graph)'
    <3> SUFFICES ASSUME pc'[u] = "inject" PROVE pc[u] = "inject"
      BY <1>a DEF Injects
    <3>1. ASSUME NEW g \in Graph, Forward(g, u) PROVE FALSE
      BY <3>1, <1>a DEF Forward, Send
    <3>2. ASSUME NEW t \in Task, Spawning(t) PROVE pc[u] = "inject"
      BY <3>2, <1>a DEF Spawning, Abort, FirstCheck, Acquire, Installed, InstallFails, MarkExecuted
    <3>3. ASSUME NEW t \in Task, Running(t) PROVE pc[u] = "inject"
      BY <3>3, <1>a, <1>2 DEF Running, Prepare, Abandons, EndsBeforeCommands, BeginsCommands,
          RefuseNextEntry, Inject, InjectDone, Regain, InjectAbort, CommandsEnd, RemoveSelf,
          JobOver
    <3>4. ASSUME Looping PROVE pc[u] = "inject"
      BY <3>4, <1>a DEF Looping, Recv, DrainEnd, StopCleanup, Check, Wake, Exit
    <3>5. ASSUME NEW g \in Graph, Forwarding(g) PROVE pc[u] = "inject"
      BY <3>1, <3>5, <1>a DEF Forwarding, SubscribeAgain, Forward, SyncEmpty, SyncClose,
          ForwardNone, runVars
    <3> QED
      BY <3>2, <3>3, <3>4, <3>5 DEF Next, CtrlC, Over, vars, runVars
  <2>2. ASSUME u \in Graph, rx'[u] # "none"
        PROVE  /\ pc'[u] \in {"inject", "regain", "exec", "ended", "abandoned", "removed", "gone"}
               /\ rx'[u] = "done" \/ pc'[u] = "inject" \/ MustStop'
    <3>1. /\ rx[u] # "none" /\ (rx[u] = "done" => rx'[u] = "done")
          /\ pc[u] \in {"inject", "regain", "exec", "ended", "abandoned", "removed", "gone"}
          /\ rx[u] = "done" \/ pc[u] = "inject" \/ MustStop
      BY <1>2, <1>a, <1>d, <2>2 DEF Injects
    <3> DEFINE Goal ==
          /\ pc'[u] \in {"inject", "regain", "exec", "ended", "abandoned", "removed", "gone"}
          /\ pc[u] = "inject" => pc'[u] = "inject" \/ rx[u] = "done" \/ MustStop
    <3>2. Goal
      <4>1. CASE pc'[u] = pc[u]
        BY <4>1, <3>1
      <4>2. ASSUME NEW t \in Task, Running(t) PROVE Goal
        <5>1. CASE t # u
          <6>1. pc'[u] = pc[u]
            BY <4>2, <5>1, <1>a DEF Running, Prepare, Abandons, EndsBeforeCommands, BeginsCommands,
              RefuseNextEntry, Inject, InjectDone, Regain, InjectAbort, CommandsEnd, RemoveSelf,
              JobOver
          <6> QED
            BY <6>1, <3>1
        <5>2. CASE t = u
          BY <4>2, <5>2, <3>1, <1>a, <1>2 DEF Running, Prepare, Abandons, EndsBeforeCommands,
              BeginsCommands, RefuseNextEntry, InjectDone, Regain, InjectAbort, GivesUp,
              CommandsEnd, RemoveSelf, JobOver, MustStop, IsStopping
        <5> QED
          BY <5>1, <5>2
      <4>3. ASSUME NEW t \in Task, Spawning(t) PROVE pc'[u] = pc[u]
        BY <4>3, <3>1, <1>a DEF Spawning, Abort, FirstCheck, Acquire, Installed, InstallFails,
            MarkExecuted
      <4>4. ASSUME Looping PROVE pc'[u] = pc[u]
        BY <4>4, <3>1, <1>a DEF Looping, Recv, DrainEnd, StopCleanup, Check, Wake, Exit, Pending,
            Queued
      <4>5. ASSUME NEW g \in Graph, Forwarding(g) PROVE pc'[u] = pc[u]
        <5>1. ASSUME NEW t \in Task, Forward(g, t) PROVE pc'[u] = pc[u]
          BY <5>1, <3>1, <1>a, ForwardsIdle DEF Forward
        <5> QED
          BY <4>5, <5>1 DEF Forwarding, SubscribeAgain, SyncEmpty, SyncClose, ForwardNone, runVars
      <4> QED
        BY <4>1, <4>2, <4>3, <4>4, <4>5 DEF Next, CtrlC, Over, vars, runVars
    <3> QED
      BY <3>1, <3>2, <1>b
  <2> QED
    BY <2>1, <2>2 DEF Injects
<1> QED
  BY <1>1, <1>2

(* A task leaves a graph at its end, or because of a stop.                 *)
LEMMA RemovedHow ==
  ASSUME IInv, [Next]_vars, NEW u \in Task, u \in removed'[Home[u]], u \notin removed[Home[u]]
  PROVE  HasLeft(u)' \/ MustStop
<1> DEFINE h == Home[u]
<1>a. TypeOK /\ GraphTypeOK /\ h \in Graph /\ pc \in [Task -> PcState]
  BY GraphType DEF IInv, TypeOK
<1>b. removed' # removed
  OBVIOUS
<1>c. ASSUME NEW t \in Task, Remove(t) PROVE t = u
  BY <1>a, <1>c DEF Remove, GraphTypeOK
<1>1. ASSUME NEW g \in Graph, Forwarding(g) PROVE FALSE
  BY <1>1, <1>b DEF Forwarding, SubscribeAgain, Resubscribe, Forward, SyncEmpty, SyncClose,
                    ForwardNone
<1>2. ASSUME Looping PROVE MustStop
  BY <1>2, <1>b DEF Looping, Recv, MayStart, DrainEnd, StopCleanup, Check, Wake, graphVars
<1>3. ASSUME NEW t \in Task, Spawning(t) PROVE HasLeft(u)' \/ MustStop
  <2>1. CASE Abort(t)
    BY <2>1 DEF Abort, MayStart
  <2>2. CASE InstallFails(t)
    BY <2>2, <1>a, <1>c DEF InstallFails, HasLeft
  <2> QED
    BY <1>3, <1>b, <2>1, <2>2 DEF Spawning, FirstCheck, Acquire, Installed, MarkExecuted, graphVars
<1>4. ASSUME NEW t \in Task, Running(t) PROVE HasLeft(u)' \/ MustStop
  <2>1. CASE InjectAbort(t)
    BY <2>1 DEF InjectAbort, GivesUp, MustStop, IsStopping
  <2>2. CASE RemoveSelf(t)
    BY <2>2, <1>a, <1>c DEF RemoveSelf, HasLeft
  <2> QED
    BY <1>4, <1>b, <2>1, <2>2 DEF Running, Prepare, RefuseNextEntry, Inject, NewPruned,
          InjectDone, Regain, CommandsEnd, JobOver, graphVars
<1> QED
  BY <1>1, <1>2, <1>3, <1>4, <1>b DEF Next, CtrlC, Over, vars, graphVars

(* Each step takes only tasks that are over out of a graph, unless the run *)
(* stops.                                                                  *)
LEMMA LeftStep == ASSUME IInv, [Next]_vars, NEW u \in Task PROVE LeftWell(u)'
<1> DEFINE h == Home[u]
<1>a. TypeOK /\ GraphTypeOK /\ LeftWell(u) /\ h \in Graph
  BY GraphType DEF IInv, TypeOK, TaskInv
<1>b. (MustStop => MustStop') /\ opts' = opts
  BY <1>a, StopOnward
<1>c. (HasLeft(u) => HasLeft(u)') /\ (Finished(u) => Finished(u)')
  BY FinishedOnward
<1>d. removed[h] \subseteq removed'[h]
  BY <1>a, GraphsOnward
<1>1. (u \in removed[Home[u]] => HasLeft(u) \/ MustStop)'
  <2>1. CASE u \in removed[h]
    BY <2>1, <1>a, <1>b, <1>c DEF LeftWell
  <2>2. CASE u \notin removed[h]
    BY <2>2, <1>b, RemovedHow
  <2> QED
    BY <2>1, <2>2
<1>2. (snapshot[u] \subseteq removed[Home[u]])'
  <2>a. snapshot \in [Task -> SUBSET Task] /\ snapshot[u] \subseteq removed[h]
    BY <1>a DEF TypeOK, LeftWell
  <2>1. CASE snapshot' = snapshot
    BY <2>1, <2>a, <1>d
  <2>2. ASSUME NEW t \in Task, Prepare(t) PROVE snapshot'[u] \subseteq removed[h]
    BY <2>2, <2>a DEF Prepare, Completed
  <2>3. ASSUME NEW g \in Graph, Forwarding(g) PROVE snapshot' = snapshot
    BY <2>3 DEF Forwarding, SubscribeAgain, Forward, SyncEmpty, SyncClose, ForwardNone, runVars
  <2>4. ASSUME NEW t \in Task, Spawning(t) PROVE snapshot' = snapshot
    BY <2>4 DEF Spawning, Abort, FirstCheck, Acquire, Installed, InstallFails, MarkExecuted
  <2>5. ASSUME NEW t \in Task, Running(t) PROVE snapshot' = snapshot \/ Prepare(t)
    BY <2>5 DEF Running, RefuseNextEntry, Inject, InjectDone, Regain, InjectAbort, CommandsEnd,
          RemoveSelf, JobOver
  <2>6. ASSUME Looping PROVE snapshot' = snapshot
    BY <2>6 DEF Looping, Recv, DrainEnd, StopCleanup, Check, Wake
  <2> QED
    BY <2>1, <2>2, <2>3, <2>4, <2>5, <2>6, <1>d DEF Next, CtrlC, Over, vars, runVars
<1>3. ASSUME rx'[h] # "none", h = Root => u \in opts.tasks
      PROVE  u \in graph'[h] \/ Finished(u)' \/ MustStop'
  <2>1. CASE rx[h] # "none"
    <3>1. u \in graph[h] \/ Finished(u) \/ MustStop
      BY <2>1, <1>3, <1>a DEF LeftWell
    <3>2. CASE u \in graph[h]
      <4>1. u \in graph'[h] \/ u \in removed'[h]
        <5>1. ASSUME NEW g, NEW G, NEW X, Trims(g, G, X)
              PROVE  u \in graph'[h] \/ u \in removed'[h]
          BY <5>1, <3>2, <1>a DEF Trims, GraphTypeOK
        <5>2. ASSUME NEW t \in Task, Inject(t) PROVE u \in graph'[h]
          <6>1. t # h
            BY <5>2, <2>1 DEF Inject
          <6> QED
            BY <5>2, <6>1, <3>2, <1>a DEF Inject, NewPruned, GraphTypeOK
        <5>3. ASSUME NEW g \in Graph,
                     \/ \E t \in Task : Forward(g, t)
                     \/ SyncEmpty(g) \/ SyncClose(g) \/ ForwardNone(g)
              PROVE  u \in graph'[h]
          BY <5>3, <3>2 DEF Forward, SyncEmpty, SyncClose, ForwardNone
        <5> QED
          BY StepMoves, <3>2, <5>1, <5>2, <5>3 DEF GraphMoves, SameGraphs
      <4> QED
        BY <4>1, <1>1 DEF Finished, HasLeft
    <3> QED
      BY <3>1, <3>2, <1>b, <1>c
  <2>2. CASE rx[h] = "none"
    <3>1. h \in Task /\ Inject(h)
      <4>1. rx' # rx
        BY <1>3, <2>2
      <4>2. ~(\E g \in Graph : rx[g] = "gap" /\ rx' = [rx EXCEPT ![g] = "open"])
        BY <1>3, <2>2, <1>a DEF GraphTypeOK
      <4>3. ~(\E g \in Graph : SyncEmpty(g) \/ SyncClose(g) \/ ForwardNone(g))
        BY <1>3, <2>2, <1>a DEF GraphTypeOK, SyncEmpty, SyncClose, ForwardNone
      <4>4. ~(\E g \in Graph, t \in Task : Forward(g, t))
        BY <4>1 DEF Forward
      <4>5. PICK t \in Task : Inject(t)
        BY StepMoves, <4>1, <4>2, <4>3, <4>4 DEF GraphMoves
      <4> QED
        BY <4>5, <1>3, <2>2, <1>a DEF Inject, NewPruned, GraphTypeOK
    <3>2. u \in Nodes(h)
      BY DEF Nodes
    <3>3. CASE \E c \in snapshot[h] : <<u, c>> \in Same
      <4>1. PICK c \in snapshot[h] : <<u, c>> \in Same
        BY <3>3
      <4>2. c \in Task /\ c \in removed[Home[h]]
        BY <3>1, <4>1 DEF IInv, TypeOK, TaskInv, LeftWell
      <4>3. Home[c] = Home[h]
        BY <3>1, <4>2, GraphType DEF IInv, Shape, Nodes
      <4>4. HasLeft(c) \/ MustStop
        BY <4>2, <4>3 DEF IInv, TaskInv, LeftWell
      <4>5. HasLeft(c) => HasLeft(c)'
        BY <4>2, FinishedOnward
      <4>6. HasLeft(c)' => Finished(u)'
        BY <4>1, <4>2 DEF Finished, HasLeft
      <4> QED
        BY <4>4, <4>5, <4>6, <1>b
    <3>4. CASE ~\E c \in snapshot[h] : <<u, c>> \in Same
      BY <3>1, <3>2, <3>4, <1>a DEF Inject, NewPruned, GraphTypeOK
    <3> QED
      BY <3>3, <3>4
  <2> QED
    BY <2>1, <2>2
<1> QED
  BY <1>1, <1>2, <1>3, <1>b DEF LeftWell

(* What a task that was sent needs has ended, unless the run stops.        *)
LEMMA SentHasNeeds ==
  ASSUME IInv, NEW t \in Task, pc[t] # "idle", NEW d \in Task, <<t, d>> \in Needs
  PROVE  Finished(d) \/ MustStop
<1> DEFINE h == Home[t]
<1>1. h \in Graph /\ <<t, d>> \in Edges /\ Home[d] = h
  BY GraphType, EdgeAssumption DEF Edges
<1>2. t \in sent[h] /\ Shape(h) /\ LeftWell(d)
  BY <1>1 DEF IInv, TaskInv, Once
<1>3. d \notin graph[h] /\ rx[h] # "none"
  BY <1>1, <1>2 DEF Shape
<1>4. h = Root => d \in opts.tasks
  BY <1>1, <1>2, InvocationAssumption DEF Shape, IInv, TypeOK
<1> QED
  BY <1>1, <1>2, <1>3, <1>4 DEF LeftWell

(* Each step lets only tasks past the last check whose needs are over, or  *)
(* cleanup.                                                                *)
LEMMA AdmittedStep == ASSUME IInv, [Next]_vars, NEW u \in Task PROVE Admitted(u)'
<1>a. TypeOK /\ Admitted(u) /\ pc \in [Task -> PcState]
  BY DEF IInv, TypeOK, TaskInv
<1>b. Inherits(u) => Inherits(u)'
  BY <1>a, StopOnward DEF Inherits, Injected
<1>c. \A d \in Task : Finished(d) => Finished(d)'
  BY FinishedOnward
<1>1. ASSUME u \in began' \/ pc'[u] \in {"mark", "job"}
      PROVE  \/ u \in began \/ pc[u] \in {"mark", "job"}
             \/ pc[u] # "idle" /\ MayStart(u)
  <2>1. ASSUME NEW t \in Task, Running(t) PROVE u \in began \/ pc[u] \in {"mark", "job"}
    BY <2>1, <1>1, <1>a DEF Running, Prepare, Abandons, EndsBeforeCommands, BeginsCommands,
          RefuseNextEntry, Inject, InjectDone, Regain, InjectAbort, CommandsEnd, RemoveSelf,
          JobOver
  <2>2. ASSUME NEW t \in Task, Spawning(t)
        PROVE  \/ u \in began \/ pc[u] \in {"mark", "job"}
               \/ pc[u] # "idle" /\ MayStart(u)
    BY <2>2, <1>1, <1>a DEF Spawning, Abort, FirstCheck, Acquire, Installed, InstallFails,
          MarkExecuted
  <2>3. ASSUME Looping PROVE u \in began \/ pc[u] \in {"mark", "job"}
    BY <2>3, <1>1, <1>a DEF Looping, Recv, DrainEnd, StopCleanup, Check, Wake, Exit
  <2>4. ASSUME NEW g \in Graph, Forwarding(g) PROVE u \in began \/ pc[u] \in {"mark", "job"}
    BY <2>4, <1>1, <1>a DEF Forwarding, SubscribeAgain, Forward, Send, SyncEmpty, SyncClose,
          ForwardNone, runVars
  <2> QED
    BY <2>1, <2>2, <2>3, <2>4, <1>1 DEF Next, CtrlC, Over, vars, runVars
<1>2. ASSUME u \in began' \/ pc'[u] \in {"mark", "job"}, NEW d \in Task, <<u, d>> \in Needs
      PROVE  Finished(d)' \/ Inherits(u)' \/ \E v \in Task : <<u, v>> \in Post
  <2>1. CASE u \in began \/ pc[u] \in {"mark", "job"}
    BY <2>1, <1>2, <1>a, <1>b, <1>c DEF Admitted
  <2>2. CASE pc[u] # "idle" /\ MayStart(u)
    <3>1. CASE ~MustStop
      BY <3>1, <2>2, <1>2, <1>c, SentHasNeeds
    <3>2. CASE IsRunnablePostDep(u)
      BY <3>2, <1>a DEF IsRunnablePostDep, TypeOK, GraphTypeOK
    <3> QED
      BY <2>2, <3>1, <3>2, <1>b DEF MayStart
  <2> QED
    BY <1>1, <1>2, <2>1, <2>2
<1> QED
  BY <1>2 DEF Admitted

(* The loop leaves a run that goes on only when the main graph is done and *)
(* nothing is under way; nothing starts after that.                        *)
LEMMA LeavesStep == ASSUME IInv, [Next]_vars PROVE LeavesLast'
<1>a. TypeOK /\ GraphTypeOK /\ LeavesLast /\ Root \in Graph
  BY GraphType DEF IInv, TypeOK
<1>b. MustStop => MustStop'
  BY <1>a, StopOnward
<1> SUFFICES ASSUME loop' = "exited", ~MustStop PROVE MainDone' /\ InFlight' = {}
  BY <1>b DEF LeavesLast
<1>1. MainDone /\ InFlight = {}
  <2>1. CASE loop = "exited"
    BY <2>1, <1>a DEF LeavesLast
  <2>2. CASE loop # "exited"
    <3>1. ASSUME NEW g \in Graph, Forwarding(g) PROVE FALSE
      BY <2>2, <3>1 DEF Forwarding, SubscribeAgain, Forward, SyncEmpty, SyncClose, ForwardNone,
            runVars
    <3>2. ASSUME NEW t \in Task, Running(t) PROVE FALSE
      BY <2>2, <3>2 DEF Running, Prepare, RefuseNextEntry, Inject, InjectDone, Regain,
            InjectAbort, CommandsEnd, RemoveSelf, JobOver
    <3>3. ASSUME NEW t \in Task, Spawning(t) PROVE FALSE
      BY <2>2, <3>3 DEF Spawning, Abort, FirstCheck, Acquire, Installed, InstallFails,
            MarkExecuted
    <3>4. CASE Looping
      BY <2>2, <3>4 DEF Looping, Recv, DrainEnd, StopCleanup, Check, Wake
    <3> QED
      BY <2>2, <3>1, <3>2, <3>3, <3>4 DEF Next, CtrlC, Over, vars, runVars
  <2> QED
    BY <2>1, <2>2
<1>2. ASSUME NEW u \in Task PROVE u \notin InFlight'
  <2>1. PcMoves(u) /\ u \notin InFlight
    BY <1>1, PcStep
  <2>2. CASE pc'[u] = pc[u]
    BY <2>1, <2>2 DEF InFlight, InJob
  <2>3. ASSUME NEW g \in Graph, Forward(g, u) PROVE u \notin InFlight'
    <3>1. pc'[u] \in {"queued", "lost"}
      BY <2>3, <1>a DEF Forward, Send, TypeOK
    <3> QED
      BY <3>1 DEF InFlight, InJob
  <2>4. CASE pc'[u] = "lost"
    BY <2>4 DEF InFlight, InJob
  <2>5. CASE /\ pc[u] \notin {"idle", "lost", "gone", "dropped"}
             /\ loop # "exited" /\ pc'[u] # pc[u] /\ pc'[u] # "lost"
    <3>1. ASSUME NEW t \in Task, Running(t) PROVE FALSE
      BY <3>1, <1>1 DEF Running, Prepare, RefuseNextEntry, Inject, InjectDone, Regain,
            InjectAbort, CommandsEnd, RemoveSelf, JobOver, InFlight, InJob
    <3>2. ASSUME NEW t \in Task, Spawning(t) PROVE FALSE
      BY <2>5, <3>2 DEF Spawning, Abort, FirstCheck, Acquire, Installed, InstallFails,
            MarkExecuted
    <3>3. ASSUME NEW g \in Graph, Forwarding(g) PROVE FALSE
      BY <2>5, <3>3 DEF Forwarding, SubscribeAgain, Forward, SyncEmpty, SyncClose, ForwardNone,
            runVars
    <3>4. ASSUME Looping PROVE FALSE
      BY <2>5, <3>4, <1>a DEF Looping, Recv, DrainEnd, StopCleanup, Check, Wake, Exit, TypeOK
    <3> QED
      BY <2>5, <3>1, <3>2, <3>3, <3>4 DEF Next, CtrlC, Over, vars, runVars
  <2> QED
    BY <2>1, <2>2, <2>3, <2>4, <2>5 DEF PcMoves
<1>3. MainDone'
  <2>1. rx[Root] = "done"
    BY <1>1 DEF MainDone
  <2>2. rx'[Root] = "done"
    <3>1. CASE UNCHANGED rx
      BY <3>1, <2>1
    <3>2. ASSUME NEW g \in Graph, rx[g] = "gap", rx' = [rx EXCEPT ![g] = "open"]
          PROVE  rx'[Root] = "done"
      BY <3>2, <2>1, <1>a DEF GraphTypeOK
    <3>3. ASSUME NEW t \in Task, Inject(t) PROVE rx'[Root] = "done"
      BY <3>3, <2>1, <1>a, RootAssumption DEF Inject, NewPruned, GraphTypeOK
    <3>4. ASSUME NEW g \in Graph, SyncEmpty(g) \/ SyncClose(g) \/ ForwardNone(g)
          PROVE  rx'[Root] = "done"
      BY <3>4, <2>1, <1>a DEF SyncEmpty, SyncClose, ForwardNone, GraphTypeOK
    <3>5. ASSUME NEW g \in Graph, NEW t \in Task, Forward(g, t) PROVE UNCHANGED rx
      BY <3>5 DEF Forward
    <3>6. \/ UNCHANGED rx
          \/ \E g \in Graph : rx[g] = "gap" /\ rx' = [rx EXCEPT ![g] = "open"]
          \/ \E t \in Task : Inject(t)
          \/ \E g \in Graph : SyncEmpty(g) \/ SyncClose(g) \/ ForwardNone(g)
      BY StepMoves, <3>5 DEF GraphMoves
    <3> QED
      BY <3>1, <3>2, <3>3, <3>4, <3>6
  <2> QED
    BY <2>2 DEF MainDone
<1>4. InFlight' = {}
  <2>1. InFlight' \subseteq Task
    BY DEF InFlight, InJob
  <2> QED
    BY <1>2, <2>1
<1> QED
  BY <1>3, <1>4

(* The invariant holds initially.                                          *)
LEMMA Initially == Init => IInv
<1> SUFFICES ASSUME Init PROVE IInv
  OBVIOUS
<1> USE GraphType DEF Init
<1>a. opts.tasks \subseteq Nodes(Root) /\ opts.tasks \subseteq Task /\ opts.jobs \in Nat \ {0}
      /\ Leaves(opts.tasks) \subseteq opts.tasks
  BY InvocationAssumption DEF Nodes, Leaves
<1>1. TypeOK
  BY <1>a DEF TypeOK, GraphTypeOK, PcState, RxState
<1>2. ASSUME NEW g \in Graph PROVE Shape(g)
  <2>1. \A t \in Leaves(opts.tasks), d \in opts.tasks : <<t, d>> \notin Edges
    BY DEF Leaves
  <2>2. CASE g = Root
    BY <1>a, <2>1, <2>2 DEF Shape
  <2>3. CASE g # Root
    BY <2>3 DEF Shape
  <2> QED
    BY <2>2, <2>3
<1>3. ASSUME NEW t \in Task PROVE TaskInv(t)
  <2> DEFINE L == Leaves(opts.tasks)
  <2>1. Home[t] \in Graph /\ (t \in opts.tasks => Home[t] = Root)
    BY <1>a DEF Nodes
  <2> HIDE DEF L
  <2>2. Once(t)
    <3>1. /\ pc[t] \in {"queued", "idle"} /\ (pc[t] # "idle" => t \in L) /\ t \notin began
          /\ sent[Root] = L /\ (t \in L => pc[t] # "idle") /\ ready[Home[t]] = {}
      BY <2>1 DEF L
    <3>2. t \in L => Home[t] = Root
      BY <2>1, <1>a DEF L
    <3> QED
      BY <3>1, <3>2 DEF Once
  <2>3. pc[t] \in {"queued", "idle"} /\ t \notin began
    OBVIOUS
  <2>4. HasPermit(t) /\ Admitted(t)
    BY <2>3 DEF HasPermit, Admitted
  <2>5. Injects(t)
    BY <2>3, RootAssumption DEF Injects
  <2>6. LeftWell(t)
    BY <2>1 DEF LeftWell
  <2> QED
    BY <2>2, <2>4, <2>5, <2>6 DEF TaskInv
<1>4. AtMostJobs
  BY <1>a, FS_EmptySet DEF AtMostJobs
<1>5. LeavesLast
  BY DEF LeavesLast
<1> QED
  BY <1>1, <1>2, <1>3, <1>4, <1>5 DEF IInv

(* The invariant holds in every state.                                     *)
LEMMA Invariance == Spec => []IInv
<1>1. IInv /\ [Next]_vars => IInv'
  <2> SUFFICES ASSUME IInv, [Next]_vars PROVE IInv'
    OBVIOUS
  <2>1. \A g \in Graph : Shape(g)'
    BY ShapeStep
  <2>2. \A t \in Task : TaskInv(t)'
    BY OnceStep, PermitStep, InjectsStep, LeftStep, AdmittedStep DEF TaskInv
  <2> QED
    BY <2>1, <2>2, TypeStep, JobsStep, LeavesStep DEF IInv
<1> QED
  BY <1>1, Initially, PTL DEF Spec

(* Every variable keeps its type.                                          *)
THEOREM TypeCorrect == Spec => []TypeOK
<1>1. IInv => TypeOK
  BY DEF IInv
<1> QED
  BY <1>1, Invariance, PTL

(* Scripts run under a permit and there are never more permits than        *)
(* --jobs, whatever injects, installs, fails or stops.                     *)
THEOREM JobsLimit == Spec => []JobsRespected
<1>1. IInv => JobsRespected
  BY ScriptAssumption DEF IInv, TaskInv, HasPermit, AtMostJobs, JobsRespected
<1> QED
  BY <1>1, Invariance, PTL

(* No task is scheduled twice, however often its graph is subscribed to.   *)
THEOREM NoSecondSchedule == Spec => ScheduledOnce
<1>1. IInv /\ [Next]_vars =>
          [\A t \in Task : pc'[t] = "queued" => pc[t] \in {"idle", "queued"}]_vars
  BY PcStep DEF PcMoves
<1> QED
  BY <1>1, Invariance, PTL DEF Spec, ScheduledOnce

(* Between the two subscriptions of the main graph no leaf is lost.        *)
THEOREM MainLeavesArrive == Spec => []NoMainLeafLost
<1>1. IInv => NoMainLeafLost
  <2> SUFFICES ASSUME IInv, loop # "exited", NEW t \in sent[Root] \cap graph[Root],
                      t \notin ready[Root]
               PROVE  pc[t] \notin {"idle", "lost"}
    BY DEF NoMainLeafLost, OnItsWay
  <2>1. t \in Task
    BY GraphType DEF IInv, TypeOK, GraphTypeOK
  <2> QED
    BY <2>1 DEF IInv, TaskInv, Once
<1> QED
  BY <1>1, Invariance, PTL

(* A task's commands begin after everything it needs is over, unless it is *)
(* cleanup of a run that is stopping.                                      *)
THEOREM NeedsAreOver == Spec => []NeedsFinishFirst
<1>1. IInv => NeedsFinishFirst
  <2> SUFFICES ASSUME IInv, NEW t \in began, NEW d \in Task, <<t, d>> \in Needs, ~Finished(d)
               PROVE  StartsWhileStopping(t)
    BY DEF NeedsFinishFirst
  <2>1. t \in Task /\ pc[t] # "idle" /\ Admitted(t)
    BY DEF IInv, TypeOK, TaskInv, Once
  <2>2. MustStop
    BY <2>1, SentHasNeeds
  <2> QED
    BY <2>1, <2>2 DEF Admitted, StartsWhileStopping
<1> QED
  BY <1>1, Invariance, PTL

(* When the loop leaves a run that nothing stopped, every task of every    *)
(* graph in use is over.                                                   *)
THEOREM NothingIsLeft == Spec => []NothingLeftBehind
<1>1. IInv => NothingLeftBehind
  <2> SUFFICES ASSUME IInv, loop = "exited", ~MustStop, NEW t \in Task,
                      rx[Home[t]] # "none", Home[t] = Root => t \in opts.tasks
               PROVE  Finished(t)
    BY DEF NothingLeftBehind
  <2> DEFINE g == Home[t]
  <2>1. g \in Graph /\ Shape(g) /\ LeftWell(t)
    BY GraphType DEF IInv, TaskInv
  <2>2. rx[Root] = "done" /\ InFlight = {}
    BY DEF IInv, LeavesLast, MainDone
  <2>3. rx[g] = "done"
    <3>1. CASE g # Root
      <4>1. g \in Task
        BY <2>1, <3>1, GraphIsTask
      <4>2. /\ pc[g] \in {"inject", "regain", "exec", "ended", "abandoned", "removed", "gone"}
            /\ rx[g] = "done" \/ pc[g] = "inject"
        BY <2>1, <4>1 DEF IInv, TaskInv, Injects
      <4>3. pc[g] # "inject"
        BY <2>2, <4>1 DEF InFlight, InJob
      <4> QED
        BY <4>2, <4>3
    <3> QED
      BY <2>2, <3>1
  <2> QED
    BY <2>1, <2>3 DEF Shape, LeftWell
<1> QED
  BY <1>1, Invariance, PTL

-----------------------------------------------------------------------------
(***************************************************************************)
(* The cleanup tasks of a task that began are started, where nothing can   *)
(* come between the last check of the task and its mark, no interruption   *)
(* unmarks it and it is not cleanup itself: with one job, scripts only,    *)
(* one script entry for a task with cleanup, and no cleanup of cleanup.    *)
(***************************************************************************)
PlainCleanup ==
    /\ Script = Task
    /\ \A e \in Post : e[2] \notin Multi /\ \A u \in Task : <<e[2], u>> \notin Post

Serial == opts.jobs = 1 /\ PlainCleanup

(* What a task that began has behind it: its mark, which it keeps unless a *)
(* Ctrl-C comes between two entries; only what is cleanup or injected runs *)
(* during an interruption.                                                 *)
Marked(t) ==
    /\ pc[t] \in {"idle", "queued", "spawn", "permit", "install", "mark", "job"} =>
           t \notin began
    /\ pc[t] = "job" => t \in executed
    /\ t \in began \ Multi => t \in executed /\ pc[t] # "abandoned"
    /\ pc[t] = "abandoned" => cancelled
    /\ pc[t] = "install" => Injected(t)
    /\ t \in allowed => Injected(t) \/ \E u \in Task : <<t, u>> \in Post

(* From the last check of t on, nothing but a Ctrl-C can stop the run; and *)
(* its cleanup task p is in the graph or has run, unless a Ctrl-C keeps t  *)
(* from beginning.                                                         *)
Kept(p, t) ==
    /\ pc[t] = "mark" /\ MustStop => cancelled
    /\ t \in executed \/ pc[t] = "mark" =>
           p \notin removed[Root] \/ HasLeft(p) \/ (cancelled /\ t \notin began)

(* The loop leaves an empty main graph, from which tasks are only removed. *)
Emptied ==
    /\ opts.tasks \subseteq graph[Root] \cup removed[Root]
    /\ loop = "exited" => graph[Root] = {}

CInv ==
    /\ IInv
    /\ Emptied
    /\ \A t \in Task : Marked(t)
    /\ Serial => \A p, t \in Nodes(Root) : <<p, t>> \in Post => Kept(p, t)

(* The last receiver of the main graph reads None when it is empty, and a  *)
(* stopped run leaves when nothing but removed tasks was in it.            *)
LEMMA EmptiedStep == ASSUME IInv, Emptied, [Next]_vars PROVE Emptied'
<1>a. GraphTypeOK /\ Root \in Graph /\ Shape(Root)
  BY GraphType DEF IInv, TypeOK
<1>b. opts' = opts
  BY StopOnward DEF IInv
<1> DEFINE Onward == /\ graph'[Root] \subseteq graph[Root]
                     /\ graph[Root] \cup removed[Root] \subseteq graph'[Root] \cup removed'[Root]
<1>1. Onward
  <2>1. ASSUME UNCHANGED <<graph, removed>> PROVE Onward
    BY <2>1
  <2>2. ASSUME NEW g, NEW G, NEW X, Trims(g, G, X) PROVE Onward
    BY <2>2, <1>a DEF Trims, GraphTypeOK
  <2>3. ASSUME NEW t \in Task, Inject(t) PROVE Onward
    <3>1. t # Root
      BY RootAssumption
    <3> QED
      BY <2>3, <3>1, <1>a DEF Inject, NewPruned, GraphTypeOK
  <2>4. ASSUME NEW g \in Graph, NEW t \in Task, Forward(g, t) PROVE Onward
    BY <2>1, <2>4 DEF Forward
  <2>5. ASSUME NEW g \in Graph, SyncEmpty(g) \/ SyncClose(g) \/ ForwardNone(g) PROVE Onward
    BY <2>1, <2>5 DEF SyncEmpty, SyncClose, ForwardNone
  <2> QED
    BY StepMoves, <2>1, <2>2, <2>3, <2>4, <2>5 DEF GraphMoves, SameGraphs
<1>2. ASSUME loop' = "exited", loop # "exited" PROVE graph'[Root] = {}
  <2>1. StopCleanup \/ Check
    <3>1. ASSUME NEW g \in Graph, Forwarding(g) PROVE loop' = loop
      BY <3>1 DEF Forwarding, SubscribeAgain, Forward, SyncEmpty, SyncClose, ForwardNone, runVars
    <3>2. ASSUME NEW t \in Task, Running(t) PROVE loop' = loop
      BY <3>2 DEF Running, Prepare, RefuseNextEntry, Inject, InjectDone, Regain, InjectAbort,
                  CommandsEnd, RemoveSelf, JobOver
    <3>3. ASSUME NEW t \in Task, Spawning(t) PROVE loop' = loop
      BY <3>3 DEF Spawning, Abort, FirstCheck, Acquire, Installed, InstallFails, MarkExecuted
    <3> QED
      BY <1>2, <3>1, <3>2, <3>3
      DEF Next, Looping, Recv, DrainEnd, Wake, CtrlC, Over, vars, runVars
  <2>2. CASE Check
    BY <1>2, <1>a, <2>2 DEF Check, MainDone, Shape, graphVars
  <2>3. CASE StopCleanup
    <3> DEFINE S == {t \in graph[Root] : ~IsRunnablePostDep(t)}
    <3>1. RemoveBatch(Root, S) /\ graph[Root] \subseteq S
      BY <1>2, <2>3 DEF StopCleanup
    <3> HIDE DEF S
    <3> QED
      BY <3>1, <1>a DEF RemoveBatch, GraphTypeOK
  <2> QED
    BY <2>1, <2>2, <2>3
<1> QED
  BY <1>1, <1>2, <1>b DEF Emptied

(* Each step keeps what is behind a task.                                  *)
LEMMA MarkedStep == ASSUME IInv, [Next]_vars, NEW u \in Task, Marked(u) PROVE Marked(u)'
<1>a. TypeOK /\ pc \in [Task -> PcState]
  BY DEF IInv, TypeOK
<1>b. Injected(u)' = Injected(u)
  BY DEF Injected
<1> USE DEF Marked
<1>1. CASE UNCHANGED <<pc, executed, began, allowed, cancelled>>
  BY <1>1, <1>b
<1>2. ASSUME NEW g \in Graph, Forwarding(g) PROVE Marked(u)'
  <2>1. ASSUME NEW t \in Task, Forward(g, t) PROVE Marked(u)'
    <3>1. pc[t] = "idle" /\ pc'[t] \in {"lost", "queued"} /\ (u # t => pc'[u] = pc[u])
      BY <2>1, <1>a, ForwardsIdle DEF Forward, Send
    <3>2. UNCHANGED <<executed, began, allowed, cancelled>>
      BY <2>1 DEF Forward
    <3> QED
      BY <3>1, <3>2, <1>b
  <2> QED
    BY <1>1, <1>2, <2>1 DEF Forwarding, SubscribeAgain, Resubscribe, SyncEmpty, SyncClose,
                            ForwardNone, runVars
<1>3. CASE Looping
  <2>1. ASSUME Exit, UNCHANGED <<executed, began, allowed, cancelled>> PROVE Marked(u)'
    BY <2>1, <1>a, <1>b DEF Exit
  <2>2. ASSUME NEW t \in Task, Recv(t) PROVE Marked(u)'
    BY <2>2, <1>a, <1>b DEF Recv
  <2> QED
    BY <1>1, <1>3, <2>1, <2>2 DEF Looping, DrainEnd, StopCleanup, Check, Wake, graphVars
<1>4. ASSUME NEW t \in Task, Spawning(t) PROVE Marked(u)'
  <2>a. IsRunnablePostDep(t) => \E w \in Task : <<t, w>> \in Post
    BY <1>a DEF IsRunnablePostDep, TypeOK, GraphTypeOK
  <2>b. Inherits(t) => Injected(t)
    BY DEF Inherits
  <2>1. CASE Abort(t)
    BY <2>1, <1>a, <1>b DEF Abort
  <2>2. CASE FirstCheck(t)
    <3>1. /\ pc[t] = "spawn" /\ pc'[t] \in {"permit", "mark"} /\ (u # t => pc'[u] = pc[u])
          /\ UNCHANGED <<executed, began, cancelled>>
      BY <2>2, <1>a DEF FirstCheck, graphVars
    <3>2. allowed' = allowed \/ allowed' = allowed \cup {t}
      BY <2>2 DEF FirstCheck
    <3>3. CASE Inherits(t) \/ IsRunnablePostDep(t)
      BY <3>1, <3>2, <3>3, <2>a, <2>b, <1>b
    <3>4. CASE ~(Inherits(t) \/ IsRunnablePostDep(t))
      <4>1. allowed' = allowed
        BY <2>2, <3>4 DEF FirstCheck
      <4> QED
        BY <3>1, <4>1, <1>b
    <3> QED
      BY <3>3, <3>4
  <2>3. CASE Acquire(t)
    BY <2>3, <2>a, <1>a, <1>b DEF Acquire, graphVars
  <2>4. CASE Installed(t)
    BY <2>4, <2>a, <2>b, <1>a, <1>b DEF Installed, graphVars
  <2>5. CASE InstallFails(t)
    BY <2>5, <1>a, <1>b DEF InstallFails
  <2>6. CASE MarkExecuted(t)
    BY <2>6, <1>a, <1>b DEF MarkExecuted
  <2> QED
    BY <1>4, <2>1, <2>2, <2>3, <2>4, <2>5, <2>6 DEF Spawning
<1>5. ASSUME NEW t \in Task, Running(t) PROVE Marked(u)'
  <2>1. CASE Prepare(t)
    BY <2>1, <1>a, <1>b DEF Prepare, Abandons, Interruptible, EndsBeforeCommands,
                            BeginsCommands, graphVars
  <2>2. CASE RemoveSelf(t)
    BY <2>2, <1>a, <1>b DEF RemoveSelf
  <2>3. CASE RefuseNextEntry(t)
    BY <2>3, <1>a, <1>b DEF RefuseNextEntry, Interruptible, graphVars
  <2>4. CASE Inject(t) \/ InjectDone(t) \/ Regain(t)
    BY <2>4, <1>a, <1>b DEF Inject, InjectDone, Regain, graphVars
  <2>5. CASE InjectAbort(t) \/ CommandsEnd(t) \/ JobOver(t)
    BY <2>5, <1>a, <1>b DEF InjectAbort, CommandsEnd, JobOver, graphVars
  <2> QED
    BY <1>5, <2>1, <2>2, <2>3, <2>4, <2>5 DEF Running
<1>6. CASE CtrlC
  BY <1>6, <1>a, <1>b DEF CtrlC, graphVars
<1> QED
  BY <1>1, <1>2, <1>3, <1>4, <1>5, <1>6 DEF Next, Over, vars, runVars, graphVars

(* Where one script runs at a time, nothing but a Ctrl-C stops the run     *)
(* between the check of a task and its mark: whoever could fail would hold *)
(* the permit.                                                             *)
LEMMA NobodyElseStops ==
  ASSUME IInv, [Next]_vars, Serial, NEW t \in Task, pc[t] = "mark", \A u \in Task : Marked(u),
         ~MustStop
  PROVE  MustStop' => cancelled'
<1>a. /\ IsFiniteSet(permits) /\ Cardinality(permits) <= 1 /\ Script = Task
      /\ permits \subseteq Task /\ t \in permits
  BY TaskAssumption, FS_Subset DEF IInv, TypeOK, AtMostJobs, Serial, PlainCleanup, TaskInv, HasPermit
<1>b. ASSUME NEW u \in Task, pc[u] \in {"install", "mark", "job", "exec"} PROVE u = t
  <2>1. {t, u} \subseteq permits
    BY <1>a, <1>b DEF IInv, TaskInv, HasPermit
  <2>2. Cardinality({t, u}) <= Cardinality(permits) /\ Cardinality({t, u}) \in Nat
        /\ Cardinality(permits) \in Nat
    BY <2>1, <1>a, FS_Subset, FS_CardinalityType
  <2>3. Cardinality({t, u}) <= 1
    BY <2>2, <1>a
  <2>4. ASSUME u # t PROVE Cardinality({t, u}) = 2
    <3>1. IsFiniteSet({t}) /\ Cardinality({t}) = 1 /\ {t, u} = {t} \cup {u} /\ u \notin {t}
      BY <2>4, FS_Singleton
    <3> QED
      BY <3>1, FS_AddElement
  <2> QED
    BY <2>3, <2>4
<1> DEFINE Quiet == UNCHANGED <<failed, interrupted, cancelled, opts>>
<1>1. ASSUME Quiet PROVE ~MustStop'
  BY <1>1 DEF MustStop, IsStopping, ExecutorStopping
<1>2. ASSUME NEW g \in Graph, Forwarding(g) PROVE Quiet
  BY <1>2 DEF Forwarding, SubscribeAgain, Forward, SyncEmpty, SyncClose, ForwardNone, runVars
<1>3. ASSUME Looping PROVE Quiet
  BY <1>3 DEF Looping, Recv, DrainEnd, StopCleanup, Check, Wake
<1>4. ASSUME NEW u \in Task, Spawning(u) PROVE Quiet
  <2>1. ~InstallFails(u)
    BY <1>b DEF InstallFails
  <2> QED
    BY <1>4, <2>1 DEF Spawning, Abort, FirstCheck, Acquire, Installed, MarkExecuted
<1>5. ASSUME NEW u \in Task, Running(u) PROVE Quiet \/ cancelled'
  <2>1. ~Prepare(u) /\ ~CommandsEnd(u)
    BY <1>b DEF Prepare, CommandsEnd
  <2>2. ~GivesUp(u)
    BY DEF GivesUp, MustStop, IsStopping
  <2>3. CASE RemoveSelf(u)
    <3>1. CASE pc[u] = "abandoned"
      BY <2>3, <3>1 DEF RemoveSelf, Marked
    <3>2. CASE pc[u] # "abandoned"
      <4>1. interrupted' = interrupted
        BY <2>3, <3>2 DEF RemoveSelf, IInv, TypeOK
      <4> QED
        BY <2>3, <4>1 DEF RemoveSelf
    <3> QED
      BY <3>1, <3>2
  <2> QED
    BY <1>5, <2>1, <2>2, <2>3 DEF Running, RefuseNextEntry, Inject, InjectDone, Regain,
                                  InjectAbort, JobOver
<1>6. ASSUME CtrlC PROVE cancelled'
  BY <1>6 DEF CtrlC
<1>7. Quiet \/ cancelled'
  BY <1>2, <1>3, <1>4, <1>5, <1>6 DEF Next, Over, vars, runVars
<1> QED
  BY <1>1, <1>7

(* A task leaves the main graph at its end, or because of a stop while     *)
(* none of the tasks it cleans up after is marked.                         *)
LEMMA CleanupRemovedHow ==
  ASSUME IInv, [Next]_vars, NEW p \in Nodes(Root), p \in removed'[Root], p \notin removed[Root]
  PROVE  HasLeft(p)' \/ (MustStop /\ ~IsRunnablePostDep(p))
<1>a. /\ TypeOK /\ GraphTypeOK /\ Root \in Graph /\ pc \in [Task -> PcState]
      /\ p \in Task /\ Home[p] = Root
  BY GraphType DEF IInv, TypeOK, Nodes
<1>b. removed' # removed
  OBVIOUS
<1>c. ASSUME NEW t \in Task, Remove(t) PROVE t = p
  BY <1>a, <1>c, GraphType DEF Remove, GraphTypeOK
<1>1. ASSUME NEW g \in Graph, Forwarding(g) PROVE FALSE
  BY <1>1, <1>b DEF Forwarding, SubscribeAgain, Resubscribe, Forward, SyncEmpty, SyncClose,
                    ForwardNone
<1>2. ASSUME Looping PROVE MustStop /\ ~IsRunnablePostDep(p)
  <2>1. CASE StopCleanup
    <3> DEFINE S == {t \in graph[Root] : ~IsRunnablePostDep(t)}
    <3>1. RemoveBatch(Root, S) /\ MustStop
      BY <2>1 DEF StopCleanup
    <3>2. p \in S
      <4> HIDE DEF S
      <4> QED
        BY <3>1, <1>a DEF RemoveBatch, GraphTypeOK
    <3> QED
      BY <3>1, <3>2
  <2>2. ASSUME NEW t \in Task, Recv(t) PROVE MustStop /\ ~IsRunnablePostDep(p)
    BY <2>2, <1>b, <1>c DEF Recv, MayStart
  <2> QED
    BY <1>2, <1>b, <2>1, <2>2 DEF Looping, DrainEnd, Check, Wake, graphVars
<1>3. ASSUME NEW t \in Task, Spawning(t)
      PROVE  HasLeft(p)' \/ (MustStop /\ ~IsRunnablePostDep(p))
  <2>1. CASE Abort(t)
    BY <2>1, <1>c DEF Abort, MayStart
  <2>2. CASE InstallFails(t)
    BY <2>2, <1>a, <1>c DEF InstallFails, HasLeft
  <2> QED
    BY <1>3, <1>b, <2>1, <2>2 DEF Spawning, FirstCheck, Acquire, Installed, MarkExecuted, graphVars
<1>4. ASSUME NEW t \in Task, Running(t) PROVE HasLeft(p)'
  <2>1. CASE InjectAbort(t)
    <3>1. t # Root
      BY RootAssumption
    <3> QED
      BY <2>1, <3>1, <1>a DEF InjectAbort, RemoveOneByOne, GraphTypeOK
  <2>2. CASE RemoveSelf(t)
    BY <2>2, <1>a, <1>c DEF RemoveSelf, HasLeft
  <2> QED
    BY <1>4, <1>b, <2>1, <2>2 DEF Running, Prepare, RefuseNextEntry, Inject, NewPruned,
          InjectDone, Regain, CommandsEnd, JobOver, graphVars
<1> QED
  BY <1>1, <1>2, <1>3, <1>4, <1>b DEF Next, CtrlC, Over, vars, graphVars

(* A task with cleanup is checked when the run is not stopping.            *)
LEMMA CheckedHow ==
  ASSUME IInv, [Next]_vars, Serial, NEW t \in Nodes(Root), NEW p, <<p, t>> \in Post,
         pc'[t] = "mark", pc[t] # "mark"
  PROVE  ~MustStop /\ ~MustStop'
<1>a. /\ pc \in [Task -> PcState] /\ t \in Task /\ ~Injected(t) /\ Script = Task
      /\ executed \subseteq Task
  BY DEF IInv, TypeOK, GraphTypeOK, Nodes, Injected, Serial, PlainCleanup
<1>b. ~IsRunnablePostDep(t) /\ ~Inherits(t)
  BY <1>a DEF Serial, PlainCleanup, IsRunnablePostDep, Inherits
<1>1. ASSUME NEW g \in Graph, Forwarding(g) PROVE FALSE
  BY <1>1, <1>a DEF Forwarding, SubscribeAgain, Forward, Send, SyncEmpty, SyncClose, ForwardNone,
                    runVars
<1>2. ASSUME Looping PROVE FALSE
  BY <1>2, <1>a DEF Looping, Recv, DrainEnd, StopCleanup, Check, Wake, Exit
<1>3. ASSUME NEW u \in Task, Running(u) PROVE FALSE
  BY <1>3, <1>a DEF Running, Prepare, Abandons, EndsBeforeCommands, BeginsCommands,
        RefuseNextEntry, Inject, InjectDone, Regain, InjectAbort, CommandsEnd, RemoveSelf, JobOver
<1>4. ASSUME NEW u \in Task, Spawning(u) PROVE ~MustStop /\ UNCHANGED <<failed, interrupted, cancelled, opts>>
  <2>1. u = t /\ (FirstCheck(u) \/ Acquire(u) \/ Installed(u))
    BY <1>4, <1>a DEF Spawning, Abort, FirstCheck, Acquire, Installed, InstallFails, MarkExecuted
  <2> QED
    BY <2>1, <1>b DEF FirstCheck, Acquire, Installed, MayStart
<1>5. ~MustStop /\ UNCHANGED <<failed, interrupted, cancelled, opts>>
  BY <1>1, <1>2, <1>3, <1>4 DEF Next, CtrlC, Over, vars, runVars
<1> QED
  BY <1>5 DEF MustStop, IsStopping, ExecutorStopping

(* Each step keeps the cleanup tasks of a task that is to begin or began.  *)
LEMMA KeptStep ==
  ASSUME CInv, [Next]_vars, Serial, NEW p \in Nodes(Root), NEW t \in Nodes(Root), <<p, t>> \in Post
  PROVE  Kept(p, t)'
<1>a. /\ IInv /\ t \in Task /\ p \in Task /\ ~Injected(t) /\ t \notin Multi
      /\ Marked(t) /\ Marked(t)' /\ Kept(p, t) /\ \A u \in Task : Marked(u)
      /\ pc \in [Task -> PcState]
  BY MarkedStep DEF CInv, IInv, TypeOK, Nodes, Injected, Serial, PlainCleanup
<1>b. t \notin allowed /\ t \notin allowed'
  <2>1. \A u \in Task : <<t, u>> \notin Post
    BY DEF Serial, PlainCleanup
  <2> QED
    BY <1>a, <2>1 DEF Marked, Injected
<1>c. cancelled => cancelled'
  <2>1. ASSUME NEW g \in Graph, Forwarding(g) PROVE UNCHANGED cancelled
    BY <2>1 DEF Forwarding, SubscribeAgain, Forward, SyncEmpty, SyncClose, ForwardNone, runVars
  <2>2. ASSUME NEW u \in Task, Running(u) PROVE UNCHANGED cancelled
    BY <2>2 DEF Running, Prepare, RefuseNextEntry, Inject, InjectDone, Regain, InjectAbort,
                CommandsEnd, RemoveSelf, JobOver
  <2>3. ASSUME NEW u \in Task, Spawning(u) PROVE UNCHANGED cancelled
    BY <2>3 DEF Spawning, Abort, FirstCheck, Acquire, Installed, InstallFails, MarkExecuted
  <2> QED
    BY <2>1, <2>2, <2>3 DEF Next, Looping, Recv, DrainEnd, StopCleanup, Check, Wake, CtrlC, Over,
                            vars, runVars
<1>1. pc'[t] = "mark" /\ MustStop' => cancelled'
  <2>1. CASE pc[t] = "mark" /\ ~MustStop
    BY <2>1, <1>a, NobodyElseStops
  <2>2. CASE pc[t] = "mark" /\ MustStop
    BY <2>2, <1>a, <1>c DEF Kept
  <2>3. CASE pc[t] # "mark"
    BY <2>3, <1>a, CheckedHow
  <2> QED
    BY <2>1, <2>2, <2>3
<1>2. ASSUME t \in executed' \/ pc'[t] = "mark", ~(t \in executed \/ pc[t] = "mark")
      PROVE  ~MustStop /\ (p \in removed'[Root] => HasLeft(p)')
  <2>1. pc'[t] = "mark" /\ pc[t] # "mark"
    <3>1. ~MarkExecuted(t)
      BY <1>2 DEF MarkExecuted
    <3>2. ~InstallFails(t)
      BY <1>a DEF InstallFails, Marked
    <3>3. t \notin executed'
      <4>1. ASSUME NEW g \in Graph, Forwarding(g) PROVE UNCHANGED executed
        BY <4>1 DEF Forwarding, SubscribeAgain, Resubscribe, Forward, SyncEmpty, SyncClose,
                    ForwardNone
      <4>2. ASSUME NEW u \in Task, Running(u) PROVE executed' \subseteq executed
        BY <4>2 DEF Running, Prepare, RefuseNextEntry, Inject, InjectDone, Regain, InjectAbort,
                    CommandsEnd, RemoveSelf, JobOver, graphVars
      <4>3. ASSUME NEW u \in Task, Spawning(u) PROVE executed' = executed \/ u # t
        BY <4>3, <3>1, <3>2 DEF Spawning, Abort, FirstCheck, Acquire, Installed, graphVars
      <4>4. ASSUME NEW u \in Task, Spawning(u) PROVE executed' \subseteq executed \cup {u}
        BY <4>4 DEF Spawning, Abort, FirstCheck, Acquire, Installed, InstallFails,
                    MarkExecuted, graphVars
      <4>5. CASE Looping
        BY <1>2, <4>5 DEF Looping, Recv, DrainEnd, StopCleanup, Check, Wake, graphVars
      <4> QED
        BY <1>2, <4>1, <4>2, <4>3, <4>4, <4>5 DEF Next, CtrlC, Over, vars, graphVars
    <3> QED
      BY <1>2, <3>3
  <2>2. ~MustStop /\ ~MustStop'
    BY <2>1, <1>a, CheckedHow
  <2>3. p \in removed[Root] => HasLeft(p)
    BY <2>2, <1>a DEF IInv, TaskInv, LeftWell, Nodes
  <2>4. p \in removed'[Root] /\ p \notin removed[Root] => HasLeft(p)'
    BY <2>2, <1>a, CleanupRemovedHow
  <2> QED
    BY <2>2, <2>3, <2>4, <1>a, FinishedOnward
<1>3. ASSUME t \in executed' \/ pc'[t] = "mark", t \in executed \/ pc[t] = "mark"
      PROVE  p \notin removed'[Root] \/ HasLeft(p)' \/ (cancelled' /\ t \notin began')
  <2>1. t \in began' /\ t \notin began => ~cancelled
    <3>1. ASSUME NEW g \in Graph, Forwarding(g) PROVE UNCHANGED began
      BY <3>1 DEF Forwarding, SubscribeAgain, Forward, SyncEmpty, SyncClose, ForwardNone, runVars
    <3>2. ASSUME NEW u \in Task, Spawning(u) PROVE UNCHANGED began
      BY <3>2 DEF Spawning, Abort, FirstCheck, Acquire, Installed, InstallFails, MarkExecuted
    <3>3. ASSUME NEW u \in Task, Running(u) PROVE t \in began' /\ t \notin began => ~cancelled
      BY <3>3, <1>b DEF Running, Prepare, Abandons, EndsBeforeCommands, BeginsCommands,
            Interruptible, RefuseNextEntry, Inject, InjectDone, Regain, InjectAbort, CommandsEnd,
            RemoveSelf, JobOver
    <3> QED
      BY <3>1, <3>2, <3>3 DEF Next, Looping, Recv, DrainEnd, StopCleanup, Check, Wake, CtrlC, Over,
                              vars, runVars
  <2>2. CASE cancelled /\ t \notin began
    BY <2>1, <2>2, <1>c
  <2>3. CASE p \in removed[Root] /\ ~(cancelled /\ t \notin began)
    BY <2>3, <1>3, <1>a, FinishedOnward DEF Kept
  <2>4. CASE p \in removed'[Root] /\ p \notin removed[Root] /\ ~(cancelled /\ t \notin began)
    <3>1. HasLeft(p)' \/ (MustStop /\ ~IsRunnablePostDep(p))
      BY <2>4, CleanupRemovedHow, <1>a
    <3>2. ASSUME MustStop, ~IsRunnablePostDep(p) PROVE FALSE
      <4>1. t \notin executed
        BY <3>2 DEF IsRunnablePostDep
      <4>2. pc[t] = "mark" /\ cancelled
        BY <1>3, <4>1, <3>2, <1>a DEF Kept
      <4>3. t \notin began
        BY <4>2, <1>a DEF Marked
      <4> QED
        BY <2>4, <4>2, <4>3
    <3> QED
      BY <3>1, <3>2
  <2> QED
    BY <2>2, <2>3, <2>4
<1> QED
  BY <1>1, <1>2, <1>3 DEF Kept

(* The invariant with the cleanup tasks holds in every state.              *)
LEMMA CleanupInvariance == Spec => []CInv
<1>1. Init /\ IInv => CInv
  <2> SUFFICES ASSUME Init, IInv PROVE CInv
    OBVIOUS
  <2>1. Emptied
    BY GraphType DEF Init, Emptied
  <2>2. \A t \in Task : Marked(t)
    BY DEF Init, Marked
  <2>3. \A p, t \in Nodes(Root) : Kept(p, t)
    BY DEF Init, Kept, Nodes
  <2> QED
    BY <2>1, <2>2, <2>3 DEF CInv
<1>2. CInv /\ IInv' /\ [Next]_vars => CInv'
  <2> SUFFICES ASSUME CInv, IInv', [Next]_vars PROVE CInv'
    OBVIOUS
  <2>1. Emptied' /\ \A t \in Task : Marked(t)'
    BY EmptiedStep, MarkedStep DEF CInv
  <2>2. ASSUME Serial', NEW p \in Nodes(Root), NEW t \in Nodes(Root), <<p, t>> \in Post
        PROVE  Kept(p, t)'
    <3>1. opts' = opts
      BY StopOnward DEF CInv, IInv
    <3>2. Serial
      BY <2>2, <3>1 DEF Serial, PlainCleanup
    <3> QED
      BY <2>2, <3>2, KeptStep
  <2> QED
    BY <2>1, <2>2 DEF CInv, Nodes
<1> QED
  BY <1>1, <1>2, Invariance, PTL DEF Spec

(* When a run of one job returns, the cleanup tasks of every task of the   *)
(* main graph that began have been started, whatever failed or interrupted *)
(* the run; where tasks run scripts, those with cleanup a single one, and  *)
(* cleanup has no cleanup of its own.                                      *)
THEOREM CleanupIsStarted == Spec => [](Serial => CleanupOfBegunStarted)
<1>1. CInv => (Serial => CleanupOfBegunStarted)
  <2> SUFFICES ASSUME CInv, Serial, Returned, NEW p \in Nodes(Root), NEW t \in began,
                      <<p, t>> \in Post
               PROVE  pc[p] = "gone"
    BY DEF CleanupOfBegunStarted
  <2>1. t \in Task /\ p \in Task /\ Home[p] = Root /\ Home[t] = Root /\ t \in Nodes(Root)
    BY EdgeAssumption DEF CInv, IInv, TypeOK, Nodes, Edges
  <2>2. t \in executed
    BY <2>1 DEF CInv, Marked, Serial, PlainCleanup
  <2>3. p \in opts.tasks
    <3>1. t \in opts.tasks
      BY <2>1, GraphType DEF CInv, IInv, TaskInv, Once, Shape
    <3> QED
      BY <3>1, InvocationAssumption DEF CInv, IInv, TypeOK
  <2>4. p \in removed[Root]
    BY <2>3 DEF CInv, Emptied, Returned
  <2>5. HasLeft(p)
    BY <2>1, <2>2, <2>4 DEF CInv, Kept
  <2> QED
    BY <2>1, <2>5 DEF HasLeft, Returned, InJob
<1> QED
  BY <1>1, CleanupInvariance, PTL

=============================================================================
