----------------------------- MODULE TaskGraph -----------------------------
(***************************************************************************)
(* The dependency graphs of a task run: struct Deps of src/task/deps.rs,   *)
(* one for the tasks named on the command line (Root) and one for every    *)
(* task that starts others from a run entry. A task of this module is one  *)
(* occurrence, that is one node of one graph.                              *)
(*                                                                         *)
(* A graph streams its leaves to one receiver, the one of the last         *)
(* subscribe. Scheduler::pump_deps and inject_and_wait subscribe twice: a  *)
(* first receiver is drained with try_recv and dropped, then a spawned     *)
(* task (the forwarder) subscribes again and forwards until None.          *)
(***************************************************************************)
EXTENDS Naturals, FiniteSets

CONSTANTS
    Task,       \* the occurrences
    Root,       \* the graph of the run itself
    Home,       \* the graph of each task: Root, or the task that injects it
    Needs,      \* <<t, d>>: t waits for d (depends, and wait_for if d is there)
    Post,       \* <<p, t>>: p is in the cleanup subtree of t (post_dep_parents)
    Same        \* <<s, t>>: s, in an injected graph, has the key of t in its parent's

Graph == {Root} \cup {Home[t] : t \in Task}

Nodes(g) == {t \in Task : Home[t] = g}

Edges == Needs \cup Post

(* The tasks that no order of their own graph can complete: find_cycles    *)
(* refuses such a graph before anything runs.                              *)
Cyclic(g) ==
    \E C \in SUBSET Nodes(g) \ {{}} : \A t \in C : \E d \in C : <<t, d>> \in Edges

ASSUME TaskAssumption == IsFiniteSet(Task)
ASSUME RootAssumption == Root \notin Task
ASSUME HomeAssumption == Home \in [Task -> Task \cup {Root}]
ASSUME EdgeAssumption ==
    /\ Edges \cup Same \subseteq Task \X Task
    /\ \A e \in Edges : Home[e[1]] = Home[e[2]]
    /\ \A g \in Graph : ~Cyclic(g)

VARIABLES
    graph,      \* graph[g]: the nodes still in g
    removed,    \* removed[g]: the tasks that have left g
    sent,       \* sent[g]: the tasks sent, which are not sent again
    executed,   \* the tasks marked as having started
    ready,      \* ready[g]: the tasks in the channel of g
    fin,        \* fin[g]: whether None is in the channel, behind them
    rx          \* rx[g]: the receiver of g's channel

graphVars == <<graph, removed, sent, executed, ready, fin, rx>>

(* The life of a receiver: "none" before the graph exists, "sync" while    *)
(* the first is drained, "closing" when it was found empty, "gap" when it  *)
(* was dropped, "open" for the forwarder's, "done" when that read None.    *)
RxState == {"none", "sync", "closing", "gap", "open", "done"}

(* A send fails when the receiver was dropped.                             *)
Receiving(g) == rx[g] \in {"sync", "closing", "open"}

(* Mutant: a dependency that has started no longer holds a task back.      *)
LeavesOnceStarted(G) == {t \in G : \A d \in G \ executed : <<t, d>> \notin Edges}

Leaves(G) == {t \in G : \A d \in G : <<t, d>> \notin Edges}

(* Mutant: a leaf whose send failed still counts as sent.                  *)
EmitLeavesMarked(g, G, listening) ==
    /\ sent' = [sent EXCEPT ![g] = @ \cup Leaves(G)]
    /\ IF listening
         THEN /\ ready' = [ready EXCEPT ![g] = @ \cup (Leaves(G) \ sent[g])]
              /\ fin' = [fin EXCEPT ![g] = G = {}]
         ELSE UNCHANGED <<ready, fin>>

(* Mutant: every leaf is sent, whether it was before or not.               *)
EmitLeavesAgain(g, G, listening) ==
    IF listening
      THEN /\ sent' = [sent EXCEPT ![g] = @ \cup Leaves(G)]
           /\ ready' = [ready EXCEPT ![g] = @ \cup Leaves(G)]
           /\ fin' = [fin EXCEPT ![g] = G = {}]
      ELSE UNCHANGED <<sent, ready, fin>>

(***************************************************************************)
(* emit_leaves when the nodes G are left in g and the receiver's state is  *)
(* r: unsent leaves are sent, and None if the graph is empty. A leaf whose *)
(* send fails is taken out of sent again.                                  *)
(***************************************************************************)
EmitLeaves(g, G, listening) ==
    IF listening
      THEN /\ sent' = [sent EXCEPT ![g] = @ \cup Leaves(G)]
           /\ ready' = [ready EXCEPT ![g] = @ \cup (Leaves(G) \ sent[g])]
           /\ fin' = [fin EXCEPT ![g] = G = {}]
      ELSE UNCHANGED <<sent, ready, fin>>

(* remove: nothing happens, and nothing is emitted, for a task that is     *)
(* no longer in the graph.                                                 *)
Remove(t) ==
    IF t \in graph[Home[t]]
      THEN LET G == graph[Home[t]] \ {t}
           IN /\ graph' = [graph EXCEPT ![Home[t]] = G]
              /\ removed' = [removed EXCEPT ![Home[t]] = @ \cup {t}]
              /\ EmitLeaves(Home[t], G, Receiving(Home[t]))
      ELSE UNCHANGED <<graph, removed, sent, ready, fin>>

(* remove_batch: leaves are emitted once, when all of them are out.        *)
RemoveBatch(g, S) ==
    /\ graph' = [graph EXCEPT ![g] = @ \ S]
    /\ removed' = [removed EXCEPT ![g] = @ \cup (graph[g] \cap S)]
    /\ EmitLeaves(g, graph[g] \ S, Receiving(g))

(* remove of every task of g in index order, one after the other: a task   *)
(* that becomes a leaf before its own turn has come is emitted.            *)
RemoveOneByOne(g) ==
    /\ graph' = [graph EXCEPT ![g] = {}]
    /\ removed' = [removed EXCEPT ![g] = @ \cup graph[g]]
    /\ IF Receiving(g) /\ graph[g] # {}
         THEN \E X \in SUBSET (graph[g] \ sent[g]) :
                /\ sent' = [sent EXCEPT ![g] = @ \cup X]
                /\ ready' = [ready EXCEPT ![g] = @ \cup X]
                /\ fin' = [fin EXCEPT ![g] = TRUE]
         ELSE UNCHANGED <<sent, ready, fin>>

IsRunnablePostDep(p) == \E t \in executed : <<p, t>> \in Post

(* completion_state: the tasks that have left the graph, not the ones that *)
(* were pruned from it.                                                    *)
Completed(g) == removed[g]

(* new_pruned: the graph a task injects, without the tasks whose key is    *)
(* among the completed ones; then the first subscribe.                     *)
NewPruned(g, completed) ==
    LET G == {t \in Nodes(g) : \A c \in completed : <<t, c>> \notin Same}
    IN /\ graph' = [graph EXCEPT ![g] = G]
       /\ rx' = [rx EXCEPT ![g] = "sync"]
       /\ EmitLeaves(g, G, TRUE)
       /\ UNCHANGED removed

(* The second subscribe, by the forwarder.                                 *)
Resubscribe(g) ==
    /\ rx[g] = "gap"
    /\ rx' = [rx EXCEPT ![g] = "open"]
    /\ EmitLeaves(g, graph[g], TRUE)
    /\ UNCHANGED <<graph, removed, executed>>

GraphTypeOK ==
    /\ graph \in [Graph -> SUBSET Task]
    /\ removed \in [Graph -> SUBSET Task]
    /\ sent \in [Graph -> SUBSET Task]
    /\ executed \subseteq Task
    /\ ready \in [Graph -> SUBSET Task]
    /\ fin \in [Graph -> BOOLEAN]
    /\ rx \in [Graph -> RxState]
=============================================================================
