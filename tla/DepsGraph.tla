----------------------------- MODULE DepsGraph -----------------------------
(***************************************************************************)
(* The generic dependency scheduler of crates/mise-util/src/deps_graph.rs. *)
(* A graph of keys, with an edge from a key to every key it depends on, is *)
(* consumed from its leaves: a leaf is sent once on the subscriber's       *)
(* channel, completing a node removes it and sends the leaves this         *)
(* uncovers, a failure blocks everything that depends on the node, and a   *)
(* None closes the stream when only blocked nodes (or none) are left.      *)
(*                                                                         *)
(* The module that drives a graph extends this one and composes its        *)
(* operations with its own steps (see ToolInstall).                        *)
(***************************************************************************)
EXTENDS Naturals, Sequences, FiniteSets

CONSTANTS
    Key,    \* the keys of the graph's nodes, duplicates already merged
    None    \* the message that ends the stream

ASSUME KeyAssumption == IsFiniteSet(Key)
ASSUME NoneAssumption == None \notin Key

VARIABLES
    edges,      \* <<from, to>>: from depends on to (constant after new)
    graph,      \* the nodes still in the graph
    sent,       \* the keys that were sent
    blocked,    \* the keys blocked by a failure or by a cycle
    chan        \* the messages between tx and the subscriber's rx

depsVars == <<edges, graph, sent, blocked, chan>>

(***************************************************************************)
(* Reachability, as least sets closed under a rule: the worklist loops of  *)
(* the code compute exactly these.                                         *)
(***************************************************************************)

(* The keys of nodes that k points to and that have not left the graph.    *)
DependenciesOf(k) == {d \in graph : <<k, d>> \in edges}

(* The least set that holds the direct dependents of k and the dependents  *)
(* of its own members.                                                     *)
TransitiveDependents(k) ==
    {n \in graph :
        \A C \in SUBSET graph :
            (\A m \in graph : (\E d \in C \cup {k} : <<m, d>> \in edges) => m \in C)
                => n \in C}

(* The nodes of a graph with nodes G and edges E that can be completed one *)
(* after the other: leaves first, then nodes all of whose dependencies can.*)
Orderable(G, E) ==
    {n \in G :
        \A C \in SUBSET G :
            (\A m \in G : {d \in G : <<m, d>> \in E} \subseteq C => m \in C)
                => n \in C}

(***************************************************************************)
(* new: an edge from an unknown key is dropped, an edge to an unknown key  *)
(* is an error (the caller reports every request as failed), a self edge   *)
(* is dropped, and nodes that no order can complete are blocked at once.   *)
(***************************************************************************)
UnknownDependency(E) == \E e \in E : e[1] \in Key /\ e[2] \notin Key

UsableEdges(E) == {e \in E : e[1] \in Key /\ e[1] # e[2]}

New(E) ==
    /\ edges = UsableEdges(E)
    /\ graph = Key
    /\ sent = {}
    /\ blocked = Key \ Orderable(Key, UsableEdges(E))
    /\ chan = <<>>

(***************************************************************************)
(* emit_leaves on the graph g left by the operation, with b blocked and c  *)
(* the messages already in the channel. The order of one batch is the      *)
(* order in which the caller listed the nodes: any order.                  *)
(***************************************************************************)
Leaves(g) == {n \in g : \A d \in g : <<n, d>> \notin edges}

NewLeaves(g, b) == Leaves(g) \ (sent \cup b)

Orders(S) == {s \in [1..Cardinality(S) -> S] : \A x \in S : \E i \in DOMAIN s : s[i] = x}

(* Mutant: a node that was sent counts as done.                            *)
SentIsDone(g, b) == g \subseteq b \cup sent

IsAllDone(g, b) == g \subseteq b

EmitLeaves(g, b, c) ==
    /\ sent' = sent \cup NewLeaves(g, b)
    /\ \E batch \in Orders(NewLeaves(g, b)) :
          chan' = c \o batch \o (IF IsAllDone(g, b) THEN <<None>> ELSE <<>>)

(* subscribe replaces the channel: what the previous one held is lost.     *)
Subscribe ==
    /\ EmitLeaves(graph, blocked, <<>>)
    /\ UNCHANGED <<edges, graph, blocked>>

CompleteSuccess(k) ==
    /\ graph' = graph \ {k}
    /\ EmitLeaves(graph \ {k}, blocked, chan)
    /\ UNCHANGED <<edges, blocked>>

(* Mutant: a failure releases the dependents like a success.               *)
FailureReleases(k) == CompleteSuccess(k)

CompleteFailure(k) ==
    LET b == IF k \in graph THEN blocked \cup TransitiveDependents(k) ELSE blocked
    IN /\ graph' = graph \ {k}
       /\ blocked' = b
       /\ EmitLeaves(graph \ {k}, b, chan)
       /\ UNCHANGED edges

(* The subscriber takes the first message.                                 *)
Receive(m) ==
    /\ chan # <<>>
    /\ m = Head(chan)
    /\ chan' = Tail(chan)
    /\ UNCHANGED <<edges, graph, sent, blocked>>

BlockedNodes == graph \cap blocked

DepsTypeOK ==
    /\ edges \subseteq Key \X Key
    /\ graph \subseteq Key
    /\ sent \subseteq Key
    /\ blocked \subseteq Key
    /\ chan \in Seq(Key \cup {None})
=============================================================================
