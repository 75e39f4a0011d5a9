------------------------- MODULE ToolInstall_proof -------------------------
(***************************************************************************)
(* Proofs about ToolInstall, for every set of tools, every dependency      *)
(* relation and every number of jobs.                                      *)
(***************************************************************************)
EXTENDS ToolInstall, DepsGraph_proof

(***************************************************************************)
(* The inductive invariant. A tool that was sent had, and has, all its     *)
(* dependencies installed (SentReady); what is queued, waiting for a       *)
(* permit, running or joined was sent (OnlySentFlows); and a node that has *)
(* left the graph either was installed or has blocked its dependents       *)
(* (GoneBlocks). The stream's end is final: after a None only Nones follow *)
(* and only blocked nodes are left (EndIsFinal).                           *)
(***************************************************************************)
SentReady ==
    \A t \in sent, d \in Key : <<t, d>> \in edges => d \in installed

OnlySentFlows ==
    /\ running \cup installed \cup attempted \subseteq sent
    /\ \A e \in ended : e[1] \in sent
    /\ tr \in sent \cup {None}
    /\ pc = "permit" => tr # None
    /\ \A i \in DOMAIN chan : chan[i] \in sent \cup {None}

GoneBlocks ==
    \A d \in Key \ graph, n \in graph :
        <<n, d>> \in edges /\ n \notin blocked => d \in installed

EndIsFinal ==
    /\ \A i, j \in DOMAIN chan : i < j /\ chan[i] = None => chan[j] = None
    /\ (\E i \in DOMAIN chan : chan[i] = None) => graph \subseteq blocked
    /\ pc \in {"drain", "done"} =>
          /\ graph \subseteq blocked
          /\ \A i \in DOMAIN chan : chan[i] = None

IInv == TypeOK /\ SentReady /\ OnlySentFlows /\ GoneBlocks /\ EndIsFinal

(* Sending the leaves of the graph g, when g and the blocked nodes bl meet *)
(* GoneBlocks, keeps the graph's part of the invariant.                    *)
LEMMA EmitLeavesKeeps ==
    ASSUME IInv, NEW g \in SUBSET graph, NEW bl \in SUBSET Key, blocked \subseteq bl,
           NEW c \in Seq(Key \cup {None}), NEW inst \in SUBSET Key, installed \subseteq inst,
           c = chan \/ c = <<>>,
           \A d \in Key \ g, n \in g : <<n, d>> \in edges /\ n \notin bl => d \in inst,
           graph' = g, blocked' = bl, edges' = edges, installed' = inst,
           EmitLeaves(g, bl, c),
           pc \in {"drain", "done"} <=> pc' \in {"drain", "done"},
           pc' \in {"drain", "done"} => g \subseteq bl
    PROVE  /\ DepsTypeOK'
           /\ SentReady'
           /\ GoneBlocks'
           /\ EndIsFinal'
           /\ sent \subseteq sent'
           /\ \A i \in DOMAIN chan' : chan'[i] \in sent' \cup {None}
PROOF
<1> USE NoneAssumption
<1> DEFINE L == NewLeaves(g, bl)
<1>1. /\ chan' \in Seq(Key \cup {None})
      /\ sent' = sent \cup L
      /\ \A i \in DOMAIN chan' :
            \/ i \in DOMAIN c /\ chan'[i] = c[i]
            \/ i > Len(c) /\ chan'[i] \in L
            \/ i > Len(c) /\ i = Len(chan') /\ chan'[i] = None /\ IsAllDone(g, bl)
      /\ Len(chan') >= Len(c)
  BY EmitLeavesEffect DEF IInv, TypeOK, DepsTypeOK
<1>2. L \subseteq g /\ L \cap bl = {} /\ \A n \in L, d \in g : <<n, d>> \notin edges
  BY DEF NewLeaves, Leaves
<1> HIDE DEF L
<1>3. graph \subseteq Key
  BY DEF IInv, TypeOK, DepsTypeOK
<1>4. DepsTypeOK'
  BY <1>1, <1>2, <1>3 DEF IInv, TypeOK, DepsTypeOK
<1>5. SentReady'
  <2> SUFFICES ASSUME NEW t \in sent', NEW d \in Key, <<t, d>> \in edges PROVE d \in inst
    BY DEF SentReady
  <2>1. CASE t \in sent
    BY <2>1 DEF IInv, SentReady
  <2>2. CASE t \in L
    BY <2>2, <1>2
  <2> QED
    BY <2>1, <2>2, <1>1
<1>6. GoneBlocks'
  BY DEF GoneBlocks
<1>7. \A i \in DOMAIN c : c[i] = chan[i] /\ i \in DOMAIN chan
  OBVIOUS
<1>8. \A i \in DOMAIN chan' : chan'[i] \in sent' \cup {None}
  BY <1>1, <1>7 DEF IInv, OnlySentFlows
<1>9. ASSUME NEW i \in DOMAIN chan', chan'[i] = None PROVE g \subseteq bl
  BY <1>1, <1>2, <1>3, <1>7, <1>9 DEF IInv, EndIsFinal, IsAllDone
<1>10. g \subseteq bl => L = {}
  BY <1>2
<1>11. ASSUME NEW i \in DOMAIN chan', NEW j \in DOMAIN chan', i < j, chan'[i] = None
       PROVE  chan'[j] = None
  <2>1. L = {}
    BY <1>9, <1>10, <1>11
  <2>2. CASE j \in DOMAIN c
    <3>1. i \in DOMAIN c
      BY <2>2, <1>11, <1>1
    <3> QED
      BY <3>1, <2>2, <1>1, <1>7, <1>11, <2>1 DEF IInv, EndIsFinal
  <2>3. CASE j \notin DOMAIN c
    BY <2>3, <2>1, <1>1
  <2> QED
    BY <2>2, <2>3
<1>12. pc' \in {"drain", "done"} => \A i \in DOMAIN chan' : chan'[i] = None
  BY <1>1, <1>7, <1>10 DEF IInv, EndIsFinal
<1>13. EndIsFinal'
  BY <1>9, <1>11, <1>12 DEF EndIsFinal
<1> QED
  BY <1>1, <1>4, <1>5, <1>6, <1>8, <1>13

(* Completing a tool, with success or failure, keeps GoneBlocks.           *)
LEMMA CompletionBlocks ==
    ASSUME IInv, NEW t \in Key
    PROVE  /\ \A d \in Key \ (graph \ {t}), n \in graph \ {t} :
                 <<n, d>> \in edges /\ n \notin blocked => d \in installed \cup {t}
           /\ \A d \in Key \ (graph \ {t}), n \in graph \ {t} :
                 <<n, d>> \in edges
                   /\ n \notin (IF t \in graph THEN blocked \cup TransitiveDependents(t) ELSE blocked)
                 => d \in installed
           /\ TransitiveDependents(t) \subseteq Key
PROOF
<1>1. \A n \in graph : <<n, t>> \in edges => n \in TransitiveDependents(t)
  BY DEF TransitiveDependents
<1>2. TransitiveDependents(t) \subseteq Key
  BY DEF TransitiveDependents, IInv, TypeOK, DepsTypeOK
<1> QED
  BY <1>1, <1>2 DEF IInv, GoneBlocks

(* A new graph, before the loop subscribes, satisfies the invariant.       *)
LEMMA InitEstablishes == Init => IInv
PROOF
<1> SUFFICES ASSUME Init PROVE IInv
  OBVIOUS
<1>1. PICK E \in Graphs : New(E)
  BY DEF Init
<1>2. TypeOK
  BY <1>1, GraphsAssumption DEF Init, New, UsableEdges, Orderable, TypeOK, DepsTypeOK
<1>3. SentReady /\ OnlySentFlows /\ GoneBlocks /\ EndIsFinal
  BY <1>1 DEF Init, New, SentReady, OnlySentFlows, GoneBlocks, EndIsFinal
<1> QED
  BY <1>2, <1>3 DEF IInv

(* Every step of the loop and of its jobs preserves the invariant.         *)
LEMMA NextPreserves == IInv /\ [Next]_vars => IInv'
PROOF
<1> SUFFICES ASSUME IInv, [Next]_vars PROVE IInv'
  OBVIOUS
<1> USE NoneAssumption
<1>1. CASE Start
  <2>1. \A d \in Key \ graph, n \in graph :
           <<n, d>> \in edges /\ n \notin blocked => d \in installed
    BY DEF IInv, GoneBlocks
  <2>2. /\ graph \in SUBSET graph /\ blocked \in SUBSET Key
        /\ <<>> \in Seq(Key \cup {None}) /\ installed \in SUBSET Key
    BY DEF IInv, TypeOK, DepsTypeOK
  <2>3. /\ DepsTypeOK' /\ SentReady' /\ GoneBlocks' /\ EndIsFinal'
        /\ sent \subseteq sent'
        /\ \A i \in DOMAIN chan' : chan'[i] \in sent' \cup {None}
    BY <1>1, <2>1, <2>2, EmitLeavesKeeps DEF Start, Subscribe
  <2>4. TypeOK'
    BY <1>1, <2>3 DEF Start, IInv, TypeOK
  <2>5. OnlySentFlows'
    BY <1>1, <2>3 DEF Start, IInv, OnlySentFlows
  <2> QED
    BY <2>3, <2>4, <2>5 DEF IInv
<1>2. ASSUME NEW t \in Key, NEW o \in Outcome, JoinNext(t, o) PROVE IInv'
  <2> USE <1>2 DEF JoinNext
  <2>1. t \in sent
    BY DEF IInv, OnlySentFlows
  <2>2. graph \ {t} \in SUBSET graph /\ blocked \in SUBSET Key
        /\ chan \in Seq(Key \cup {None}) /\ installed \in SUBSET Key
        /\ installed \cup {t} \in SUBSET Key
    BY DEF IInv, TypeOK, DepsTypeOK
  <2>3. pc' \in {"drain", "done"} => graph \subseteq blocked
    BY DEF IInv, EndIsFinal
  <2>4. CASE o = "ok" /\ JoinedOk(t)
    <3>1. /\ DepsTypeOK' /\ SentReady' /\ GoneBlocks' /\ EndIsFinal'
          /\ sent \subseteq sent'
          /\ \A i \in DOMAIN chan' : chan'[i] \in sent' \cup {None}
      BY <2>2, <2>3, <2>4, CompletionBlocks, EmitLeavesKeeps DEF JoinedOk, CompleteSuccess
    <3>2. TypeOK'
      BY <2>4, <3>1 DEF JoinedOk, IInv, TypeOK
    <3>3. OnlySentFlows'
      BY <2>1, <2>4, <3>1 DEF JoinedOk, IInv, OnlySentFlows
    <3> QED
      BY <3>1, <3>2, <3>3 DEF IInv
  <2>5. ASSUME CompleteFailure(t), UNCHANGED installed
        PROVE  /\ DepsTypeOK' /\ SentReady' /\ GoneBlocks' /\ EndIsFinal'
               /\ sent \subseteq sent'
               /\ \A i \in DOMAIN chan' : chan'[i] \in sent' \cup {None}
    <3> DEFINE bl == IF t \in graph THEN blocked \cup TransitiveDependents(t) ELSE blocked
    <3>1. bl \in SUBSET Key /\ blocked \subseteq bl
      BY <2>2, CompletionBlocks
    <3>2. \A d \in Key \ (graph \ {t}), n \in graph \ {t} :
             <<n, d>> \in edges /\ n \notin bl => d \in installed
      BY CompletionBlocks
    <3>3. /\ graph' = graph \ {t} /\ blocked' = bl /\ edges' = edges
          /\ EmitLeaves(graph \ {t}, bl, chan) /\ installed' = installed
      BY <2>5 DEF CompleteFailure
    <3> HIDE DEF bl
    <3> QED
      BY <2>2, <2>3, <3>1, <3>2, <3>3, EmitLeavesKeeps
  <2>6. CASE o = "err" /\ JoinedErr(t)
    <3>1. TypeOK'
      BY <2>5, <2>6 DEF JoinedErr, IInv, TypeOK
    <3>2. OnlySentFlows'
      BY <2>1, <2>5, <2>6 DEF JoinedErr, IInv, OnlySentFlows
    <3> QED
      BY <2>5, <2>6, <3>1, <3>2 DEF JoinedErr, IInv
  <2>7. CASE o = "panic" /\ JoinedPanic(t) /\ t \in in_flight
    <3>1. TypeOK'
      BY <2>5, <2>7 DEF JoinedPanic, IInv, TypeOK
    <3>2. OnlySentFlows'
      BY <2>1, <2>5, <2>7 DEF JoinedPanic, IInv, OnlySentFlows
    <3> QED
      BY <2>5, <2>7, <3>1, <3>2 DEF JoinedPanic, IInv
  <2>8. CASE o = "panic" /\ JoinedPanic(t) /\ t \notin in_flight
    BY <2>8 DEF JoinedPanic, depsVars, IInv, TypeOK, DepsTypeOK, SentReady, OnlySentFlows,
                GoneBlocks, EndIsFinal
  <2> QED
    BY <2>4, <2>6, <2>7, <2>8
<1>3. ASSUME NEW m \in Key \cup {None}, Receive(m),
             UNCHANGED <<running, ended, in_flight, installed, failed, attempted>>,
             \/ pc' = "permit" /\ tr' = m /\ m # None
             \/ pc' = "drain" /\ tr' = tr /\ m = None,
             pc = "select"
      PROVE  IInv'
  <2>1. /\ chan' = Tail(chan) /\ m = Head(chan) /\ chan # <<>>
        /\ chan \in Seq(Key \cup {None})
    BY <1>3 DEF Receive, IInv, TypeOK, DepsTypeOK
  <2>2. /\ chan' \in Seq(Key \cup {None})
        /\ Len(chan') = Len(chan) - 1
        /\ \A i \in DOMAIN chan' : i + 1 \in DOMAIN chan /\ chan'[i] = chan[i + 1]
        /\ 1 \in DOMAIN chan /\ chan[1] = m
    BY <2>1
  <2>3. TypeOK'
    BY <1>3, <2>2 DEF Receive, IInv, TypeOK, DepsTypeOK
  <2>4. OnlySentFlows'
    BY <1>3, <2>2 DEF Receive, IInv, OnlySentFlows
  <2>5. SentReady' /\ GoneBlocks'
    BY <1>3 DEF Receive, IInv, SentReady, GoneBlocks
  <2>6. \A i \in DOMAIN chan' : i \in Nat /\ 1 < i + 1
    BY <2>2
  <2>7. m = None => \A i \in DOMAIN chan' : chan'[i] = None
    BY <2>2, <2>6 DEF IInv, EndIsFinal
  <2>8. EndIsFinal'
    <3>1. \A i, j \in DOMAIN chan' : i < j /\ chan'[i] = None => chan'[j] = None
      BY <2>2, <2>6 DEF IInv, EndIsFinal
    <3>2. (\E i \in DOMAIN chan' : chan'[i] = None) => graph' \subseteq blocked'
      BY <1>3, <2>2 DEF Receive, IInv, EndIsFinal
    <3>3. m = None => graph' \subseteq blocked'
      BY <1>3, <2>2 DEF Receive, IInv, EndIsFinal
    <3> QED
      BY <1>3, <2>7, <3>1, <3>2, <3>3 DEF EndIsFinal
  <2> QED
    BY <2>3, <2>4, <2>5, <2>8 DEF IInv
<1>4. ASSUME NEW t \in Key, RecvTool(t) PROVE IInv'
  BY <1>3, <1>4 DEF RecvTool
<1>5. CASE RecvNone
  BY <1>3, <1>5 DEF RecvNone
<1>6. CASE SpawnJob
  <2>1. tr \in Key /\ tr \in sent
    BY <1>6 DEF SpawnJob, IInv, TypeOK, OnlySentFlows
  <2> QED
    BY <1>6, <2>1 DEF SpawnJob, depsVars, IInv, TypeOK, DepsTypeOK, SentReady, OnlySentFlows,
                      GoneBlocks, EndIsFinal
<1>7. ASSUME NEW t \in Key, NEW o \in Outcome, JobEnds(t, o) PROVE IInv'
  BY <1>7 DEF JobEnds, depsVars, IInv, TypeOK, DepsTypeOK, SentReady, OnlySentFlows,
              GoneBlocks, EndIsFinal
<1>8. CASE Finish
  <2>1. failed' \subseteq Key
    BY <1>8 DEF Finish, BlockedNodes, IInv, TypeOK, DepsTypeOK
  <2> QED
    BY <1>8, <2>1 DEF Finish, depsVars, IInv, TypeOK, DepsTypeOK, SentReady, OnlySentFlows,
                      GoneBlocks, EndIsFinal
<1>9. CASE UNCHANGED vars
  BY <1>9 DEF vars, depsVars, loopVars, IInv, TypeOK, DepsTypeOK, SentReady, OnlySentFlows,
              GoneBlocks, EndIsFinal
<1> QED
  BY <1>1, <1>2, <1>4, <1>5, <1>6, <1>7, <1>8, <1>9 DEF Next, Done

(* The invariant holds in every state of an installation.                  *)
LEMMA Invariance == Spec => []IInv
PROOF
  BY InitEstablishes, NextPreserves, PTL DEF Spec

(* install_with_deps keeps every variable in its type.                     *)
THEOREM TypeCorrect == Spec => []TypeOK
PROOF
<1>1. IInv => TypeOK
  BY DEF IInv
<1> QED
  BY <1>1, Invariance, PTL

(* For every set of tools and every dependency relation, cyclic or not, no *)
(* installer starts before the tools it depends on are installed, whatever *)
(* jobs fail or panic and in whatever order the loop handles their ends.   *)
THEOREM InstallOrder == Spec => []DependenciesInstalledFirst
PROOF
<1>1. IInv => DependenciesInstalledFirst
  BY DEF IInv, OnlySentFlows, SentReady, DependenciesInstalledFirst, Started
<1> QED
  BY <1>1, Invariance, PTL

(* When the loop has received None, nothing that could still be installed  *)
(* is left in the graph or in the channel.                                 *)
THEOREM StreamEnd == Spec => []ClosedOnlyWhenExhausted
PROOF
<1>1. IInv => ClosedOnlyWhenExhausted
  BY DEF IInv, EndIsFinal, ClosedOnlyWhenExhausted, NewLeaves, Leaves
<1> QED
  BY <1>1, Invariance, PTL

-----------------------------------------------------------------------------
(***************************************************************************)
(* The second layer, about whole tools: a tool that left the graph was     *)
(* installed or failed, and a blocked one can name a dependency that is    *)
(* blocked or failed (Accounted); a tool is in the channel, waiting for a  *)
(* permit, running or ended, in one place only (OnePlace); and what was    *)
(* sent does not depend on any failure, not even on one met later          *)
(* (SentCouldRun).                                                         *)
(***************************************************************************)
EndedTools == {e[1] : e \in ended}

Accounted ==
    /\ Key \ graph = installed \cup attempted
    /\ installed \cap attempted = {}
    /\ attempted \subseteq failed
    /\ blocked \cap sent = {}
    /\ \A n \in blocked : \E d \in Key : <<n, d>> \in edges /\ d \in blocked \cup attempted
    /\ pc = "done" => BlockedNodes \subseteq failed

OneJob ==
    /\ \A e, f \in ended : e[1] = f[1] => e = f
    /\ running \cap EndedTools = {}
    /\ running \cup EndedTools \subseteq graph \cap in_flight
    /\ tr # None => tr \in graph \ (running \cup EndedTools)
    /\ pc # "permit" => tr = None

OneMessage ==
    /\ \A i, j \in DOMAIN chan : chan[i] = chan[j] /\ chan[i] # None => i = j
    /\ \A i \in DOMAIN chan :
          chan[i] # None => chan[i] \in graph \ (running \cup EndedTools \cup {tr})

OnePlace == OneJob /\ OneMessage

SentCouldRun == sent \subseteq CouldRun

IInv2 == IInv /\ Accounted /\ OnePlace /\ SentCouldRun

(* A new graph meets the second layer: what it blocks waits for a cycle.   *)
LEMMA InitEstablishes2 == Init => IInv2
PROOF
<1> SUFFICES ASSUME Init PROVE IInv2
  OBVIOUS
<1>1. PICK E \in Graphs : New(E)
  BY DEF Init
<1>2. \A n \in blocked : \E d \in Key : <<n, d>> \in edges /\ d \in blocked
  BY <1>1, UnorderableWaits DEF New
<1>3. Accounted
  BY <1>1, <1>2 DEF Init, New, Accounted
<1>4. OnePlace /\ SentCouldRun
  BY <1>1 DEF Init, New, OnePlace, OneJob, OneMessage, EndedTools, SentCouldRun
<1> QED
  BY <1>3, <1>4, InitEstablishes DEF IInv2

(* A step that sends the leaves of graph g, with the nodes bl blocked and  *)
(* the messages c before them, starts no job and ends none.                *)
Sends(g, bl, c) ==
    /\ g \in SUBSET graph /\ bl \in SUBSET Key /\ blocked \subseteq bl
    /\ c \in Seq(Key \cup {None}) /\ (c = chan \/ c = <<>>)
    /\ EmitLeaves(g, bl, c) /\ graph' = g
    /\ \A i \in DOMAIN c : c[i] # None => c[i] \in g
    /\ running' \cup EndedTools' \subseteq running \cup EndedTools
    /\ tr' = tr

(* It keeps the channel free of tools that are elsewhere.                  *)
LEMMA EmitLeavesOneMessage ==
    ASSUME IInv, OneMessage, OneJob, NEW g, NEW bl, NEW c, Sends(g, bl, c)
    PROVE  /\ OneMessage'
           /\ sent' \ sent \subseteq g \ bl
PROOF
<1> USE NoneAssumption DEF Sends
<1> DEFINE L == NewLeaves(g, bl)
<1>1. /\ chan' \in Seq(Key \cup {None})
      /\ sent' = sent \cup L
      /\ \A i \in DOMAIN chan' :
            \/ i \in DOMAIN c /\ chan'[i] = c[i]
            \/ i > Len(c) /\ chan'[i] \in L
            \/ i > Len(c) /\ i = Len(chan') /\ chan'[i] = None /\ IsAllDone(g, bl)
      /\ \A i, j \in DOMAIN chan' :
            i > Len(c) /\ j > Len(c) /\ chan'[i] = chan'[j] => i = j
  BY EmitLeavesEffect DEF IInv, TypeOK, DepsTypeOK
<1>2. L \subseteq g \ bl /\ L \cap sent = {} /\ None \notin L
  BY DEF NewLeaves, Leaves, IInv, TypeOK, DepsTypeOK
<1> HIDE DEF L
<1>3. \A i \in DOMAIN c : c[i] = chan[i] /\ i \in DOMAIN chan
  OBVIOUS
<1>4. running \cup EndedTools \cup {tr} \subseteq sent \cup {None}
  BY DEF IInv, OnlySentFlows, EndedTools
<1>5. \A i \in DOMAIN c : c[i] \in sent \cup {None}
  BY <1>3 DEF IInv, OnlySentFlows
<1>6. ASSUME NEW i \in DOMAIN chan', NEW j \in DOMAIN chan', chan'[i] = chan'[j], chan'[i] # None
      PROVE  i = j
  <2>1. CASE chan'[i] \in sent
    BY <1>1, <1>2, <1>3, <1>6, <2>1 DEF OneMessage
  <2>2. CASE chan'[i] \notin sent
    BY <1>1, <1>5, <1>6, <2>2
  <2> QED
    BY <2>1, <2>2
<1>7. ASSUME NEW i \in DOMAIN chan', chan'[i] # None
      PROVE  chan'[i] \in g \ (running' \cup EndedTools' \cup {tr'})
  <2>1. CASE i \in DOMAIN c /\ chan'[i] = c[i]
    BY <1>3, <1>7, <2>1 DEF OneMessage
  <2>2. CASE chan'[i] \in L
    BY <1>2, <1>4, <2>2, <1>7
  <2> QED
    BY <1>1, <1>7, <2>1, <2>2
<1> QED
  BY <1>1, <1>2, <1>6, <1>7 DEF OneMessage

(* What was sent stays within what could run when a failure is added: a    *)
(* set closed for the new failures, together with all that was not sent,   *)
(* is closed for the old ones.                                             *)
LEMMA SentCouldRunKept ==
    ASSUME IInv, IInv', SentCouldRun, edges' = edges,
           sent \subseteq sent', installed \subseteq installed', installed' \subseteq sent,
           installed' \cap attempted' = {}
    PROVE  SentCouldRun'
PROOF
<1> DEFINE ClosedFor(C, a) ==
              \A m \in Key : {k \in Key : <<m, k>> \in edges} \subseteq C \ a => m \in C
<1>1. \A n : n \in CouldRun <=> n \in Key /\ \A C \in SUBSET Key : ClosedFor(C, attempted) => n \in C
  BY DEF CouldRun
<1>2. \A n : n \in CouldRun' <=>
             n \in Key /\ \A C \in SUBSET Key : ClosedFor(C, attempted') => n \in C
  BY DEF CouldRun
<1>3. sent \subseteq Key /\ sent' \subseteq Key
  BY DEF IInv, TypeOK, DepsTypeOK
<1>4. \A m \in sent : {k \in Key : <<m, k>> \in edges} \subseteq installed
  BY DEF IInv, SentReady
<1>5. \A m \in sent' : {k \in Key : <<m, k>> \in edges} \subseteq installed'
  BY DEF IInv, SentReady
<1> SUFFICES ASSUME NEW n \in sent', NEW C \in SUBSET Key, ClosedFor(C, attempted')
             PROVE  n \in C
  BY <1>2, <1>3 DEF SentCouldRun
<1> DEFINE C2 == C \cup (Key \ sent)
<1>6. ClosedFor(C2, attempted)
  <2> SUFFICES ASSUME NEW m \in sent, {k \in Key : <<m, k>> \in edges} \subseteq C2 \ attempted
               PROVE  m \in C
    OBVIOUS
  <2>1. {k \in Key : <<m, k>> \in edges} \subseteq C \ attempted'
    BY <1>4
  <2> QED
    BY <2>1, <1>3
<1>7. sent \subseteq C
  <2>1. C2 \in SUBSET Key
    BY <1>3
  <2> HIDE DEF C2, ClosedFor
  <2>2. sent \subseteq C2
    BY <1>1, <1>6, <2>1 DEF SentCouldRun
  <2> QED
    BY <2>2 DEF C2
<1>8. {k \in Key : <<n, k>> \in edges} \subseteq C \ attempted'
  BY <1>5, <1>7
<1> QED
  BY <1>8, <1>3

(* Every step keeps the second layer, given the first.                     *)
LEMMA NextPreserves2 == IInv2 /\ IInv' /\ [Next]_vars => IInv2'
PROOF
<1> SUFFICES ASSUME IInv2, IInv', [Next]_vars PROVE IInv2'
  OBVIOUS
<1> USE NoneAssumption
<1>t. IInv /\ TypeOK /\ DepsTypeOK /\ Accounted /\ OnePlace /\ OneJob /\ OneMessage /\ SentCouldRun
  BY DEF IInv2, IInv, TypeOK, OnePlace
<1>1. CASE Start
  <2>1. /\ edges' = edges /\ graph' = graph /\ blocked' = blocked
        /\ EmitLeaves(graph, blocked, <<>>)
        /\ pc' = "select" /\ pc = "start"
        /\ UNCHANGED <<tr, running, ended, in_flight, installed, failed, attempted>>
    BY <1>1 DEF Start, Subscribe
  <2>2. graph \in SUBSET graph /\ blocked \in SUBSET Key /\ <<>> \in Seq(Key \cup {None})
    BY <1>t DEF DepsTypeOK
  <2>3. OneMessage' /\ sent' \ sent \subseteq graph \ blocked
    <3>1. running' \cup EndedTools' \subseteq running \cup EndedTools
      BY <2>1 DEF EndedTools
    <3>2. \A i \in DOMAIN <<>> : <<>>[i] # None => <<>>[i] \in graph
      OBVIOUS
    <3>3. Sends(graph, blocked, <<>>)
      BY <2>1, <2>2, <3>1, <3>2 DEF Sends
    <3> QED
      BY <1>t, <3>3, EmitLeavesOneMessage
  <2>4. Accounted'
    BY <1>t, <2>1, <2>3 DEF Accounted
  <2>5. OneJob'
    BY <1>t, <2>1 DEF OneJob, EndedTools
  <2>6. sent \subseteq sent'
    BY <2>1 DEF EmitLeaves
  <2>7. SentCouldRun'
    <3>1. installed' \subseteq sent /\ installed' \cap attempted' = {}
      BY <1>t, <2>1 DEF IInv, OnlySentFlows, Accounted
    <3> QED
      BY <1>t, <2>1, <2>6, <3>1, SentCouldRunKept
  <2> QED
    BY <2>3, <2>4, <2>5, <2>7 DEF IInv2, OnePlace
<1>2. ASSUME NEW t \in Key, NEW o \in Outcome, JoinNext(t, o) PROVE IInv2'
  <2>1. /\ <<t, o>> \in ended /\ ended' = ended \ {<<t, o>>} /\ pc \in {"select", "drain"}
        /\ UNCHANGED <<pc, tr, running>>
    BY <1>2 DEF JoinNext
  <2>2. t \in EndedTools /\ EndedTools' = EndedTools \ {t}
    BY <1>t, <2>1 DEF EndedTools, OneJob
  <2>3. t \in graph /\ t \in in_flight /\ t \notin running /\ t # tr /\ t \in sent
    BY <1>t, <2>1, <2>2 DEF OneJob, IInv, OnlySentFlows
  <2>4. t \notin installed \cup attempted /\ (graph \cap installed = {})
    BY <1>t, <2>3 DEF Accounted
  <2>5. \A i \in DOMAIN chan : chan[i] # None => chan[i] \in graph \ {t}
    BY <1>t, <2>2 DEF OneMessage
  <2>6. /\ graph \ {t} \in SUBSET graph /\ blocked \in SUBSET Key
        /\ chan \in Seq(Key \cup {None})
        /\ running' \cup EndedTools' \subseteq running \cup EndedTools
    BY <1>t, <2>1, <2>2 DEF DepsTypeOK
  <2>7. ASSUME in_flight' = in_flight \/ in_flight' = in_flight \ {t}, graph' = graph \ {t}
        PROVE  OneJob'
    <3>1. \A e, f \in ended' : e[1] = f[1] => e = f
      BY <1>t, <2>1 DEF OneJob
    <3>2. running' \cap EndedTools' = {}
      BY <1>t, <2>1, <2>2 DEF OneJob
    <3>3. running' \cup EndedTools' \subseteq graph' \cap in_flight'
      BY <1>t, <2>1, <2>2, <2>3, <2>7 DEF OneJob
    <3>4. tr' # None => tr' \in graph' \ (running' \cup EndedTools')
      BY <1>t, <2>1, <2>2, <2>3, <2>7 DEF OneJob
    <3>5. pc' # "permit" => tr' = None
      BY <1>t, <2>1 DEF OneJob
    <3> QED
      BY <3>1, <3>2, <3>3, <3>4, <3>5 DEF OneJob
  <2>8. CASE o = "ok" /\ JoinedOk(t)
    <3>1. /\ installed' = installed \cup {t} /\ graph' = graph \ {t}
          /\ EmitLeaves(graph \ {t}, blocked, chan)
          /\ UNCHANGED <<edges, blocked, in_flight, failed, attempted>>
      BY <2>8 DEF JoinedOk, CompleteSuccess
    <3>2. OneMessage' /\ sent' \ sent \subseteq (graph \ {t}) \ blocked
      <4>1. Sends(graph \ {t}, blocked, chan)
        BY <2>1, <2>5, <2>6, <3>1 DEF Sends
      <4> QED
        BY <1>t, <4>1, EmitLeavesOneMessage
    <3>3. Accounted'
      BY <1>t, <2>1, <2>3, <2>4, <3>1, <3>2 DEF Accounted
    <3>4. sent \subseteq sent'
      BY <3>1 DEF EmitLeaves
    <3>5. installed' \subseteq sent /\ installed' \cap attempted' = {} /\ installed \subseteq installed'
      BY <1>t, <2>3, <2>4, <3>1 DEF IInv, OnlySentFlows, Accounted
    <3>6. SentCouldRun'
      BY <1>t, <3>1, <3>4, <3>5, SentCouldRunKept
    <3> QED
      BY <2>7, <3>1, <3>2, <3>3, <3>6 DEF IInv2, OnePlace
  <2>9. ASSUME CompleteFailure(t), attempted' = attempted \cup {t}, failed' = failed \cup {t},
               installed' = installed, in_flight' = in_flight \/ in_flight' = in_flight \ {t}
        PROVE  IInv2'
    <3> DEFINE TD == TransitiveDependents(t)
               bl == blocked \cup TD
    <3>1. /\ graph' = graph \ {t} /\ blocked' = bl /\ edges' = edges
          /\ EmitLeaves(graph \ {t}, bl, chan)
      BY <2>3, <2>9 DEF CompleteFailure
    <3>2. TD \subseteq graph /\ bl \in SUBSET Key
      BY <1>t DEF TransitiveDependents, DepsTypeOK
    <3>3. \A n \in TD : \E d \in TD \cup {t} : <<n, d>> \in edges
      BY DependentsAreLinked
    <3> HIDE DEF TD
    <3>4. TD \cap sent = {}
      BY <1>t, <2>3, <2>4, <3>2, <3>3 DEF IInv, SentReady, DepsTypeOK
    <3>5. OneMessage' /\ sent' \ sent \subseteq (graph \ {t}) \ bl
      <4>1. blocked \subseteq bl
        OBVIOUS
      <4> HIDE DEF bl
      <4> QED
        <5>1. Sends(graph \ {t}, bl, chan)
          BY <2>1, <2>5, <2>6, <3>1, <3>2, <4>1 DEF Sends
        <5> QED
          BY <1>t, <5>1, EmitLeavesOneMessage
    <3>6. Accounted'
      <4>1. Key \ graph' = installed' \cup attempted' /\ installed' \cap attempted' = {}
        BY <1>t, <2>3, <2>4, <2>9, <3>1 DEF Accounted
      <4>2. attempted' \subseteq failed'
        BY <1>t, <2>9 DEF Accounted
      <4>3. blocked' \cap sent' = {}
        BY <1>t, <3>1, <3>4, <3>5 DEF Accounted
      <4>4. \A n \in blocked' : \E d \in Key : <<n, d>> \in edges' /\ d \in blocked' \cup attempted'
        BY <1>t, <2>9, <3>1, <3>2, <3>3 DEF Accounted, DepsTypeOK
      <4>5. pc' # "done"
        BY <2>1
      <4> QED
        BY <4>1, <4>2, <4>3, <4>4, <4>5 DEF Accounted
    <3>7. sent \subseteq sent'
      BY <3>1 DEF EmitLeaves
    <3>8. installed' \subseteq sent /\ installed' \cap attempted' = {}
      BY <1>t, <2>9, <3>6 DEF IInv, OnlySentFlows, Accounted
    <3>9. SentCouldRun'
      BY <1>t, <2>9, <3>1, <3>7, <3>8, SentCouldRunKept
    <3> QED
      BY <2>7, <2>9, <3>1, <3>5, <3>6, <3>9 DEF IInv2, OnePlace
  <2>10. CASE o = "err" /\ JoinedErr(t)
    BY <2>9, <2>10 DEF JoinedErr
  <2>11. CASE o = "panic" /\ JoinedPanic(t)
    BY <2>3, <2>9, <2>11 DEF JoinedPanic
  <2> QED
    BY <1>2, <2>8, <2>10, <2>11 DEF JoinNext
<1>3. ASSUME NEW m \in Key \cup {None}, Receive(m),
             UNCHANGED <<running, ended, in_flight, installed, failed, attempted>>,
             \/ pc' = "permit" /\ tr' = m /\ m # None
             \/ pc' = "drain" /\ tr' = tr /\ m = None,
             pc = "select"
      PROVE  IInv2'
  <2>1. /\ chan' = Tail(chan) /\ m = Head(chan) /\ chan # <<>>
        /\ chan \in Seq(Key \cup {None})
        /\ UNCHANGED <<edges, graph, sent, blocked>>
    BY <1>3, <1>t DEF Receive, DepsTypeOK
  <2>2. /\ chan' \in Seq(Key \cup {None})
        /\ \A i \in DOMAIN chan' : i \in Nat /\ i + 1 \in DOMAIN chan /\ chan'[i] = chan[i + 1]
        /\ 1 \in DOMAIN chan /\ chan[1] = m
    BY <2>1
  <2>3. tr = None /\ EndedTools' = EndedTools
    BY <1>3, <1>t DEF OneJob, EndedTools
  <2>4. Accounted' /\ SentCouldRun'
    BY <1>3, <1>t, <2>1 DEF Accounted, SentCouldRun, CouldRun
  <2>5. OneJob'
    BY <1>3, <1>t, <2>1, <2>2, <2>3 DEF OneJob, OneMessage
  <2>6. OneMessage'
    <3>1. \A i, j \in DOMAIN chan' : chan'[i] = chan'[j] /\ chan'[i] # None => i = j
      BY <1>t, <2>2 DEF OneMessage
    <3>2. ASSUME NEW i \in DOMAIN chan', chan'[i] # None
          PROVE  chan'[i] # m
      <4>1. i \in Nat /\ i + 1 \in DOMAIN chan /\ chan'[i] = chan[i + 1] /\ chan[1] = m /\ 1 \in DOMAIN chan
        BY <2>2
      <4>2. i + 1 # 1
        BY <2>2, <4>1
      <4> QED
        BY <1>t, <3>2, <4>1, <4>2 DEF OneMessage
    <3> QED
      BY <1>3, <1>t, <2>1, <2>2, <2>3, <3>1, <3>2 DEF OneMessage
  <2> QED
    BY <2>4, <2>5, <2>6 DEF IInv2, OnePlace
<1>4. ASSUME NEW t \in Key, RecvTool(t) PROVE IInv2'
  BY <1>3, <1>4 DEF RecvTool
<1>5. CASE RecvNone
  BY <1>3, <1>5 DEF RecvNone
<1>6. CASE SpawnJob
  <2>1. tr # None /\ EndedTools' = EndedTools
    BY <1>6, <1>t DEF SpawnJob, IInv, OnlySentFlows, EndedTools
  <2>2. Accounted' /\ SentCouldRun'
    BY <1>6, <1>t DEF SpawnJob, depsVars, Accounted, SentCouldRun, CouldRun
  <2>3. OneJob'
    BY <1>6, <1>t, <2>1 DEF SpawnJob, depsVars, OneJob
  <2>4. OneMessage'
    BY <1>6, <1>t, <2>1 DEF SpawnJob, depsVars, OneMessage
  <2> QED
    BY <2>2, <2>3, <2>4 DEF IInv2, OnePlace
<1>7. ASSUME NEW t \in Key, NEW o \in Outcome, JobEnds(t, o) PROVE IInv2'
  <2>1. /\ t \in running /\ running' = running \ {t} /\ ended' = ended \cup {<<t, o>>}
        /\ UNCHANGED <<edges, graph, sent, blocked, chan, pc, tr, in_flight, installed, failed,
                       attempted>>
    BY <1>7 DEF JobEnds, depsVars
  <2>2. EndedTools' = EndedTools \cup {t} /\ t \notin EndedTools
    <3>1. t \notin EndedTools
      BY <1>t, <2>1 DEF OneJob
    <3>2. \A x : x \in EndedTools' <=> \E e \in ended \cup {<<t, o>>} : x = e[1]
      BY <2>1 DEF EndedTools
    <3>3. \A x : x \in EndedTools <=> \E e \in ended : x = e[1]
      BY DEF EndedTools
    <3>4. <<t, o>>[1] = t
      OBVIOUS
    <3>5. \A x : x \in EndedTools' <=> x \in EndedTools \/ x = t
      BY <3>2, <3>3, <3>4
    <3> QED
      BY <3>1, <3>5
  <2>3. \A e, f \in ended' : e[1] = f[1] => e = f
    <3>1. \A e \in ended : e[1] # t
      BY <2>2 DEF EndedTools
    <3> QED
      BY <1>t, <2>1, <3>1 DEF OneJob
  <2>4. Accounted' /\ SentCouldRun'
    BY <1>t, <2>1 DEF Accounted, BlockedNodes, SentCouldRun, CouldRun
  <2>5. OneJob'
    BY <1>t, <2>1, <2>2, <2>3 DEF OneJob
  <2>6. OneMessage'
    BY <1>t, <2>1, <2>2 DEF OneMessage
  <2> QED
    BY <2>4, <2>5, <2>6 DEF IInv2, OnePlace
<1>8. CASE Finish
  <2>1. /\ UNCHANGED <<edges, graph, sent, blocked, chan, tr, running, ended, in_flight,
                       installed, attempted>>
        /\ failed \cup BlockedNodes \subseteq failed'
        /\ pc = "drain" /\ pc' = "done"
    BY <1>8 DEF Finish, depsVars
  <2>2. Accounted' /\ SentCouldRun'
    BY <1>t, <2>1 DEF Accounted, BlockedNodes, SentCouldRun, CouldRun
  <2>3. OnePlace'
    BY <1>t, <2>1 DEF OnePlace, OneJob, OneMessage, EndedTools
  <2> QED
    BY <2>2, <2>3 DEF IInv2
<1>9. CASE UNCHANGED vars
  BY <1>9, <1>t DEF vars, depsVars, loopVars, IInv2, OnePlace, OneJob, OneMessage, EndedTools,
                    Accounted, BlockedNodes, SentCouldRun, CouldRun
<1> QED
  BY <1>1, <1>2, <1>4, <1>5, <1>6, <1>7, <1>8, <1>9 DEF Next, Done

(* Both layers hold in every state of an installation.                     *)
LEMMA Invariance2 == Spec => []IInv2
PROOF
<1>1. IInv2 /\ [Next]_vars => IInv2'
  BY NextPreserves, NextPreserves2 DEF IInv2
<1> QED
  BY <1>1, InitEstablishes2, PTL DEF Spec

(* When install_with_deps returns, the tools it started are exactly those  *)
(* that no chain of dependencies ties to a failed tool or to a cycle, each *)
(* was installed or failed, never both, and all others are reported.       *)
THEOREM Accounting == Spec => []EveryToolAccountedFor
PROOF
<1>1. IInv2 => EveryToolAccountedFor
  <2> SUFFICES ASSUME IInv2, pc = "done"
               PROVE  /\ installed \cup attempted = CouldRun
                      /\ installed \cap attempted = {}
                      /\ Key \ installed \subseteq failed
    BY DEF EveryToolAccountedFor
  <2> DEFINE C == installed \cup attempted
  <2>1. graph \subseteq blocked /\ C \subseteq sent /\ C \subseteq Key
    BY DEF IInv2, IInv, EndIsFinal, OnlySentFlows, TypeOK
  <2>2. C \subseteq CouldRun
    BY <2>1 DEF IInv2, SentCouldRun
  <2>3. ASSUME NEW m \in Key, {k \in Key : <<m, k>> \in edges} \subseteq C \ attempted
        PROVE  m \in C
    <3> SUFFICES ASSUME m \in blocked PROVE FALSE
      BY <2>1 DEF IInv2, Accounted
    <3>1. PICK d \in Key : <<m, d>> \in edges /\ d \in blocked \cup attempted
      BY DEF IInv2, Accounted
    <3>2. d \in installed
      BY <2>3, <3>1
    <3> QED
      BY <2>1, <3>1, <3>2 DEF IInv2, Accounted
  <2>4. CouldRun \subseteq C
    BY <2>1, <2>3 DEF CouldRun
  <2> QED
    BY <2>1, <2>2, <2>4 DEF IInv2, Accounted, BlockedNodes
<1> QED
  BY <1>1, Invariance2, PTL

-----------------------------------------------------------------------------
(***************************************************************************)
(* The refinement. The plan's status of a tool is read off the sets the    *)
(* loop keeps; OnePlace and Accounted make the reading unambiguous, so     *)
(* that a step of the loop moves one tool from one status to the next.     *)
(***************************************************************************)
StatusOf == [t \in Key |-> ToolStatus(t)]

(* The status a tool has, by the set that holds it.                        *)
LEMMA StatusReading ==
    ASSUME IInv2, NEW t \in Key
    PROVE  /\ StatusOf[t] = ToolStatus(t)
           /\ t \in installed => ToolStatus(t) = "installed"
           /\ t \in attempted => ToolStatus(t) = "failed"
           /\ t \in running \cup EndedTools => ToolStatus(t) = "installing"
           /\ t \in graph \ (running \cup EndedTools) =>
                 ToolStatus(t) = IF pc = "done" THEN "skipped" ELSE "waiting"
PROOF
<1>1. StatusOf[t] = ToolStatus(t)
  BY DEF StatusOf
<1>2. Key \ graph = installed \cup attempted /\ installed \cap attempted = {}
      /\ running \cup EndedTools \subseteq graph
  BY DEF IInv2, Accounted, OnePlace, OneJob
<1>3. ToolStatus(t) =
         IF t \in installed THEN "installed"
         ELSE IF t \in attempted THEN "failed"
         ELSE IF t \in running \/ t \in EndedTools THEN "installing"
         ELSE IF pc = "done" THEN "skipped" ELSE "waiting"
  <2>1. CASE t \in installed
    BY <1>2, <2>1 DEF ToolStatus, EndedTools
  <2>2. CASE t \in attempted
    BY <1>2, <2>2 DEF ToolStatus, EndedTools
  <2>3. CASE t \in running \cup EndedTools
    BY <1>2, <2>3 DEF ToolStatus, EndedTools
  <2>4. CASE t \notin installed \cup attempted \cup running \cup EndedTools
    BY <2>4 DEF ToolStatus, EndedTools
  <2> QED
    BY <2>1, <2>2, <2>3, <2>4
<1> QED
  BY <1>1, <1>2, <1>3

(* The status is unchanged when the sets it is read from are.              *)
LEMMA StatusKept ==
    ASSUME UNCHANGED <<edges, running, ended, installed, attempted>>,
           (pc = "done") <=> (pc' = "done")
    PROVE  edges' = edges /\ StatusOf' = StatusOf
PROOF
  BY DEF StatusOf, ToolStatus

(* A fresh installation is a fresh plan.                                   *)
LEMMA PlanInit == Init => Plan!Init
PROOF
<1> SUFFICES ASSUME Init PROVE Plan!Init
  OBVIOUS
<1>1. edges \subseteq Key \X Key
  BY InitEstablishes DEF IInv, TypeOK, DepsTypeOK
<1>2. \A t \in Key : ToolStatus(t) = "waiting"
  BY DEF Init, ToolStatus
<1> QED
  BY <1>1, <1>2 DEF Plan!Init

(* Every step of the loop or of a job is a step of the plan or none.       *)
LEMMA PlanStep ==
    ASSUME IInv2, IInv2', [Next]_vars
    PROVE  [Plan!Next]_<<edges, StatusOf>>
PROOF
<1> USE NoneAssumption
<1>n. Plan!Next <=> (\E t \in Key : Plan!Begin(t) \/ Plan!End(t)) \/ Plan!GiveUp
  BY DEF Plan!Next
<1>s. StatusOf = [t \in Key |-> ToolStatus(t)]
  BY DEF StatusOf
<1>1. CASE Start
  BY <1>1, StatusKept DEF Start, Subscribe
<1>2. ASSUME NEW t \in Key, NEW o \in Outcome, JoinNext(t, o) PROVE Plan!End(t)
  <2>1. /\ <<t, o>> \in ended /\ ended' = ended \ {<<t, o>>}
        /\ pc' = pc /\ pc # "done" /\ UNCHANGED <<running>>
    BY <1>2 DEF JoinNext
  <2>2. t \in EndedTools /\ EndedTools' = EndedTools \ {t} /\ t \in in_flight
    BY <2>1 DEF EndedTools, IInv2, OnePlace, OneJob
  <2>3. /\ edges' = edges
        /\ \/ installed' = installed \cup {t} /\ attempted' = attempted
           \/ installed' = installed /\ attempted' = attempted \cup {t}
    BY <1>2, <2>2 DEF JoinNext, JoinedOk, JoinedErr, JoinedPanic, CompleteSuccess, CompleteFailure
  <2>4. t \notin installed \cup attempted
    BY <2>2 DEF IInv2, OnePlace, OneJob, Accounted
  <2>5. StatusOf[t] = "installing"
    BY <2>2, StatusReading
  <2>6. PICK s \in {"installed", "failed"} : ToolStatus(t)' = s
    <3>1. t \notin running' \cup EndedTools'
      BY <2>1, <2>2 DEF IInv2, OnePlace, OneJob
    <3> QED
      BY <2>3, <2>4, <3>1 DEF ToolStatus, EndedTools
  <2>7. ASSUME NEW u \in Key, u # t PROVE ToolStatus(u)' = ToolStatus(u)
    <3>1. u \in EndedTools' <=> u \in EndedTools
      BY <2>2, <2>7
    <3>2. (u \in installed' <=> u \in installed) /\ (u \in attempted' <=> u \in attempted)
      BY <2>3, <2>7
    <3> QED
      BY <2>1, <3>1, <3>2 DEF ToolStatus, EndedTools
  <2>8. StatusOf' = [StatusOf EXCEPT ![t] = s]
    BY <2>6, <2>7 DEF StatusOf
  <2> QED
    BY <2>3, <2>5, <2>8 DEF Plan!End, StatusOf
<1>3. ASSUME NEW t \in Key, RecvTool(t) PROVE UNCHANGED <<edges, StatusOf>>
  BY <1>3, StatusKept DEF RecvTool, Receive
<1>4. CASE RecvNone
  BY <1>4, StatusKept DEF RecvNone, Receive
<1>5. CASE SpawnJob
  <2>1. PICK t \in Key :
           /\ t = tr /\ t \in sent /\ t \in graph \ (running \cup EndedTools)
           /\ running' = running \cup {t} /\ pc = "permit" /\ pc' = "select"
           /\ UNCHANGED <<edges, ended, installed, attempted>>
    BY <1>5 DEF SpawnJob, depsVars, IInv2, IInv, OnlySentFlows, TypeOK, OnePlace, OneJob
  <2>2. StatusOf[t] = "waiting"
    BY <2>1, StatusReading
  <2>3. \A d \in Key : <<t, d>> \in edges => StatusOf[d] = "installed"
    BY <2>1, StatusReading DEF IInv2, IInv, SentReady
  <2>4. ToolStatus(t)' = "installing"
    <3>1. t \notin installed \cup attempted
      BY <2>1 DEF IInv2, Accounted
    <3> QED
      BY <2>1, <3>1 DEF ToolStatus
  <2>5. ASSUME NEW u \in Key, u # t PROVE ToolStatus(u)' = ToolStatus(u)
    BY <2>1, <2>5 DEF ToolStatus
  <2>6. StatusOf' = [StatusOf EXCEPT ![t] = "installing"]
    BY <2>4, <2>5 DEF StatusOf
  <2>7. Plan!Begin(t)
    BY <2>1, <2>2, <2>3, <2>6 DEF Plan!Begin, Plan!Ready, StatusOf
  <2> QED
    BY <2>7, <1>n
<1>6. ASSUME NEW t \in Key, NEW o \in Outcome, JobEnds(t, o) PROVE UNCHANGED <<edges, StatusOf>>
  <2>1. /\ t \in running /\ running' = running \ {t} /\ ended' = ended \cup {<<t, o>>}
        /\ UNCHANGED <<edges, pc, installed, attempted>>
    BY <1>6 DEF JobEnds, depsVars
  <2>2. \A u : u \in EndedTools' <=> u \in EndedTools \/ u = t
    <3>1. \A u : u \in EndedTools' <=> \E e \in ended \cup {<<t, o>>} : u = e[1]
      BY <2>1 DEF EndedTools
    <3>2. \A u : u \in EndedTools <=> \E e \in ended : u = e[1]
      BY DEF EndedTools
    <3>3. <<t, o>>[1] = t
      OBVIOUS
    <3> QED
      BY <3>1, <3>2, <3>3
  <2>3. ASSUME NEW u \in Key PROVE ToolStatus(u)' = ToolStatus(u)
    <3>1. (u \in running' \/ u \in EndedTools') <=> (u \in running \/ u \in EndedTools)
      BY <2>1, <2>2
    <3> QED
      BY <2>1, <3>1 DEF ToolStatus, EndedTools
  <2> QED
    BY <2>1, <2>3 DEF StatusOf
<1>7. CASE Finish
  <2>1. /\ running = {} /\ ended = {} /\ pc = "drain" /\ pc' = "done"
        /\ UNCHANGED <<edges, running, ended, installed, attempted>>
    BY <1>7 DEF Finish, depsVars
  <2>2. EndedTools = {} /\ graph \subseteq blocked
    BY <2>1 DEF EndedTools, IInv2, IInv, EndIsFinal
  <2>3. ASSUME NEW t \in Key
        PROVE  /\ StatusOf[t] # "installing"
               /\ ~Plan!Ready(t)
               /\ ToolStatus(t)' = IF StatusOf[t] = "waiting" THEN "skipped" ELSE StatusOf[t]
    <3>1. CASE t \in graph
      <4>1. StatusOf[t] = "waiting"
        BY <2>1, <2>2, <3>1, StatusReading
      <4>2. PICK d \in Key : <<t, d>> \in edges /\ d \in blocked \cup attempted
        BY <2>2, <3>1 DEF IInv2, Accounted
      <4>3. d \notin installed
        BY <4>2 DEF IInv2, IInv, Accounted, OnlySentFlows
      <4>4. StatusOf[d] # "installed"
        BY <4>3, <1>s DEF ToolStatus
      <4>5. ToolStatus(t)' = "skipped"
        <5>1. t \notin installed \cup attempted
          BY <3>1 DEF IInv2, Accounted
        <5> QED
          BY <2>1, <2>2, <5>1 DEF ToolStatus
      <4> QED
        BY <4>1, <4>2, <4>4, <4>5 DEF Plan!Ready, StatusOf
    <3>2. CASE t \notin graph
      <4>1. t \in installed \cup attempted
        BY <3>2 DEF IInv2, Accounted
      <4>2. StatusOf[t] \in {"installed", "failed"}
        BY <4>1, StatusReading
      <4>3. ToolStatus(t)' = StatusOf[t]
        BY <2>1, <4>1, <1>s DEF ToolStatus
      <4> QED
        BY <4>2, <4>3 DEF Plan!Ready, StatusOf
    <3> QED
      BY <3>1, <3>2
  <2>4. StatusOf' = [t \in Key |-> IF StatusOf[t] = "waiting" THEN "skipped" ELSE StatusOf[t]]
    BY <2>3 DEF StatusOf
  <2>5. Plan!GiveUp
    BY <2>1, <2>3, <2>4 DEF Plan!GiveUp, StatusOf
  <2> QED
    BY <2>5, <1>n
<1>8. CASE UNCHANGED vars
  BY <1>8, StatusKept DEF vars, depsVars, loopVars
<1> QED
  BY <1>1, <1>2, <1>3, <1>4, <1>5, <1>6, <1>7, <1>8, <1>n DEF Next, Done

(* install_with_deps implements InstallPlan, for every set of tools, every *)
(* dependency relation, any number of jobs and whatever fails: each tool   *)
(* is begun at most once and only when all it needs is installed, and the  *)
(* rest is given up only when nothing is under way and nothing can begin.  *)
THEOREM Refinement == Spec => ImplementsPlan
PROOF
<1>1. IInv2 /\ IInv2' /\ [Next]_vars => [Plan!Next]_<<edges, StatusOf>>
  BY PlanStep
<1>2. Spec => Plan!Init /\ [][Plan!Next]_<<edges, StatusOf>>
  BY <1>1, PlanInit, Invariance2, PTL DEF Spec
<1> QED
  BY <1>2, PTL DEF ImplementsPlan, Plan!Spec, StatusOf

=============================================================================
