-------------------------- MODULE DepsEngine_proof --------------------------
(***************************************************************************)
(* Proofs about DepsEngine, for every set of providers and configurations, *)
(* every number of jobs, and any number of edits, invocations and crashes. *)
(***************************************************************************)
EXTENDS DepsEngine, DepsGraph_proof

(***************************************************************************)
(* The inductive invariant. While run_with_deps is at work it is that of   *)
(* the graph (Scheduled): what was sent has its dependencies behind it.    *)
(* Every stale provider is in exactly one place (Apart, Accounted). And    *)
(* what the outputs were made from is told by what was saved or, of a      *)
(* provider that ran and is not saved yet, by the sources it has, unless   *)
(* these were edited since (Sources).                                      *)
(***************************************************************************)
Ordered == {"subscribe", "select", "permit", "drain"}

EndedJobs == {e[1] : e \in ended}
Waiting == {tr} \ {None}
AtWork == Waiting \cup running \cup EndedJobs

WorldTypes ==
    /\ config \in Configs
    /\ src \in [Key -> Version] /\ cmd \in [Key -> Version]
    /\ command \in [Key -> Version] /\ saw \in [Key -> Version]
    /\ built \in [Key -> (Version \X Version) \cup {Never, <<Never>>}]
    /\ saved \in [Key -> (Version \X Version) \cup {Never}]
    /\ done \in [Key -> (Version \X Version) \cup {Never}]
    /\ unsaved \subseteq Key /\ raced \subseteq Key /\ edited \subseteq Key
    /\ edits \in Nat /\ runs \in Nat /\ faults \in Nat
    /\ edits <= MaxEdits /\ runs <= MaxRuns /\ faults <= MaxFaults

Pcs == {"idle", "subscribe", "select", "permit", "drain", "spawn", "join", "abort", "save"}

LoopTypes ==
    /\ DepsTypeOK
    /\ pc \in Pcs
    /\ (pc = "permit") = (tr # None)
    /\ begun \subseteq running /\ Cardinality(running) <= Jobs
    /\ jobs \subseteq requested /\ running \subseteq requested /\ ran \subseteq requested
    /\ failed \subseteq requested /\ EndedJobs \subseteq requested
    /\ skipped \subseteq Key /\ requested \subseteq Key /\ absent \subseteq Key
    /\ toSave \subseteq ran

(* What is empty at which point of the loop.                               *)
Stage ==
    /\ pc # "save" => toSave = {}
    /\ pc \in {"idle", "save"} => running = {} /\ ended = {}
    /\ pc \in {"idle", "join", "abort", "drain", "save"} => jobs = {}
    /\ pc \in {"spawn", "join", "save"} => failed = {}

(* A provider is in one place, and a job ends once.                        *)
Apart ==
    /\ \A p \in jobs : p \notin AtWork \cup ran \cup failed \cup skipped
    /\ \A p \in AtWork : p \notin ran \cup failed \cup skipped
    /\ tr \notin running \cup EndedJobs
    /\ \A p \in running : p \notin EndedJobs
    /\ ran \cap skipped = {} /\ ran \cap failed = {} /\ skipped \cap failed = {}
    /\ \A e, f \in ended : e[1] = f[1] => e = f
    /\ ended \subseteq Key \X BOOLEAN

(* And no stale provider is in none.                                       *)
Accounted ==
    pc \notin {"idle", "abort"} => requested = jobs \cup AtWork \cup ran \cup failed \cup skipped

(* What run_with_deps knows of its graph.                                  *)
SentReady == \A p \in sent, d \in Key : <<p, d>> \in edges => d \in ran
OnlySentFlows ==
    /\ AtWork \cup ran \subseteq sent
    /\ AtWork \subseteq graph
    /\ \A i \in DOMAIN chan : chan[i] \in sent \cup {None}
GoneBlocks ==
    \A d \in Key \ graph, n \in graph : <<n, d>> \in edges /\ n \notin blocked => d \in ran
JobsWait == jobs \subseteq graph \ blocked
EdgesKnown ==
    \A p \in graph \cup sent : \A d \in Depends(p) \ {p} :
        d \in requested \cup absent => d \in Key /\ <<p, d>> \in edges
EndIsFinal == (\E i \in DOMAIN chan : chan[i] = None) => graph \subseteq blocked

Scheduled ==
    pc \in Ordered =>
        SentReady /\ OnlySentFlows /\ GoneBlocks /\ JobsWait /\ EdgesKnown /\ EndIsFinal

(* run_parallel is taken when no stale provider depends on anything.       *)
Independent == pc = "spawn" => \A p \in jobs : Depends(p) = {}

(* What the outputs were made from.                                        *)
Sources(p) ==
    /\ p \in begun => p \in unsaved
    /\ p \in begun /\ p \notin edited => saw[p] = src[p]
    /\ (<<p, TRUE>> \in ended \/ p \in ran) /\ p \notin edited =>
          built[p] = Never \/ built[p] = <<src[p], command[p]>>
    /\ p \notin unsaved \cup raced => built[p] = Never \/ saved[p] = Never \/ built[p] = saved[p]

Reported == Apart /\ Accounted
Waits == Scheduled /\ Independent /\ DependenciesFirst

IInv ==
    /\ WorldTypes /\ LoopTypes /\ Stage /\ Reported /\ Waits
    /\ \A p \in Key : Sources(p)

-----------------------------------------------------------------------------
(* The facts about numbers and constants.                                  *)
LEMMA Basics ==
    /\ MaxEdits \in Nat /\ MaxRuns \in Nat /\ MaxFaults \in Nat /\ Jobs \in Nat
    /\ None \notin Key
PROOF
  BY BoundAssumption, JobsAssumption, NoneAssumption

(* Each ended job is a provider with its outcome.                          *)
LEMMA EndedJobsAre ==
    ASSUME Apart
    PROVE  /\ \A p : p \in EndedJobs <=> <<p, TRUE>> \in ended \/ <<p, FALSE>> \in ended
           /\ EndedJobs \subseteq Key
PROOF
<1>1. \A e \in ended : e[1] \in Key /\ e[2] \in BOOLEAN /\ e = <<e[1], e[2]>>
  BY DEF Apart
<1>2. ASSUME NEW p, NEW ok, <<p, ok>> \in ended PROVE p \in EndedJobs
  <2>1. <<p, ok>>[1] = p
    OBVIOUS
  <2> QED
    BY <1>2, <2>1 DEF EndedJobs
<1> QED
  BY <1>1, <1>2 DEF EndedJobs

(* A joined result is gone, and it was the only one of its job.            *)
LEMMA EndRemoved ==
    ASSUME Apart, NEW p \in Key, NEW ok \in BOOLEAN, <<p, ok>> \in ended,
           ended' = ended \ {<<p, ok>>}
    PROVE  /\ EndedJobs' = EndedJobs \ {p} /\ p \in EndedJobs
           /\ ended' \subseteq Key \X BOOLEAN
           /\ \A e, f \in ended' : e[1] = f[1] => e = f
           /\ \A x \in Key : <<x, TRUE>> \in ended' => <<x, TRUE>> \in ended /\ x # p
PROOF
<1>1. \A e \in ended : e[1] \in Key /\ e[2] \in BOOLEAN /\ e = <<e[1], e[2]>>
  BY DEF Apart
<1>2. <<p, ok>>[1] = p
  OBVIOUS
<1>3. \A e, f \in ended : e[1] = f[1] => e = f
  BY DEF Apart
<1>4. \A e \in ended : e[1] = p => e = <<p, ok>>
  BY <1>2, <1>3
<1>5. EndedJobs' = EndedJobs \ {p} /\ p \in EndedJobs
  BY <1>2, <1>4 DEF EndedJobs
<1>6. \A x \in Key : <<x, TRUE>> \in ended' => <<x, TRUE>> \in ended /\ x # p
  <2> SUFFICES ASSUME NEW x \in Key, <<x, TRUE>> \in ended' PROVE x # p
    OBVIOUS
  <2>1. <<x, TRUE>>[1] = x /\ <<x, TRUE>> # <<p, ok>> /\ <<x, TRUE>> \in ended
    OBVIOUS
  <2> QED
    BY <1>4, <2>1
<1> QED
  BY <1>3, <1>5, <1>6 DEF Apart

(* A job that ends is added with its outcome, once.                        *)
LEMMA EndAdded ==
    ASSUME Apart, NEW p \in Key, NEW ok \in BOOLEAN, p \notin EndedJobs,
           ended' = ended \cup {<<p, ok>>}
    PROVE  /\ EndedJobs' = EndedJobs \cup {p}
           /\ ended' \subseteq Key \X BOOLEAN
           /\ \A e, f \in ended' : e[1] = f[1] => e = f
           /\ \A x \in Key : <<x, TRUE>> \in ended' => <<x, TRUE>> \in ended \/ (x = p /\ ok)
PROOF
<1>1. \A e \in ended : e[1] \in EndedJobs
  BY DEF EndedJobs
<1>2. <<p, ok>>[1] = p
  OBVIOUS
<1>3. EndedJobs' = EndedJobs \cup {p}
  BY <1>2 DEF EndedJobs
<1>4. \A e, f \in ended' : e[1] = f[1] => e = f
  BY <1>1, <1>2 DEF Apart
<1>5. ASSUME NEW x \in Key, <<x, TRUE>> \in ended', <<x, TRUE>> \notin ended PROVE x = p /\ ok
  BY <1>5
<1>6. ended' \subseteq Key \X BOOLEAN
  BY DEF Apart
<1> QED
  BY <1>3, <1>4, <1>5, <1>6

-----------------------------------------------------------------------------
(* The places are kept by a step that moves no provider, the order by one  *)
(* that sends none and starts none.                                        *)
loopPlaces == <<depsVars, config, pc, jobs, tr, running, ended, ran, failed, skipped, requested,
                absent>>

(* Such a step keeps the accounts and the order.                           *)
LEMMA PlacesUntouched ==
    ASSUME IInv, UNCHANGED loopPlaces
    PROVE  Reported' /\ Waits'
PROOF
<1> USE DEF loopPlaces, depsVars
<1>1. EndedJobs' = EndedJobs /\ AtWork' = AtWork /\ \A p : Depends(p)' = Depends(p)
  BY DEF EndedJobs, AtWork, Waiting, Depends
<1>2. Apart' /\ Accounted'
  BY <1>1 DEF IInv, Reported, Apart, Accounted
<1>3. Scheduled' /\ Independent'
  BY <1>1 DEF IInv, Waits, Scheduled, Independent, SentReady, OnlySentFlows, GoneBlocks, JobsWait,
     EdgesKnown, EndIsFinal
<1>4. DependenciesFirst'
  BY <1>1 DEF IInv, Waits, DependenciesFirst, EndedJobs
<1> QED
  BY <1>2, <1>3, <1>4 DEF Reported, Waits

(* A step of the loop leaves the world alone.                              *)
LEMMA WorldUntouched ==
    ASSUME IInv, UNCHANGED <<command, notLoop>>, begun' \subseteq begun,
           \A p \in Key : <<p, TRUE>> \in ended' \/ p \in ran' => <<p, TRUE>> \in ended \/ p \in ran
    PROVE  WorldTypes' /\ (\A p \in Key : Sources(p)')
           /\ UNCHANGED <<config, requested, absent>>
PROOF
<1> USE DEF notLoop, worldVars, runVars
<1>1. WorldTypes'
  BY DEF IInv, WorldTypes
<1>2. ASSUME NEW p \in Key PROVE Sources(p)'
  BY DEF IInv, Sources
<1> QED
  BY <1>1, <1>2

(* The user's edits.                                                       *)
LEMMA UserSteps ==
    ASSUME IInv, UserStep
    PROVE  IInv'
PROOF
<1>1. /\ UNCHANGED <<depsVars, pc, command, jobs, tr, running, begun, ended, ran, failed, skipped,
                     toSave, config, done, saved, saw, unsaved, raced, runs, faults, requested, absent>>
      /\ edits < MaxEdits /\ edits' = edits + 1
  BY DEF UserStep, Edit, EditCommand, DeleteOutputs, userVars, loopVars, runVars
<1>2. Reported' /\ Waits'
  BY <1>1, PlacesUntouched DEF loopPlaces
<1>3. LoopTypes' /\ Stage'
  BY <1>1 DEF IInv, LoopTypes, Stage, EndedJobs, DepsTypeOK, depsVars
<1>4. edits' \in Nat /\ edits' <= MaxEdits
  BY <1>1, Basics DEF IInv, WorldTypes
<1>5. PICK p \in Key : DeleteOutputs(p) \/ \E v \in Version : Edit(p, v) \/ EditCommand(p, v)
  BY DEF UserStep
<1>6. CASE DeleteOutputs(p)
  <2>1. built' = [built EXCEPT ![p] = Never] /\ UNCHANGED <<src, cmd, edited>>
    BY <1>6 DEF DeleteOutputs
  <2>2. WorldTypes'
    BY <1>1, <1>4, <2>1 DEF IInv, WorldTypes
  <2>3. ASSUME NEW q \in Key PROVE Sources(q)'
    BY <1>1, <2>1 DEF IInv, Sources, WorldTypes
  <2> QED
    BY <1>2, <1>3, <2>2, <2>3 DEF IInv
<1>7. ASSUME NEW v \in Version, Edit(p, v) PROVE IInv'
  <2>1. src' = [src EXCEPT ![p] = v] /\ edited' = edited \cup {p} /\ UNCHANGED <<cmd, built>>
    BY <1>7 DEF Edit
  <2>2. WorldTypes'
    BY <1>1, <1>4, <2>1 DEF IInv, WorldTypes
  <2>3. ASSUME NEW q \in Key PROVE Sources(q)'
    BY <1>1, <2>1 DEF IInv, Sources, WorldTypes
  <2> QED
    BY <1>2, <1>3, <2>2, <2>3 DEF IInv
<1>8. ASSUME NEW v \in Version, EditCommand(p, v) PROVE IInv'
  <2>1. cmd' = [cmd EXCEPT ![p] = v] /\ UNCHANGED <<src, edited, built>>
    BY <1>8 DEF EditCommand
  <2>2. WorldTypes'
    BY <1>1, <1>4, <2>1 DEF IInv, WorldTypes
  <2>3. ASSUME NEW q \in Key PROVE Sources(q)'
    BY <1>1, <2>1 DEF IInv, Sources
  <2> QED
    BY <1>2, <1>3, <2>2, <2>3 DEF IInv
<1> QED
  BY <1>5, <1>6, <1>7, <1>8

(* A command reads its sources when it begins: its provider is unsaved     *)
(* from then on.                                                           *)
LEMMA JobBeginsStep ==
    ASSUME IInv, NEW p \in Key, JobBegins(p)
    PROVE  IInv'
PROOF
<1>1. /\ p \in running \ begun /\ begun' = begun \cup {p} /\ saw' = [saw EXCEPT ![p] = src[p]]
      /\ built' = [built EXCEPT ![p] = <<Never>>] /\ unsaved' = unsaved \cup {p}
      /\ edited' = edited \ {p}
      /\ UNCHANGED <<depsVars, config, src, cmd, edits, pc, command, jobs, tr, running, ended, ran,
                     failed, skipped, toSave, done, saved, raced, runs, faults, requested, absent>>
  BY DEF JobBegins, runVars
<1>2. Reported' /\ Waits'
  BY <1>1, PlacesUntouched DEF loopPlaces
<1>3. LoopTypes' /\ Stage'
  BY <1>1 DEF IInv, LoopTypes, Stage, EndedJobs, DepsTypeOK, depsVars
<1>4. WorldTypes'
  BY <1>1 DEF IInv, WorldTypes
<1>5. p \notin ran /\ p \notin EndedJobs /\ Apart
  BY <1>1 DEF IInv, Reported, Apart, AtWork
<1>6. ASSUME NEW q \in Key PROVE Sources(q)'
  <2>1. Sources(q) /\ <<p, TRUE>> \notin ended
    BY <1>5, EndedJobsAre DEF IInv
  <2>2. CASE q = p
    BY <1>1, <1>5, <2>1, <2>2 DEF Sources, IInv, WorldTypes
  <2>3. CASE q # p
    BY <1>1, <2>1, <2>3 DEF Sources, IInv, WorldTypes
  <2> QED
    BY <2>2, <2>3
<1> QED
  BY <1>2, <1>3, <1>4, <1>6 DEF IInv

(* A job moves from running to ended.                                      *)
LEMMA JobEndsStep ==
    ASSUME IInv, NEW p \in Key, NEW ok \in BOOLEAN, JobEnds(p, ok)
    PROVE  IInv'
PROOF
<1>1. /\ p \in begun /\ running' = running \ {p} /\ begun' = begun \ {p}
      /\ ended' = ended \cup {<<p, ok>>}
      /\ UNCHANGED <<depsVars, config, src, cmd, edits, edited, pc, command, jobs, tr, ran, failed,
                     skipped, toSave, saved, saw, unsaved, raced, runs, faults, requested, absent>>
  BY DEF JobEnds, worldVars, runVars
<1>2. /\ Apart /\ p \in running /\ p \in AtWork /\ p \notin EndedJobs /\ p # tr
      /\ p \notin ran \cup failed \cup skipped \cup jobs
  BY <1>1 DEF IInv, LoopTypes, Reported, Apart, AtWork
<1>3. /\ EndedJobs' = EndedJobs \cup {p} /\ ended' \subseteq Key \X BOOLEAN
      /\ \A e, f \in ended' : e[1] = f[1] => e = f
      /\ \A x \in Key : <<x, TRUE>> \in ended' => <<x, TRUE>> \in ended \/ (x = p /\ ok)
  BY <1>1, <1>2, EndAdded
<1>4. Waiting' = Waiting /\ AtWork' = AtWork /\ \A x : Depends(x)' = Depends(x)
  BY <1>1, <1>2, <1>3 DEF Waiting, AtWork, Depends
<1>5. Apart'
  BY <1>1, <1>2, <1>3, <1>4 DEF Apart
<1>6. Accounted'
  BY <1>1, <1>4 DEF IInv, Reported, Accounted
<1>7. Scheduled'
  BY <1>1, <1>4 DEF IInv, Waits, Scheduled, SentReady, OnlySentFlows, GoneBlocks, JobsWait,
     EdgesKnown, EndIsFinal, depsVars
<1>8. Independent' /\ DependenciesFirst'
  <2>1. running' \cup EndedJobs' \subseteq running \cup EndedJobs
    BY <1>1, <1>2, <1>3
  <2> QED
    BY <1>1, <1>4, <2>1 DEF IInv, Waits, Independent, DependenciesFirst, EndedJobs
<1>9. LoopTypes'
  <2>1. Cardinality(running') <= Jobs
    <3>1. running \subseteq Key
      BY DEF IInv, LoopTypes
    <3>2. IsFiniteSet(running)
      BY <3>1, KeyAssumption, FS_Subset
    <3>3. Cardinality(running \ {p}) = Cardinality(running) - 1 /\ Cardinality(running) \in Nat
      BY <1>2, <3>2, FS_RemoveElement, FS_CardinalityType
    <3>4. Cardinality(running) <= Jobs
      BY DEF IInv, LoopTypes
    <3> QED
      BY <1>1, <3>3, <3>4, Basics
  <2>2. p \in requested
    BY <1>2 DEF IInv, LoopTypes
  <2> QED
    BY <1>1, <1>3, <2>1, <2>2 DEF IInv, LoopTypes, DepsTypeOK, depsVars
<1>10. Stage'
  BY <1>1, <1>2 DEF IInv, Stage
<1>11. \/ ok = TRUE /\ (\E s \in {saw[p], src[p]} : built' = [built EXCEPT ![p] = <<s, command[p]>>])
                    /\ done' = [done EXCEPT ![p] = <<saw[p], command[p]>>]
       \/ ok = FALSE /\ UNCHANGED <<built, done>>
  BY DEF JobEnds
<1>12. WorldTypes'
  BY <1>1, <1>11 DEF IInv, WorldTypes
<1>13. ASSUME NEW q \in Key PROVE Sources(q)'
  <2>1. Sources(q) /\ Sources(p) /\ WorldTypes
    BY DEF IInv
  <2>2. CASE q # p
    <3>1. built'[q] = built[q] /\ (<<q, TRUE>> \in ended' => <<q, TRUE>> \in ended)
      BY <1>3, <1>11, <2>1, <2>2 DEF WorldTypes
    <3> QED
      BY <1>1, <2>1, <2>2, <3>1 DEF Sources
  <2>3. CASE q = p
    <3>1. p \in unsaved
      BY <1>1, <2>1 DEF Sources
    <3>2. <<p, TRUE>> \notin ended
      BY <1>2, EndedJobsAre
    <3>3. ok = TRUE /\ p \notin edited => built'[p] = <<src[p], command[p]>>
      BY <1>1, <1>11, <2>1 DEF Sources, WorldTypes
    <3>4. p \notin ran' /\ p \notin begun' /\ p \in unsaved'
          /\ (<<p, TRUE>> \in ended' => ok = TRUE)
      BY <1>1, <1>2, <1>3, <3>1, <3>2
    <3> QED
      BY <1>1, <2>3, <3>3, <3>4 DEF Sources
  <2> QED
    BY <2>2, <2>3
<1> QED
  BY <1>5, <1>6, <1>7, <1>8, <1>9, <1>10, <1>12, <1>13 DEF IInv, Reported, Waits

(* The state file is written.                                              *)
LEMMA SaveSteps ==
    ASSUME IInv, Saved \/ \E p \in Key, ok \in BOOLEAN : Save(p, ok)
    PROVE  IInv'
PROOF
<1>1. CASE Saved
  <2>1. /\ pc = "save" /\ toSave = {} /\ pc' = "idle"
        /\ UNCHANGED <<depsVars, command, jobs, tr, running, begun, ended, ran, failed, skipped,
                       toSave, notLoop>>
    BY <1>1 DEF Saved
  <2>2. WorldTypes' /\ (\A p \in Key : Sources(p)') /\ UNCHANGED <<config, requested, absent>>
    BY <2>1, WorldUntouched
  <2>3. EndedJobs' = EndedJobs /\ AtWork' = AtWork /\ \A p : Depends(p)' = Depends(p)
    BY <2>1, <2>2 DEF EndedJobs, AtWork, Waiting, Depends
  <2>4. LoopTypes' /\ Stage'
    BY <2>1, <2>2, <2>3 DEF IInv, LoopTypes, Stage, DepsTypeOK, depsVars, Pcs
  <2>5. Reported'
    BY <2>1, <2>2, <2>3 DEF IInv, Reported, Apart, Accounted
  <2>6. Waits'
    BY <2>1, <2>2, <2>3 DEF IInv, Waits, Scheduled, Ordered, Independent, DependenciesFirst, EndedJobs
  <2> QED
    BY <2>2, <2>4, <2>5, <2>6 DEF IInv
<1>2. ASSUME NEW p \in Key, NEW ok \in BOOLEAN, Save(p, ok) PROVE IInv'
  <2>1. /\ pc = "save" /\ p \in toSave /\ toSave' = toSave \ {p}
        /\ UNCHANGED <<depsVars, config, src, cmd, edits, edited, pc, command, jobs, tr, running,
                       begun, ended, ran, failed, skipped, built, done, saw, runs, requested, absent>>
    BY <1>2 DEF Save, worldVars
  <2>2. \/ /\ saved' = [saved EXCEPT ![p] = <<src[p], command[p]>>] /\ unsaved' = unsaved \ {p}
           /\ raced' = (IF p \in edited THEN raced \cup {p} ELSE raced \ {p}) /\ faults' = faults
        \/ faults < MaxFaults /\ faults' = faults + 1 /\ UNCHANGED <<saved, unsaved, raced>>
    BY <1>2 DEF Save
  <2>3. Reported' /\ Waits'
    BY <2>1, PlacesUntouched DEF loopPlaces
  <2>4. LoopTypes' /\ Stage'
    BY <2>1 DEF IInv, LoopTypes, Stage, EndedJobs, DepsTypeOK, depsVars
  <2>5. WorldTypes'
    <3>1. faults' \in Nat /\ faults' <= MaxFaults
      BY <2>2, Basics DEF IInv, WorldTypes
    <3> QED
      BY <2>1, <2>2, <3>1 DEF IInv, WorldTypes
  <2>6. ASSUME NEW q \in Key PROVE Sources(q)'
    <3>1. Sources(q) /\ p \in ran /\ begun = {}
      BY <2>1 DEF IInv, LoopTypes, Stage
    <3>2. CASE q = p
      BY <2>1, <2>2, <3>1, <3>2 DEF Sources, IInv, WorldTypes
    <3>3. CASE q # p
      BY <2>1, <2>2, <3>1, <3>3 DEF Sources, IInv, WorldTypes
    <3> QED
      BY <3>2, <3>3
  <2> QED
    BY <2>3, <2>4, <2>5, <2>6 DEF IInv
<1> QED
  BY <1>1, <1>2

(* The process dies.                                                       *)
LEMMA CrashStep ==
    ASSUME IInv, Crash
    PROVE  IInv'
PROOF
<1>1. /\ faults < MaxFaults /\ faults' = faults + 1 /\ pc' = "idle"
      /\ jobs' = {} /\ tr' = None /\ running' = {} /\ begun' = {} /\ ended' = {}
      /\ ran' = {} /\ failed' = {} /\ skipped' = {} /\ toSave' = {}
      /\ edges' = {} /\ graph' = {} /\ sent' = {} /\ blocked' = {} /\ chan' = <<>>
      /\ UNCHANGED <<config, src, cmd, edits, edited, command, built, done, saw, unsaved, raced, runs,
                     requested, absent>>
  BY DEF Crash, worldVars
<1>2. PICK lost \in SUBSET Key : saved' = [p \in Key |-> IF p \in lost THEN Never ELSE saved[p]]
  BY DEF Crash
<1>3. WorldTypes'
  <2>1. faults' \in Nat /\ faults' <= MaxFaults
    BY <1>1, Basics DEF IInv, WorldTypes
  <2> QED
    BY <1>1, <1>2, <2>1 DEF IInv, WorldTypes
<1>4. EndedJobs' = {} /\ AtWork' = {}
  BY <1>1 DEF EndedJobs, AtWork, Waiting
<1>5. LoopTypes' /\ Stage'
  <2>1. Cardinality({}) = 0
    BY FS_EmptySet
  <2> QED
    BY <1>1, <1>4, <2>1, Basics DEF IInv, LoopTypes, Stage, DepsTypeOK, Pcs
<1>6. Reported'
  BY <1>1, <1>4, Basics DEF Reported, Apart, Accounted
<1>7. Waits'
  BY <1>1, <1>4 DEF Waits, Scheduled, Ordered, Independent, DependenciesFirst, EndedJobs
<1>8. ASSUME NEW q \in Key PROVE Sources(q)'
  BY <1>1, <1>2 DEF Sources, IInv
<1> QED
  BY <1>3, <1>5, <1>6, <1>7, <1>8 DEF IInv

-----------------------------------------------------------------------------
(* Sending the leaves of the graph g, of which bl are blocked, when R is   *)
(* what ran: the graph's part of the invariant is kept if every node that  *)
(* has left the graph ran or has blocked its dependents.                   *)
LEMMA EmitKeeps ==
    ASSUME IInv, pc \in Ordered, NEW g \in SUBSET graph, NEW bl \in SUBSET Key, blocked \subseteq bl,
           NEW c \in Seq(Key \cup {None}), c = chan \/ c = <<>>, NEW R, ran \subseteq R,
           \A d \in Key \ g, n \in g : <<n, d>> \in edges /\ n \notin bl => d \in R,
           graph' = g, blocked' = bl, edges' = edges, ran' = R, EmitLeaves(g, bl, c)
    PROVE  /\ DepsTypeOK' /\ SentReady' /\ GoneBlocks' /\ EndIsFinal'
           /\ sent \subseteq sent' /\ sent' \subseteq sent \cup graph
           /\ \A i \in DOMAIN chan' : chan'[i] \in sent' \cup {None}
PROOF
<1> DEFINE L == NewLeaves(g, bl)
<1>1. DepsTypeOK /\ SentReady /\ OnlySentFlows /\ EndIsFinal
  BY DEF IInv, LoopTypes, Waits, Scheduled
<1>2. g \in SUBSET Key /\ L \subseteq g
  BY <1>1 DEF DepsTypeOK, NewLeaves, Leaves
<1>3. /\ chan' \in Seq(Key \cup {None}) /\ sent' = sent \cup L
      /\ \A i \in DOMAIN chan' :
            \/ i \in DOMAIN c /\ chan'[i] = c[i]
            \/ chan'[i] \in L
            \/ chan'[i] = None /\ g \subseteq bl
  BY <1>2, EmitLeavesEffect DEF IsAllDone
<1>4. DepsTypeOK'
  BY <1>1, <1>2, <1>3 DEF DepsTypeOK
<1>5. SentReady'
  <2> SUFFICES ASSUME NEW p \in sent', NEW d \in Key, <<p, d>> \in edges PROVE d \in R
    BY DEF SentReady
  <2>1. CASE p \in sent
    BY <1>1, <2>1 DEF SentReady
  <2>2. CASE p \in L
    <3>1. p \in g /\ p \notin bl /\ d \notin g
      BY <2>2 DEF NewLeaves, Leaves
    <3> QED
      BY <3>1
  <2> QED
    BY <1>3, <2>1, <2>2
<1>6. GoneBlocks'
  BY DEF GoneBlocks
<1>7. \A i \in DOMAIN c : i \in DOMAIN chan /\ c[i] = chan[i]
  OBVIOUS
<1>8. EndIsFinal'
  <2> SUFFICES ASSUME NEW i \in DOMAIN chan', chan'[i] = None PROVE g \subseteq bl
    BY DEF EndIsFinal
  <2>1. None \notin L
    BY <1>2, NoneAssumption
  <2>2. CASE i \in DOMAIN c /\ chan'[i] = c[i]
    BY <1>1, <1>7, <2>2 DEF EndIsFinal
  <2> QED
    BY <1>3, <2>1, <2>2
<1>9. \A i \in DOMAIN chan' : chan'[i] \in sent' \cup {None}
  BY <1>1, <1>3, <1>7 DEF OnlySentFlows
<1> QED
  BY <1>2, <1>3, <1>4, <1>5, <1>6, <1>8, <1>9

(* The subscription.                                                       *)
LEMMA SubscribeStep ==
    ASSUME IInv, SubscribeReady
    PROVE  IInv'
PROOF
<1>1. /\ pc = "subscribe" /\ pc' = "select" /\ UNCHANGED <<edges, graph, blocked>>
      /\ EmitLeaves(graph, blocked, <<>>)
      /\ UNCHANGED <<command, jobs, tr, running, begun, ended, ran, failed, skipped, toSave, notLoop>>
  BY DEF SubscribeReady, Subscribe
<1>2. WorldTypes' /\ (\A p \in Key : Sources(p)') /\ UNCHANGED <<config, requested, absent>>
  BY <1>1, WorldUntouched
<1>3. EndedJobs' = EndedJobs /\ AtWork' = AtWork /\ \A p : Depends(p)' = Depends(p)
  BY <1>1, <1>2 DEF EndedJobs, AtWork, Waiting, Depends
<1>4. Scheduled /\ pc \in Ordered /\ DepsTypeOK
  BY <1>1 DEF IInv, Waits, Ordered, LoopTypes
<1>5. <<>> \in Seq(Key \cup {None}) /\ graph \in SUBSET graph /\ blocked \in SUBSET Key
      /\ \A d \in Key \ graph, n \in graph : <<n, d>> \in edges /\ n \notin blocked => d \in ran
  BY <1>4 DEF Scheduled, GoneBlocks, DepsTypeOK
<1>6. /\ DepsTypeOK' /\ SentReady' /\ GoneBlocks' /\ EndIsFinal'
      /\ sent \subseteq sent' /\ sent' \subseteq sent \cup graph
      /\ \A i \in DOMAIN chan' : chan'[i] \in sent' \cup {None}
  BY <1>1, <1>4, <1>5, EmitKeeps
<1>7. OnlySentFlows' /\ JobsWait' /\ EdgesKnown'
  BY <1>1, <1>2, <1>3, <1>4, <1>6 DEF Scheduled, OnlySentFlows, JobsWait, EdgesKnown
<1>8. LoopTypes' /\ Stage'
  BY <1>1, <1>2, <1>3, <1>6 DEF IInv, LoopTypes, Stage, Pcs
<1>9. Reported'
  BY <1>1, <1>2, <1>3 DEF IInv, Reported, Apart, Accounted
<1>10. DependenciesFirst'
  BY <1>1, <1>2, <1>3 DEF IInv, Waits, DependenciesFirst, EndedJobs
<1> QED
  BY <1>1, <1>2, <1>6, <1>7, <1>8, <1>9, <1>10 DEF IInv, Waits, Scheduled, Independent

(* run_with_deps joins a job.                                              *)
LEMMA JoinStep ==
    ASSUME IInv, NEW p \in Key, NEW ok \in BOOLEAN, Join(p, ok)
    PROVE  IInv'
PROOF
<1>1. /\ pc = "select" /\ <<p, ok>> \in ended /\ ended' = ended \ {<<p, ok>>}
      /\ UNCHANGED <<pc, command, tr, running, begun, toSave, notLoop>>
  BY DEF Join
<1>2. Scheduled /\ pc \in Ordered /\ DepsTypeOK /\ Apart /\ Accounted
  BY <1>1 DEF IInv, Waits, Ordered, LoopTypes, Reported
<1>3. /\ EndedJobs' = EndedJobs \ {p} /\ p \in EndedJobs /\ ended' \subseteq Key \X BOOLEAN
      /\ \A e, f \in ended' : e[1] = f[1] => e = f
      /\ \A x \in Key : <<x, TRUE>> \in ended' => <<x, TRUE>> \in ended /\ x # p
  BY <1>1, <1>2, EndRemoved
<1>4. /\ p \notin running /\ p # tr /\ p \notin jobs \cup ran \cup failed \cup skipped
      /\ p \in graph /\ p \in sent /\ p \in AtWork
  BY <1>2, <1>3 DEF Apart, AtWork, Scheduled, OnlySentFlows
<1>5. AtWork' = AtWork \ {p}
  BY <1>1, <1>3, <1>4 DEF AtWork, Waiting
<1>6. graph \ {p} \in SUBSET graph /\ chan \in Seq(Key \cup {None}) /\ blocked \in SUBSET Key
  BY <1>2 DEF DepsTypeOK
<1>7. CASE ok = TRUE
  <2>1. /\ ran' = ran \cup {p} /\ UNCHANGED <<failed, jobs, skipped, edges, blocked>>
        /\ graph' = graph \ {p} /\ EmitLeaves(graph \ {p}, blocked, chan)
    BY <1>7 DEF Join, CompleteSuccess
  <2>2. \A x \in Key : <<x, TRUE>> \in ended' \/ x \in ran' => <<x, TRUE>> \in ended \/ x \in ran
    BY <1>1, <1>3, <1>7, <2>1
  <2>3. WorldTypes' /\ (\A x \in Key : Sources(x)') /\ UNCHANGED <<config, requested, absent>>
    BY <1>1, <2>2, WorldUntouched
  <2>4. \A d \in Key \ (graph \ {p}), n \in graph \ {p} :
           <<n, d>> \in edges /\ n \notin blocked => d \in ran \cup {p}
    BY <1>2 DEF Scheduled, GoneBlocks
  <2>5. /\ DepsTypeOK' /\ SentReady' /\ GoneBlocks' /\ EndIsFinal'
        /\ sent \subseteq sent' /\ sent' \subseteq sent \cup graph
        /\ \A i \in DOMAIN chan' : chan'[i] \in sent' \cup {None}
    BY <1>2, <1>6, <2>1, <2>4, EmitKeeps
  <2>6. OnlySentFlows' /\ JobsWait'
    BY <1>2, <1>4, <1>5, <2>1, <2>5 DEF Scheduled, OnlySentFlows, JobsWait
  <2>7. EdgesKnown'
    BY <1>2, <2>1, <2>3, <2>5 DEF Scheduled, EdgesKnown, Depends
  <2>8. DependenciesFirst'
    BY <2>5, <2>6, <2>7 DEF OnlySentFlows, SentReady, EdgesKnown, AtWork,
       DependenciesFirst, EndedJobs
  <2>9. Apart' /\ Accounted'
    BY <1>1, <1>2, <1>3, <1>4, <1>5, <2>1, <2>3 DEF Apart, Accounted
  <2>10. LoopTypes' /\ Stage'
    BY <1>1, <1>3, <2>1, <2>3, <2>5 DEF IInv, LoopTypes, Stage
  <2> QED
    BY <1>1, <2>3, <2>5, <2>6, <2>7, <2>8, <2>9, <2>10
       DEF IInv, Waits, Reported, Scheduled, Independent
<1>8. CASE ok = FALSE
  <2> DEFINE b == blocked \cup TransitiveDependents(p)
  <2>1. /\ failed' = failed \cup {p} /\ UNCHANGED <<ran, edges>> /\ blocked' = b
        /\ graph' = graph \ {p} /\ EmitLeaves(graph \ {p}, b, chan)
        /\ jobs' = jobs \ (graph' \cap blocked')
        /\ skipped' = skipped \cup (jobs \cap graph' \cap blocked')
    BY <1>4, <1>8 DEF Join, CompleteFailure
  <2>2. b \in SUBSET Key /\ blocked \subseteq b
    BY <1>2, <1>6 DEF TransitiveDependents, DepsTypeOK
  <2>3. \A d \in Key \ (graph \ {p}), n \in graph \ {p} :
           <<n, d>> \in edges /\ n \notin b => d \in ran
    BY <1>2, DependentsAreLinked DEF Scheduled, GoneBlocks
  <2> HIDE DEF b
  <2>4. \A x \in Key : <<x, TRUE>> \in ended' \/ x \in ran' => <<x, TRUE>> \in ended \/ x \in ran
    BY <1>3, <2>1
  <2>5. WorldTypes' /\ (\A x \in Key : Sources(x)') /\ UNCHANGED <<config, requested, absent>>
    BY <1>1, <2>4, WorldUntouched
  <2>6. /\ DepsTypeOK' /\ SentReady' /\ GoneBlocks' /\ EndIsFinal'
        /\ sent \subseteq sent' /\ sent' \subseteq sent \cup graph
        /\ \A i \in DOMAIN chan' : chan'[i] \in sent' \cup {None}
    BY <1>2, <1>6, <2>1, <2>2, <2>3, EmitKeeps
  <2>7. OnlySentFlows' /\ JobsWait'
    BY <1>2, <1>4, <1>5, <2>1, <2>6 DEF Scheduled, OnlySentFlows, JobsWait
  <2>8. EdgesKnown'
    BY <1>2, <2>1, <2>5, <2>6 DEF Scheduled, EdgesKnown, Depends
  <2>9. DependenciesFirst'
    BY <2>6, <2>7, <2>8 DEF OnlySentFlows, SentReady, EdgesKnown, AtWork,
       DependenciesFirst, EndedJobs
  <2>10. Apart' /\ Accounted'
    BY <1>1, <1>2, <1>3, <1>4, <1>5, <2>1, <2>5 DEF Apart, Accounted
  <2>11. LoopTypes' /\ Stage'
    <3>1. p \in requested /\ jobs \subseteq Key
      BY <1>3 DEF IInv, LoopTypes
    <3> QED
      BY <1>1, <1>3, <2>1, <2>5, <2>6, <3>1 DEF IInv, LoopTypes, Stage
  <2> QED
    BY <1>1, <2>5, <2>6, <2>7, <2>8, <2>9, <2>10, <2>11
       DEF IInv, Waits, Reported, Scheduled, Independent
<1> QED
  BY <1>7, <1>8

(* The receiver's messages, the permit, and the end of run_with_deps.      *)
LEMMA ReceiveSteps ==
    ASSUME IInv, RecvNone \/ SpawnReady \/ Drained \/ \E p \in Key : RecvProvider(p)
    PROVE  IInv'
PROOF
<1>1. /\ pc \in Ordered
      /\ UNCHANGED <<edges, graph, sent, blocked, command, begun, ended, ran, failed, skipped, notLoop>>
  BY DEF RecvNone, SpawnReady, Drained, RecvProvider, Receive, Ordered, depsVars
<1>2. WorldTypes' /\ (\A p \in Key : Sources(p)') /\ UNCHANGED <<config, requested, absent>>
  BY <1>1, WorldUntouched
<1>3. EndedJobs' = EndedJobs /\ \A p : Depends(p)' = Depends(p)
  BY <1>1, <1>2 DEF EndedJobs, Depends
<1>4. Scheduled /\ DepsTypeOK /\ Apart /\ Accounted /\ LoopTypes /\ Stage /\ DependenciesFirst
  BY DEF IInv, Waits, LoopTypes, Reported
<1>5. ASSUME NEW m, Receive(m)
      PROVE  /\ DepsTypeOK' /\ m \in sent \cup {None} /\ (m = None => graph \subseteq blocked)
             /\ \A i \in DOMAIN chan' : chan'[i] \in sent \cup {None}
             /\ EndIsFinal'
  <2>1. chan # <<>> /\ m = Head(chan) /\ chan' = Tail(chan) /\ chan \in Seq(Key \cup {None})
    BY <1>4, <1>5 DEF Receive, DepsTypeOK
  <2>2. m = chan[1] /\ 1 \in DOMAIN chan
    BY <2>1
  <2>3. chan' \in Seq(Key \cup {None})
        /\ \A i \in DOMAIN chan' : i + 1 \in DOMAIN chan /\ chan'[i] = chan[i + 1]
    BY <2>1
  <2> QED
    BY <1>1, <1>4, <2>2, <2>3 DEF DepsTypeOK, Scheduled, OnlySentFlows, EndIsFinal
<1>6. CASE RecvNone
  <2>1. /\ pc = "select" /\ Receive(None) /\ pc' = "drain" /\ UNCHANGED <<jobs, tr, running, toSave>>
    BY <1>6 DEF RecvNone
  <2>2. jobs = {}
    BY <1>1, <1>4, <1>5, <2>1 DEF Scheduled, JobsWait
  <2>3. AtWork' = AtWork
    BY <1>3, <2>1 DEF AtWork, Waiting
  <2>4. LoopTypes' /\ Stage'
    BY <1>1, <1>2, <1>3, <1>4, <1>5, <2>1, <2>2 DEF LoopTypes, Stage, Pcs
  <2>5. Reported'
    BY <1>1, <1>2, <1>3, <1>4, <2>1, <2>3 DEF Reported, Apart, Accounted
  <2>6. Scheduled'
    BY <1>1, <1>2, <1>3, <1>4, <1>5, <2>1, <2>3 DEF Scheduled, SentReady, OnlySentFlows, GoneBlocks,
       JobsWait, EdgesKnown
  <2>7. Independent' /\ DependenciesFirst'
    BY <1>1, <1>2, <1>3, <1>4, <2>1 DEF Independent, DependenciesFirst, EndedJobs
  <2> QED
    BY <1>2, <2>4, <2>5, <2>6, <2>7 DEF IInv, Waits
<1>7. ASSUME NEW p \in Key, RecvProvider(p) PROVE IInv'
  <2>1. /\ pc = "select" /\ Receive(p) /\ UNCHANGED <<running, toSave>>
        /\ \/ p \in jobs /\ jobs' = jobs \ {p} /\ tr' = p /\ pc' = "permit"
           \/ p \notin jobs /\ UNCHANGED <<jobs, tr, pc>>
    BY <1>7 DEF RecvProvider
  <2>2. tr = None /\ p # None /\ p \in sent
    BY <1>4, <1>5, <2>1, NoneAssumption DEF LoopTypes
  <2>3. \/ p \in jobs /\ jobs' = jobs \ {p} /\ AtWork' = AtWork \cup {p}
        \/ p \notin jobs /\ jobs' = jobs /\ AtWork' = AtWork
    BY <1>3, <2>1, <2>2 DEF AtWork, Waiting
  <2>4. LoopTypes' /\ Stage'
    BY <1>1, <1>2, <1>3, <1>4, <1>5, <2>1, <2>2 DEF LoopTypes, Stage, Pcs
  <2>5. Apart'
    BY <1>1, <1>3, <1>4, <2>1, <2>3 DEF Apart, AtWork
  <2>6. Accounted'
    BY <1>1, <1>2, <1>4, <2>1, <2>3 DEF Accounted
  <2>7. Scheduled'
    <3>1. OnlySentFlows' /\ JobsWait'
      BY <1>1, <1>4, <1>5, <2>1, <2>2, <2>3 DEF Scheduled, OnlySentFlows, JobsWait
    <3>2. SentReady' /\ GoneBlocks' /\ EdgesKnown'
      BY <1>1, <1>2, <1>3, <1>4 DEF Scheduled, SentReady, GoneBlocks, EdgesKnown
    <3> QED
      BY <1>5, <2>1, <3>1, <3>2 DEF Scheduled
  <2>8. Independent' /\ DependenciesFirst'
    BY <1>1, <1>2, <1>3, <1>4, <2>1 DEF Independent, DependenciesFirst, EndedJobs
  <2> QED
    BY <1>2, <2>4, <2>5, <2>6, <2>7, <2>8 DEF IInv, Waits, Reported
<1>8. CASE SpawnReady
  <2>1. /\ pc = "permit" /\ Cardinality(running) < Jobs /\ running' = running \cup {tr} /\ tr' = None
        /\ pc' = "select" /\ UNCHANGED <<jobs, toSave, chan>>
    BY <1>8 DEF SpawnReady, depsVars
  <2>2. tr # None /\ tr \in AtWork
    BY <1>4, <2>1 DEF LoopTypes, AtWork, Waiting
  <2>3. tr \in requested /\ tr \in Key
    BY <1>4, <2>1, <2>2 DEF Accounted, LoopTypes
  <2>4. AtWork' = AtWork
    BY <1>3, <2>1, <2>2 DEF AtWork, Waiting
  <2>5. Cardinality(running') <= Jobs
    <3>1. IsFiniteSet(running) /\ tr \notin running
      BY <1>4, KeyAssumption, FS_Subset DEF LoopTypes, Apart
    <3>2. Cardinality(running') = Cardinality(running) + 1 /\ Cardinality(running) \in Nat
      BY <2>1, <3>1, FS_AddElement, FS_CardinalityType
    <3> QED
      BY <2>1, <3>2, Basics
  <2>6. LoopTypes' /\ Stage'
    BY <1>1, <1>2, <1>3, <1>4, <2>1, <2>3, <2>5 DEF LoopTypes, Stage, Pcs, DepsTypeOK
  <2>7. Apart'
    BY <1>1, <1>3, <1>4, <2>1, <2>2, <2>3, <2>4, NoneAssumption DEF Apart, AtWork, LoopTypes
  <2>8. Accounted'
    BY <1>1, <1>2, <1>4, <2>1, <2>4 DEF Accounted
  <2>9. Scheduled'
    BY <1>1, <1>2, <1>3, <1>4, <2>1, <2>4 DEF Scheduled, SentReady, OnlySentFlows, GoneBlocks,
       JobsWait, EdgesKnown, EndIsFinal
  <2>10. DependenciesFirst'
    BY <1>1, <2>1, <2>9 DEF Scheduled, Ordered, OnlySentFlows, SentReady, EdgesKnown,
       AtWork, DependenciesFirst, EndedJobs
  <2> QED
    BY <1>2, <2>1, <2>6, <2>7, <2>8, <2>9, <2>10 DEF IInv, Waits, Reported, Independent
<1>9. CASE Drained
  <2>1. /\ pc = "drain" /\ running = {} /\ ended = {}
        /\ pc' = (IF failed = {} THEN "save" ELSE "idle")
        /\ toSave' = (IF failed = {} THEN ran ELSE {})
        /\ UNCHANGED <<jobs, tr, running, chan>>
    BY <1>9 DEF Drained, depsVars
  <2>2. AtWork' = AtWork /\ pc' \in {"save", "idle"} /\ jobs = {}
    BY <1>3, <1>4, <2>1 DEF AtWork, Waiting, Stage
  <2>3. LoopTypes' /\ Stage'
    BY <1>1, <1>2, <1>3, <1>4, <2>1, <2>2 DEF LoopTypes, Stage, Pcs, DepsTypeOK
  <2>4. Reported'
    BY <1>1, <1>2, <1>3, <1>4, <2>1, <2>2 DEF Reported, Apart, Accounted
  <2>5. Waits'
    BY <1>1, <1>2, <1>3, <1>4, <2>1, <2>2
       DEF Waits, Scheduled, Ordered, Independent, DependenciesFirst, EndedJobs
  <2> QED
    BY <1>2, <2>3, <2>4, <2>5 DEF IInv
<1> QED
  BY <1>6, <1>7, <1>8, <1>9

(* run_parallel.                                                           *)
LEMMA ParallelSteps ==
    ASSUME IInv,
           \/ \E p \in Key : SpawnNext(p)
           \/ \E p \in Key, ok \in BOOLEAN : JoinAny(p, ok) \/ JoinAborted(p, ok)
           \/ Joined
    PROVE  IInv'
PROOF
<1>1. UNCHANGED <<depsVars, command, tr, begun, skipped, notLoop>> /\ pc \in {"spawn", "join", "abort"}
  BY DEF SpawnNext, JoinAny, JoinAborted, Joined
<1>2. /\ Apart /\ Accounted /\ LoopTypes /\ Stage /\ DependenciesFirst /\ Independent
      /\ Waiting = {} /\ tr = None /\ DepsTypeOK'
  BY <1>1 DEF IInv, Waits, Reported, LoopTypes, Waiting, DepsTypeOK, depsVars
<1>3. \A x \in Key : <<x, TRUE>> \in ended' \/ x \in ran' => <<x, TRUE>> \in ended \/ x \in ran
  BY DEF SpawnNext, JoinAny, JoinAborted, Joined
<1>4. WorldTypes' /\ (\A p \in Key : Sources(p)') /\ UNCHANGED <<config, requested, absent>>
  BY <1>1, <1>3, WorldUntouched
<1>5. Waiting' = {} /\ AtWork = running \cup EndedJobs /\ AtWork' = running' \cup EndedJobs'
      /\ \A p : Depends(p)' = Depends(p)
  BY <1>1, <1>2, <1>4 DEF Waiting, AtWork, Depends
<1>6. ASSUME NEW p \in Key, SpawnNext(p) PROVE IInv'
  <2>1. /\ pc = "spawn" /\ p \in jobs /\ Cardinality(running) < Jobs /\ jobs' = jobs \ {p}
        /\ running' = running \cup {p} /\ pc' = (IF jobs = {p} THEN "join" ELSE "spawn")
        /\ UNCHANGED <<ended, ran, failed, toSave>>
    BY <1>6 DEF SpawnNext
  <2>2. EndedJobs' = EndedJobs /\ p \notin AtWork \cup ran \cup failed \cup skipped
    BY <1>2, <2>1 DEF EndedJobs, Apart
  <2>3. Cardinality(running') <= Jobs
    <3>1. IsFiniteSet(running) /\ p \notin running
      BY <1>2, <1>5, <2>2, KeyAssumption, FS_Subset DEF LoopTypes
    <3>2. Cardinality(running') = Cardinality(running) + 1 /\ Cardinality(running) \in Nat
      BY <2>1, <3>1, FS_AddElement, FS_CardinalityType
    <3> QED
      BY <2>1, <3>2, Basics
  <2>4. LoopTypes' /\ Stage'
    BY <1>1, <1>2, <1>4, <2>1, <2>2, <2>3 DEF LoopTypes, Stage, Pcs
  <2>5. Apart' /\ Accounted'
    BY <1>1, <1>2, <1>4, <1>5, <2>1, <2>2, Basics DEF Apart, Accounted, LoopTypes
  <2>6. Independent' /\ DependenciesFirst' /\ Scheduled'
    <3>1. Depends(p) = {} /\ \A x \in jobs : Depends(x) = {}
      BY <1>2, <2>1 DEF Independent
    <3> QED
      BY <1>2, <1>4, <1>5, <2>1, <2>2, <3>1
         DEF Independent, DependenciesFirst, EndedJobs, Scheduled, Ordered
  <2> QED
    BY <1>4, <2>4, <2>5, <2>6 DEF IInv, Waits, Reported
<1>7. ASSUME NEW p \in Key, NEW ok \in BOOLEAN, JoinAny(p, ok) \/ JoinAborted(p, ok) PROVE IInv'
  <2>1. /\ <<p, ok>> \in ended /\ ended' = ended \ {<<p, ok>>} /\ UNCHANGED <<jobs, toSave>>
        /\ \/ pc' = pc /\ running' = running /\ failed' = failed
           \/ pc = "join" /\ failed' = {p} /\ running' = begun /\ pc' = "abort"
        /\ \/ pc = "join" /\ pc' = "join" /\ ran' = ran \cup {p}
           \/ pc' = "abort" /\ ran' = ran
    BY <1>7 DEF JoinAny, JoinAborted
  <2>2. /\ EndedJobs' = EndedJobs \ {p} /\ p \in EndedJobs /\ ended' \subseteq Key \X BOOLEAN
        /\ \A e, f \in ended' : e[1] = f[1] => e = f
    BY <1>2, <2>1, EndRemoved
  <2>3. /\ p \notin running /\ p \notin jobs \cup ran \cup failed \cup skipped
        /\ begun \subseteq running /\ jobs = {} /\ p \in requested
        /\ running' \subseteq running
    BY <1>1, <1>2, <1>5, <2>1, <2>2 DEF Apart, LoopTypes, Stage
  <2>4. Cardinality(running') <= Jobs
    <3>1. IsFiniteSet(running)
      BY <1>2, KeyAssumption, FS_Subset DEF LoopTypes
    <3>2. Cardinality(running') <= Cardinality(running) /\ Cardinality(running) \in Nat
          /\ Cardinality(running') \in Nat /\ Cardinality(running) <= Jobs
      BY <1>2, <2>3, <3>1, FS_Subset, FS_CardinalityType DEF LoopTypes
    <3> QED
      BY <3>2, Basics
  <2>5. LoopTypes'
    BY <1>1, <1>2, <1>4, <2>1, <2>2, <2>3, <2>4 DEF LoopTypes, Pcs
  <2>6. Stage'
    BY <1>1, <1>2, <2>1, <2>3 DEF Stage
  <2>7. Apart'
    BY <1>1, <1>2, <1>5, <2>1, <2>2, <2>3, Basics DEF Apart
  <2>8. Accounted'
    BY <1>1, <1>2, <1>4, <1>5, <2>1, <2>2, <2>3 DEF Accounted
  <2>9. DependenciesFirst'
    BY <1>2, <1>4, <1>5, <2>1, <2>2, <2>3 DEF DependenciesFirst, EndedJobs
  <2>10. Independent' /\ Scheduled'
    BY <1>1, <2>1 DEF Independent, Scheduled, Ordered
  <2> QED
    BY <1>4, <2>5, <2>6, <2>7, <2>8, <2>9, <2>10 DEF IInv, Waits, Reported
<1>8. CASE Joined
  <2>1. /\ running = {} /\ ended = {} /\ pc \in {"join", "abort"}
        /\ pc' = (IF pc = "join" THEN "save" ELSE "idle")
        /\ toSave' = (IF pc = "join" THEN ran ELSE {})
        /\ UNCHANGED <<jobs, running, ended, ran, failed>>
    BY <1>8 DEF Joined
  <2>2. EndedJobs' = EndedJobs /\ AtWork' = AtWork /\ jobs = {}
    BY <1>2, <1>5, <2>1 DEF EndedJobs, Stage
  <2>3. LoopTypes' /\ Stage'
    BY <1>1, <1>2, <1>4, <2>1, <2>2 DEF LoopTypes, Stage, Pcs
  <2>4. Reported'
    BY <1>1, <1>2, <1>4, <2>1, <2>2 DEF Reported, Apart, Accounted
  <2>5. Waits'
    BY <1>2, <1>4, <1>5, <2>1, <2>2
       DEF Waits, Scheduled, Ordered, Independent, DependenciesFirst, EndedJobs
  <2> QED
    BY <1>4, <2>3, <2>4, <2>5 DEF IInv
<1> QED
  BY <1>6, <1>7, <1>8

-----------------------------------------------------------------------------
(* What depends on an inactive provider is closed: a candidate that        *)
(* depends on a member, or on a selected inactive provider, is a member.   *)
LEMMA InactiveBlockedIsClosed ==
    ASSUME NEW i, NEW q \in Candidates(i), NEW d \in Depends(q),
           d \in InactiveBlocked(i) \cup (config.inactive \cap i.selected)
    PROVE  q \in InactiveBlocked(i)
PROOF
<1> DEFINE Closed(C) ==
             \A x \in Candidates(i) :
                Depends(x) \cap (C \cup (config.inactive \cap i.selected)) # {} => x \in C
<1>1. \A x : x \in InactiveBlocked(i) <=>
                x \in Candidates(i) /\ \A C \in SUBSET Candidates(i) : Closed(C) => x \in C
  BY DEF InactiveBlocked
<1>2. ASSUME NEW C \in SUBSET Candidates(i), Closed(C) PROVE q \in C
  <2>1. d \in C \cup (config.inactive \cap i.selected)
    BY <1>1, <1>2
  <2> QED
    BY <1>2, <2>1
<1> QED
  BY <1>1, <1>2

(* An invocation begins.                                                   *)
LEMMA BeginStep ==
    ASSUME IInv, NEW i \in Invocations, Begin(i)
    PROVE  IInv'
PROOF
<1> DEFINE cand == Candidates(i)
           held == InactiveBlocked(i)
           toRun == cand \ held
           E == UsableEdges({e \in toRun \X toRun : e[2] \in Depends(e[1])})
           cyclic == toRun \ Orderable(toRun, E)
           off == i.selected \cap config.inactive
<1>1. /\ pc = "idle" /\ runs < MaxRuns /\ runs' = runs + 1 /\ absent' = off
      /\ requested' = (IF i.dry THEN {} ELSE cand) /\ ran' = {} /\ failed' = {} /\ command' = cmd
      /\ UNCHANGED <<config, src, cmd, edits, edited, tr, running, begun, ended, toSave, built, done,
                     saved, saw, unsaved, raced, faults>>
  BY DEF Begin, worldVars
<1>2. \/ /\ skipped' = held /\ UNCHANGED <<depsVars, pc, jobs>>
      \/ /\ i.dry = FALSE
         /\ edges' = E /\ graph' = toRun /\ sent' = {} /\ blocked' = cyclic /\ chan' = <<>>
         /\ jobs' = toRun \ cyclic /\ skipped' = held \cup cyclic /\ pc' = "subscribe"
      \/ /\ i.dry = FALSE /\ \A p \in toRun : Depends(p) = {}
         /\ jobs' = toRun /\ skipped' = held /\ pc' = "spawn" /\ UNCHANGED depsVars
  <2>1. i.dry \in BOOLEAN
    BY InvocationAssumption
  <2> QED
    BY <2>1 DEF Begin
<1>3. cand \subseteq Key /\ held \subseteq cand /\ off \subseteq Key
  BY InvocationAssumption DEF Candidates, InactiveBlocked
<1>4. /\ cyclic \subseteq toRun /\ \A p \in toRun, d \in cand \cup off :
            d \in Depends(p) => d \in toRun
      /\ \A p, d \in toRun : d \in Depends(p) /\ d # p => <<p, d>> \in E
      /\ E \subseteq toRun \X toRun
  <2>1. ASSUME NEW p \in toRun, NEW d \in cand \cup off, d \in Depends(p) PROVE d \in toRun
    BY <2>1, InactiveBlockedIsClosed
  <2>2. ASSUME NEW p \in toRun, NEW d \in toRun, d \in Depends(p), d # p PROVE <<p, d>> \in E
    BY <1>3, <2>2 DEF UsableEdges
  <2>3. E \subseteq toRun \X toRun
    BY DEF UsableEdges
  <2> QED
    BY <2>1, <2>2, <2>3
<1> HIDE DEF cand, held, E, cyclic, off
<1>5. /\ running = {} /\ begun = {} /\ ended = {} /\ toSave = {} /\ jobs = {} /\ tr = None
      /\ LoopTypes /\ Apart
  BY <1>1 DEF IInv, Stage, LoopTypes, Reported
<1>6. EndedJobs' = {} /\ AtWork' = {} /\ \A p : Depends(p)' = Depends(p)
  BY <1>1, <1>5 DEF EndedJobs, AtWork, Waiting, Depends
<1>7. WorldTypes'
  <2>1. runs' \in Nat /\ runs' <= MaxRuns
    BY <1>1, Basics DEF IInv, WorldTypes
  <2> QED
    BY <1>1, <2>1 DEF IInv, WorldTypes
<1>8. ASSUME NEW p \in Key PROVE Sources(p)'
  BY <1>1, <1>5 DEF IInv, Sources
<1>9. DepsTypeOK'
  <2>1. <<>> \in Seq(Key \cup {None}) /\ DepsTypeOK
    BY <1>5 DEF LoopTypes
  <2> QED
    BY <1>2, <1>3, <1>4, <2>1 DEF DepsTypeOK, depsVars
<1>10. LoopTypes' /\ Stage'
  <2>1. Cardinality(running') <= Jobs
    BY <1>1, <1>5 DEF LoopTypes
  <2>2. jobs' \subseteq requested' /\ skipped' \subseteq Key /\ requested' \subseteq Key
    BY <1>1, <1>2, <1>3, <1>4, <1>5
  <2>3. pc' \in {"idle", "subscribe", "spawn"} /\ (pc' = "idle" => jobs' = {})
    BY <1>1, <1>2, <1>5
  <2> QED
    BY <1>1, <1>3, <1>5, <1>6, <1>9, <2>1, <2>2, <2>3 DEF LoopTypes, Stage, Pcs
<1>11. Apart' /\ Accounted'
  <2>1. \A p \in jobs' : p \notin skipped'
    BY <1>2, <1>3, <1>4, <1>5
  <2>2. Apart'
    BY <1>1, <1>5, <1>6, <2>1 DEF Apart
  <2>3. pc' # "idle" => requested' = jobs' \cup skipped'
    BY <1>1, <1>2, <1>3, <1>4
  <2> QED
    BY <1>1, <1>6, <2>2, <2>3 DEF Accounted
<1>12. Scheduled'
  <2> SUFFICES ASSUME pc' \in Ordered PROVE Scheduled'
    BY DEF Scheduled
  <2>1. /\ edges' = E /\ graph' = toRun /\ sent' = {} /\ blocked' = cyclic /\ chan' = <<>>
        /\ jobs' = toRun \ cyclic /\ requested' = cand
    BY <1>1, <1>2 DEF Ordered
  <2>2. SentReady' /\ OnlySentFlows' /\ EndIsFinal' /\ JobsWait'
    BY <1>1, <1>6, <2>1 DEF SentReady, OnlySentFlows, EndIsFinal, JobsWait
  <2>3. GoneBlocks'
    BY <1>4, <2>1 DEF GoneBlocks
  <2>4. EdgesKnown'
    BY <1>1, <1>3, <1>4, <1>6, <2>1 DEF EdgesKnown
  <2> QED
    BY <2>2, <2>3, <2>4 DEF Scheduled
<1>13. Independent' /\ DependenciesFirst'
  BY <1>1, <1>2, <1>5, <1>6 DEF Independent, DependenciesFirst, EndedJobs
<1> QED
  BY <1>7, <1>8, <1>10, <1>11, <1>12, <1>13 DEF IInv, Waits, Reported

-----------------------------------------------------------------------------
(* The invariant holds initially.                                          *)
LEMMA InitEstablishes == Init => IInv
PROOF
<1> SUFFICES ASSUME Init PROVE IInv
  OBVIOUS
<1> USE DEF Init
<1>1. src \in [Key -> Version]
  BY VersionAssumption
<1>2. WorldTypes
  BY <1>1, Basics DEF WorldTypes
<1>3. EndedJobs = {} /\ AtWork = {} /\ Cardinality({}) = 0
  BY FS_EmptySet DEF EndedJobs, AtWork, Waiting
<1>4. LoopTypes /\ Stage
  BY <1>3, Basics DEF LoopTypes, Stage, DepsTypeOK, Pcs
<1>5. Reported
  BY <1>3 DEF Reported, Apart, Accounted
<1>6. Waits
  BY <1>3 DEF Waits, Scheduled, Ordered, Independent, DependenciesFirst, EndedJobs
<1>7. ASSUME NEW p \in Key PROVE Sources(p)
  BY DEF Sources
<1> QED
  BY <1>2, <1>4, <1>5, <1>6, <1>7 DEF IInv

(* Each step of the engine, the user or a crash keeps it.                  *)
LEMMA NextPreserves == IInv /\ [Next]_vars => IInv'
PROOF
<1> SUFFICES ASSUME IInv, [Next]_vars PROVE IInv'
  OBVIOUS
<1>1. CASE UNCHANGED vars
  <2>1. UNCHANGED loopPlaces /\ UNCHANGED <<command, begun, toSave, notLoop>>
    BY <1>1 DEF vars, loopPlaces, worldVars, loopVars, runVars, notLoop
  <2>2. UNCHANGED <<ended, ran>>
    BY <2>1 DEF loopPlaces
  <2>3. WorldTypes' /\ \A p \in Key : Sources(p)'
    BY <2>1, <2>2, WorldUntouched
  <2>4. LoopTypes' /\ Stage'
    BY <2>1 DEF IInv, LoopTypes, Stage, EndedJobs, DepsTypeOK, depsVars, loopPlaces
  <2> QED
    BY <2>1, <2>3, <2>4, PlacesUntouched DEF IInv
<1>2. CASE EngineStep
  BY <1>2, SubscribeStep, JoinStep, ReceiveSteps, ParallelSteps, SaveSteps DEF EngineStep
<1>3. CASE JobStep
  BY <1>3, JobBeginsStep, JobEndsStep DEF JobStep
<1> QED
  BY <1>1, <1>2, <1>3, BeginStep, UserSteps, CrashStep DEF Next

(* The invariant holds in every state.                                     *)
LEMMA Invariance == Spec => []IInv
PROOF
  BY InitEstablishes, NextPreserves, PTL DEF Spec

(* Type correctness; in particular the semaphore's permits bound the jobs. *)
THEOREM TypeCorrect == Spec => []TypeOK
PROOF
<1>1. IInv => TypeOK
  BY DEF IInv, WorldTypes, LoopTypes, EndedJobs, Pcs, TypeOK
<1> QED
  BY <1>1, Invariance, PTL

(* run_with_deps and run_parallel start no command before the stale        *)
(* providers it depends on have succeeded, and none on an inactive one.    *)
THEOREM DependenciesRunFirst == Spec => []DependenciesFirst
PROOF
<1>1. IInv => DependenciesFirst
  BY DEF IInv, Waits
<1> QED
  BY <1>1, Invariance, PTL

(* DepsEngine::run forgets no stale provider and reports none twice.       *)
THEOREM EveryoneReported == Spec => []EveryProviderReported
PROOF
<1>1. IInv => EveryProviderReported
  <2> SUFFICES ASSUME IInv PROVE EveryProviderReported
    OBVIOUS
  <2>1. pc \in {"save", "drain"} => tr = None
    BY DEF IInv, LoopTypes
  <2> QED
    BY <2>1 DEF IInv, Reported, Apart, Accounted, Stage, AtWork, Waiting, EndedJobs,
       EveryProviderReported
<1> QED
  BY <1>1, Invariance, PTL

(* check_freshness is right about every provider whose last command is in  *)
(* the state file and whose sources were not edited while it ran.          *)
THEOREM FreshOutputsAreCurrent == Spec => []FreshIsCurrent
PROOF
<1>1. IInv => FreshIsCurrent
  <2> SUFFICES ASSUME IInv, NEW p \in Key \ (unsaved \cup raced), Fresh(p)
               PROVE  built[p] = <<src[p], cmd[p]>>
    BY DEF FreshIsCurrent
  <2>1. built[p] # Never /\ saved[p] = <<src[p], cmd[p]>> /\ Sources(p)
    BY DEF Fresh, IInv
  <2>2. saved[p] # Never
    BY <2>1, VersionAssumption DEF IInv, WorldTypes
  <2> QED
    BY <2>1, <2>2 DEF Sources
<1> QED
  BY <1>1, Invariance, PTL

=============================================================================
