-------------------------- MODULE TaskLocks_proof --------------------------
(***************************************************************************)
(* Proofs about TaskLocks, for every set of tasks, runs and locks and      *)
(* every depth of nesting: a task runs with all of its locks, its slot and *)
(* the terminal or does not run; it never waits for one of them holding    *)
(* another; it waits for locks in their order; the locks it inherits       *)
(* outlast its commands; an interactive task has the terminal alone.       *)
(*                                                                         *)
(* None of these is inductive alone. IInv adds, for each place a task can  *)
(* be at, what it holds there. IInv2 adds that whoever started a task      *)
(* waits for it: what a task has from the tasks above it, at any distance, *)
(* follows from that and from Above being well founded.                    *)
(***************************************************************************)
EXTENDS TaskLocks, TLAPS

(* Slot and terminal are there when the first try_take begins, and are not *)
(* given back by a task that took locks; the slot comes before the         *)
(* terminal.                                                               *)
SlotKept(t) ==
    /\ pc[t] \in {"try", "exec", "child"} /\ Takes[t] # {} /\ ~Covered(t) =>
           t \in permits /\ t \in terminal
    /\ pc[t] = "line" /\ Takes[t] # {} => t \in permits

(* No lock is kept outside of the loop that takes them.                    *)
NoLockYet(t) ==
    pc[t] \in {"idle", "slot", "enter", "permit", "line", "over"} => Held(t) = {}

AllTaken(t) == pc[t] \in {"got", "busy", "exec", "child"} => Takes[t] \subseteq Held(t)

NothingElse(t) == pc[t] = "wait" => t \notin permits /\ t \notin terminal

OnlyOwn(t) == Held(t) \subseteq Takes[t]

(* Locks were taken in order, by a task whose order was not refused.       *)
TakenInOrder(t) ==
    /\ \A h \in Held(t) : \A m \in Missing(t) : h < m
    /\ pc[t] \notin {"idle", "slot", "enter", "over"} => NestedOrder(t)

TaskInv(t) ==
    /\ SlotKept(t)
    /\ NoLockYet(t)
    /\ AllTaken(t)
    /\ NothingElse(t)
    /\ OnlyOwn(t)
    /\ TakenInOrder(t)

IInv == TypeOK /\ \A t \in Task : TaskInv(t)

(* What a task takes are lock files.                                       *)
LEMMA TakesType == Takes \in [Task -> SUBSET Lock]
  BY FunAssumption DEF Takes

(* Every variable has its type initially, and each step preserves it.      *)
LEMMA TypeStep == ASSUME TypeOK, [Next]_vars PROVE TypeOK'
<1> USE FunAssumption DEF TypeOK, RunState
<1>1. CASE UNCHANGED vars
  BY <1>1 DEF vars
<1>2. CASE Done
  BY <1>2 DEF Done, vars
<1>3. ASSUME NEW r \in Run, CtrlC(r) PROVE TypeOK'
  BY <1>3 DEF CtrlC
<1>4. ASSUME NEW r \in Run, Kill(r) PROVE TypeOK'
  BY <1>4 DEF Kill, DropAll, PcState
<1>5. ASSUME NEW t \in Task, Progress(t) \/ TimesOut(t) PROVE TypeOK'
  <2> RunOf[t] \in Run
    OBVIOUS
  <2>a. Join(t) => line' \in [Run -> Seq(Task)]
    BY DEF Join
  <2>1. CASE Begin(t)
    BY <2>1 DEF Begin, PcState
  <2>2. CASE AcquireSlot(t)
    <3>1. permits' \subseteq Task
      BY <2>2 DEF AcquireSlot
    <3>2. pc' \in [Task -> PcState]
      BY <2>2 DEF AcquireSlot, PcState
    <3> QED
      BY <2>2, <3>1, <3>2 DEF AcquireSlot
  <2>3. CASE Enter(t)
    <3>1. line' \in [Run -> Seq(Task)]
      BY <2>3, <2>a DEF Enter
    <3>2. CASE Refused(t)
      <4>1. permits' \subseteq Task /\ terminal' \subseteq Task
        BY <2>3, <3>2 DEF Enter, DropAll
      <4>2. holder' \in [Lock -> Task \cup {Nobody}]
        BY <2>3, <3>2 DEF Enter, DropAll
      <4>3. status' \in [Run -> RunState]
        BY <2>3, <3>2 DEF Enter, Failing
      <4>4. pc' \in [Task -> PcState]
        BY <2>3, <3>2 DEF Enter, PcState
      <4> QED
        BY <2>3, <3>1, <4>1, <4>2, <4>3, <4>4 DEF Enter
    <3>3. CASE ~Refused(t)
      <4>1. pc' \in [Task -> PcState]
        BY <2>3, <3>3 DEF Enter, PcState
      <4> QED
        BY <2>3, <3>1, <3>3, <4>1 DEF Enter
    <3> QED
      BY <3>2, <3>3
  <2>4. CASE AcquirePermit(t)
    BY <2>4 DEF AcquirePermit, Join, PcState
  <2>5. CASE Terminal(t)
    BY <2>5 DEF Terminal, PcState
  <2>6. CASE TakeNext(t)
    BY <2>6 DEF TakeNext, Missing, Takes, PcState
  <2>7. CASE GiveWay(t)
    BY <2>7 DEF GiveWay, PcState
  <2>8. CASE Interrupted(t) \/ TimesOut(t)
    <3>1. WaitFails(t)
      BY <2>8 DEF Interrupted, TimesOut
    <3>2. status' \in [Run -> RunState]
      BY <3>1 DEF WaitFails, Failing
    <3> QED
      BY <3>1, <3>2 DEF WaitFails, DropAll, PcState
  <2>9. CASE TryBoth(t)
    BY <2>9 DEF TryBoth, PcState
  <2>10. CASE Release(t)
    <3>1. line' \in [Run -> Seq(Task)]
      BY <2>10, <2>a DEF Release
    <3> QED
      BY <2>10, <3>1 DEF Release, PcState
  <2>11. CASE StartChildren(t)
    BY <2>11 DEF StartChildren, PcState
  <2>12. CASE ChildrenOver(t)
    BY <2>12 DEF ChildrenOver, PcState
  <2>13. CASE AbortWait(t)
    BY <2>13 DEF AbortWait, DropAll, PcState
  <2>14. CASE End(t)
    BY <2>14 DEF End, DropAll, Failing, PcState
  <2> QED
    BY <1>5, <2>1, <2>2, <2>3, <2>4, <2>5, <2>6, <2>7, <2>8, <2>9, <2>10, <2>11, <2>12,
       <2>13, <2>14 DEF Progress
<1> QED
  BY <1>1, <1>2, <1>3, <1>4, <1>5 DEF Next

(* A task that dropped everything and is over satisfies the invariant.     *)
LEMMA Dropped ==
  ASSUME TypeOK, NEW u \in Task, NEW T \in SUBSET Task, u \in T, DropAll(T), pc'[u] = "over"
  PROVE  TaskInv(u)'
<1>1. (Held(u) = {})'
  BY TaskAssumption DEF DropAll, Held, TypeOK
<1> QED
  BY <1>1 DEF TaskInv, SlotKept, NoLockYet, AllTaken, NothingElse, OnlyOwn, TakenInOrder

(* A task whose place and possessions did not change still satisfies it.   *)
LEMMA Untouched ==
  ASSUME NEW u \in Task, TaskInv(u), pc'[u] = pc[u],
         u \in permits' <=> u \in permits, u \in terminal' <=> u \in terminal,
         Held(u)' = Held(u)
  PROVE  TaskInv(u)'
BY DEF TaskInv, SlotKept, NoLockYet, AllTaken, NothingElse, OnlyOwn, TakenInOrder, Missing

(* Each step keeps the invariant of every task.                            *)
LEMMA TaskStep == ASSUME IInv, [Next]_vars, NEW u \in Task PROVE TaskInv(u)'
<1> USE FunAssumption, TakesType
<1>a. TypeOK /\ TaskInv(u)
  BY DEF IInv
<1>b. \A T \in SUBSET Task : u \notin T /\ DropAll(T) =>
         /\ u \in permits' <=> u \in permits
         /\ u \in terminal' <=> u \in terminal
         /\ Held(u)' = Held(u)
  BY TaskAssumption DEF DropAll, Held
<1>1. CASE UNCHANGED vars
  <2>1. Held(u)' = Held(u)
    BY <1>1 DEF vars, Held
  <2> QED
    BY <1>1, <1>a, <2>1, Untouched DEF vars
<1>2. CASE Done
  <2>1. Held(u)' = Held(u)
    BY <1>2 DEF Done, vars, Held
  <2> QED
    BY <1>2, <1>a, <2>1, Untouched DEF Done, vars
<1>3. ASSUME NEW r \in Run, CtrlC(r) PROVE TaskInv(u)'
  <2>1. Held(u)' = Held(u)
    BY <1>3 DEF CtrlC, Held
  <2> QED
    BY <1>3, <1>a, <2>1, Untouched DEF CtrlC
<1>4. ASSUME NEW r \in Run, Kill(r) PROVE TaskInv(u)'
  <2> DEFINE T == {t \in Task : RunOf[t] = r}
  <2>1. DropAll(T) /\ T \in SUBSET Task
    BY <1>4 DEF Kill
  <2>2. CASE u \in T
    <3>1. pc'[u] = "over"
      BY <1>4, <2>2 DEF Kill
    <3> QED
      BY <3>1, <2>1, <2>2, <1>a, Dropped
  <2>3. CASE u \notin T
    <3>1. pc'[u] = pc[u]
      BY <1>4, <2>3 DEF Kill
    <3> HIDE DEF T
    <3> QED
      BY <3>1, <2>1, <2>3, <1>a, <1>b, Untouched
  <2> QED
    BY <2>2, <2>3
<1>5. ASSUME NEW t \in Task, Progress(t) \/ TimesOut(t) PROVE TaskInv(u)'
  <2>a. ASSUME DropAll({t}), pc' = [pc EXCEPT ![t] = "over"] PROVE TaskInv(u)'
    <3>1. CASE u = t
      <4>1. pc'[u] = "over"
        BY <1>a, <2>a, <3>1 DEF TypeOK
      <4> QED
        BY <4>1, <3>1, <2>a, <1>a, Dropped
    <3>2. CASE u # t
      <4>1. pc'[u] = pc[u]
        BY <1>a, <2>a, <3>2 DEF TypeOK
      <4> QED
        BY <4>1, <3>2, <2>a, <1>a, <1>b, Untouched
    <3> QED
      BY <3>1, <3>2
  <2>b. ASSUME u # t, holder' = holder,
               \A x \in Task \ {t} : pc'[x] = pc[x] /\ (x \in permits' <=> x \in permits)
                                     /\ (x \in terminal' <=> x \in terminal)
        PROVE  TaskInv(u)'
    <3>1. Held(u)' = Held(u)
      BY <2>b DEF Held
    <3> QED
      BY <3>1, <2>b, <1>a, Untouched
  <2> USE DEF TaskInv, SlotKept, NoLockYet, AllTaken, NothingElse, OnlyOwn, TakenInOrder,
              Missing, Held, TypeOK
  <2>1. CASE Begin(t)
    BY <1>a, <2>1 DEF Begin, Startable
  <2>2. CASE AcquireSlot(t)
    BY <1>a, <2>2 DEF AcquireSlot
  <2>3. CASE Enter(t)
    <3>1. CASE Refused(t)
      BY <2>3, <3>1, <2>a DEF Enter
    <3>2. CASE ~Refused(t)
      BY <1>a, <2>3, <3>2 DEF Enter, Refused, Takes
    <3> QED
      BY <3>1, <3>2
  <2>4. CASE AcquirePermit(t)
    BY <1>a, <2>4 DEF AcquirePermit
  <2>5. CASE Terminal(t)
    BY <1>a, <2>5 DEF Terminal
  <2>6. CASE TakeNext(t)
    BY <1>a, <2>6, LockAssumption, TaskAssumption DEF TakeNext, IsNext
  <2>7. CASE GiveWay(t)
    BY <1>a, <2>7 DEF GiveWay
  <2>8. CASE Interrupted(t) \/ TimesOut(t)
    BY <2>8, <2>a DEF Interrupted, TimesOut, WaitFails
  <2>9. CASE TryBoth(t)
    BY <1>a, <2>9 DEF TryBoth
  <2>10. CASE Release(t)
    BY <1>a, <2>10, TaskAssumption DEF Release
  <2>11. CASE StartChildren(t)
    BY <1>a, <2>11 DEF StartChildren, Covers
  <2>12. CASE ChildrenOver(t)
    BY <1>a, <2>12 DEF ChildrenOver, Covers
  <2>13. CASE AbortWait(t)
    BY <2>13, <2>a DEF AbortWait
  <2>14. CASE End(t)
    BY <2>14, <2>a DEF End
  <2> QED
    BY <1>5, <2>1, <2>2, <2>3, <2>4, <2>5, <2>6, <2>7, <2>8, <2>9, <2>10, <2>11, <2>12,
       <2>13, <2>14 DEF Progress
<1> QED
  BY <1>1, <1>2, <1>3, <1>4, <1>5 DEF Next

(* The invariant holds in every state.                                     *)
LEMMA Invariance == Spec => []IInv
<1>1. Init => IInv
  <2> SUFFICES ASSUME Init PROVE IInv
    OBVIOUS
  <2>1. TypeOK
    BY DEF Init, TypeOK, PcState, RunState
  <2>2. ASSUME NEW t \in Task PROVE TaskInv(t)
    <3>1. Held(t) = {}
      BY TaskAssumption DEF Init, Held
    <3> QED
      BY <3>1 DEF Init, TaskInv, SlotKept, NoLockYet, AllTaken, NothingElse, OnlyOwn,
                  TakenInOrder
  <2> QED
    BY <2>1, <2>2 DEF IInv
<1>2. IInv /\ [Next]_vars => IInv'
  BY TypeStep, TaskStep DEF IInv
<1> QED
  BY <1>1, <1>2, PTL DEF Spec

(* Every variable keeps its type.                                          *)
THEOREM TypeCorrect == Spec => []TypeOK
<1>1. IInv => TypeOK
  BY DEF IInv
<1> QED
  BY <1>1, Invariance, PTL

(* A task that takes locks runs with all of them, a slot and the terminal, *)
(* whatever else runs, fails or is killed.                                 *)
THEOREM TakenTogether == Spec => []AllOrNothing
<1>1. IInv => AllOrNothing
  BY DEF IInv, AllOrNothing, TaskInv, SlotKept, AllTaken
<1> QED
  BY <1>1, Invariance, PTL

(* No task holds a lock while it waits for a slot or the terminal, nor a   *)
(* slot or the terminal while it waits for a lock.                         *)
THEOREM NeverBoth == Spec => []NoHoldAndWait
<1>1. IInv => NoHoldAndWait
  BY DEF IInv, NoHoldAndWait, TaskInv, NoLockYet, NothingElse
<1> QED
  BY <1>1, Invariance, PTL

(* Locks are waited for in one order, across nested runs.                  *)
THEOREM LockOrder == Spec => []WaitsInOrder
<1>1. IInv => WaitsInOrder
  BY DEF IInv, WaitsInOrder, TaskInv, TakenInOrder, NestedOrder, IsNext, Missing
<1> QED
  BY <1>1, Invariance, PTL

-----------------------------------------------------------------------------
(***************************************************************************)
(* The tasks above a task. Above is a least closed set; the tree           *)
(* assumption makes it well founded.                                       *)
(***************************************************************************)

(* The tasks above t are tasks, and include the starters of t and of each  *)
(* of them.                                                                *)
LEMMA AboveClosed ==
  ASSUME NEW t \in Task
  PROVE  Above[t] \subseteq Starters /\ Starters \subseteq Task /\ UpClosed(Above[t], t)
<1>1. Above[t] \subseteq Starters /\ Starters \subseteq Task
  BY DEF Above, Starters
<1>2. ASSUME NEW c \in Above[t] \cup {t}, Starter[c] # Nobody PROVE Starter[c] \in Above[t]
  <2>1. c \in Task /\ Starter[c] \in Task
    BY <1>1, <1>2, FunAssumption
  <2>2. Starter[c] \in Starters
    BY <2>1 DEF Starters, Children
  <2>3. ASSUME NEW C \in SUBSET Starters, UpClosed(C, t) PROVE Starter[c] \in C
    <3>1. c \in C \cup {t}
      BY <1>2, <2>3 DEF Above
    <3> QED
      BY <3>1, <2>3, <1>2 DEF UpClosed
  <2> QED
    BY <2>2, <2>3 DEF Above
<1> QED
  BY <1>1, <1>2 DEF UpClosed

(* It is the least such set.                                               *)
LEMMA AboveLeast ==
  ASSUME NEW t \in Task, NEW C \in SUBSET Starters, UpClosed(C, t)
  PROVE  Above[t] \subseteq C
BY DEF Above

(* What is above a task above t is above t.                                *)
LEMMA AboveTransitive ==
  ASSUME NEW t \in Task, NEW a \in Above[t] PROVE Above[a] \subseteq Above[t]
<1>1. UpClosed(Above[t], a) /\ Above[t] \in SUBSET Starters /\ a \in Task
  BY AboveClosed DEF UpClosed
<1> QED
  BY <1>1, AboveLeast

(* Above a task is its starter and what is above that, or nothing.         *)
LEMMA AboveStarter ==
  ASSUME NEW t \in Task
  PROVE  /\ Starter[t] = Nobody => Above[t] = {}
         /\ Starter[t] # Nobody => /\ Starter[t] \in Task
                                   /\ Above[t] = {Starter[t]} \cup Above[Starter[t]]
<1>1. CASE Starter[t] = Nobody
  <2>1. UpClosed({}, t)
    BY <1>1 DEF UpClosed
  <2> QED
    BY <1>1, <2>1, AboveLeast
<1>2. CASE Starter[t] # Nobody
  <2> DEFINE s == Starter[t]
             C == {s} \cup Above[s]
  <2>1. s \in Task /\ s \in Above[t]
    BY <1>2, FunAssumption, AboveClosed DEF UpClosed
  <2>2. C \subseteq Above[t]
    BY <2>1, AboveTransitive
  <2>3. C \in SUBSET Starters
    BY <2>2, AboveClosed
  <2>4. UpClosed(C, t)
    BY <2>1, AboveClosed DEF UpClosed
  <2>5. Above[t] \subseteq C
    BY <2>3, <2>4, AboveLeast
  <2> QED
    BY <1>2, <2>1, <2>2, <2>5
<1> QED
  BY <1>1, <1>2

(* Among any tasks there is one with none of them above it.                *)
LEMMA AboveWellFounded ==
  ASSUME NEW S \in SUBSET Task, S # {}
  PROVE  \E a \in S : Above[a] \cap S = {}
<1> SUFFICES ASSUME \A a \in S : Above[a] \cap S # {} PROVE FALSE
  OBVIOUS
<1> DEFINE U == {x \in Task : Above[x] \cap S # {}}
<1>1. U # {} /\ S \subseteq U
  OBVIOUS
<1>2. U \in SUBSET {x \in Task : Starter[x] # Nobody}
  BY AboveStarter
<1>3. PICK x \in U : Starter[x] \notin U
  <2> HIDE DEF U
  <2> QED
    BY <1>1, <1>2, TreeAssumption
<1>4. Starter[x] \in Task /\ Above[x] = {Starter[x]} \cup Above[Starter[x]]
  BY <1>2, AboveStarter
<1> QED
  BY <1>1, <1>3, <1>4

(* No task is above itself.                                                *)
LEMMA NotAboveItself == ASSUME NEW t \in Task PROVE t \notin Above[t]
BY AboveWellFounded, {t} \in SUBSET Task

(* A lock that is inherited was taken by a task above.                     *)
LEMMA InheritedIsTaken ==
  ASSUME NEW t \in Task, NEW l \in Inherited[t]
  PROVE  \E a \in Above[t] : l \in Takes[a]
<1> DEFINE S == {a \in Above[t] : l \in Wants[a]}
<1>1. S \in SUBSET Task /\ S # {}
  BY AboveClosed DEF Inherited
<1>2. PICK a \in S : Above[a] \cap S = {}
  <2> HIDE DEF S
  <2> QED
    BY <1>1, AboveWellFounded
<1>3. a \in Task /\ Above[a] \subseteq Above[t]
  BY <1>1, AboveTransitive
<1>4. l \notin Inherited[a]
  BY <1>2, <1>3 DEF Inherited
<1> QED
  BY <1>2, <1>3, <1>4 DEF Takes

(* A process is entered once: a task with a task of its own run above it   *)
(* was started by a run entry.                                             *)
LEMMA NoReturn ==
  ASSUME NEW t \in Task, NEW y \in Above[t], RunOf[y] = RunOf[t]
  PROVE  Injected(t)
<1> SUFFICES ASSUME ~Injected(t) PROVE FALSE
  OBVIOUS
<1> DEFINE S == {z \in {y} \cup Above[y] : RunOf[z] = RunOf[t]}
           s == Starter[t]
<1>1. y \in Task /\ S \in SUBSET Task /\ S # {}
  BY AboveClosed
<1>2. PICK z \in S : Above[z] \cap S = {}
  <2> HIDE DEF S
  <2> QED
    BY <1>1, AboveWellFounded
<1>3. z \in Task /\ Above[z] \subseteq {y} \cup Above[y]
  BY <1>1, AboveTransitive
<1>4. s \in Task /\ Above[t] = {s} \cup Above[s]
  BY AboveStarter
<1>5. ~Injected(z)
  <2> SUFFICES ASSUME Injected(z) PROVE FALSE
    OBVIOUS
  <2>1. Starter[z] \in Above[z] /\ RunOf[Starter[z]] = RunOf[t]
    BY <1>3, AboveClosed, TaskAssumption DEF Injected, UpClosed
  <2> QED
    BY <1>2, <1>3, <2>1
<1>6. Starter[z] = s
  BY <1>3, <1>5, TreeAssumption
<1>7. s \in Above[z]
  BY <1>3, <1>4, <1>6, AboveClosed, TaskAssumption DEF UpClosed
<1>8. z \in {s} \cup Above[s]
  <2>1. y \in {s} \cup Above[s]
    BY <1>4
  <2>2. Above[y] \subseteq {s} \cup Above[s]
    BY <2>1, <1>4, AboveTransitive
  <2> QED
    BY <2>1, <2>2
<1>9. s \in Above[s]
  BY <1>4, <1>7, <1>8, AboveTransitive
<1> QED
  BY <1>4, <1>9, NotAboveItself

-----------------------------------------------------------------------------
(***************************************************************************)
(* The task above waits: while a task is on its way, or may still begin,   *)
(* the task that started it is waiting for it, or the run of that one is   *)
(* being stopped.                                                          *)
(***************************************************************************)
Underway(t) == pc[t] \notin {"idle", "over"}

(* A nested run goes on until its script is told that this run is to stop. *)
StarterWaits(t) ==
    /\ Starter[t] # Nobody
    /\ Underway(t) \/ (pc[t] = "idle" /\ status[RunOf[t]] = "running" /\ Starter[t] \in entered)
    => pc[Starter[t]] = "child" \/ status[RunOf[Starter[t]]] # "running"

(* A run entry is given up only when the executor knows of a failure: a    *)
(* Ctrl-C alone does not end the wait.                                     *)
EntryWaits(t) ==
    Injected(t) /\ Underway(t) =>
        pc[Starter[t]] = "child" \/ status[RunOf[t]] \notin {"running", "cancelled"}

(* A task past run_task_sched's checks was not refused.                    *)
Allowed(t) == pc[t] \notin {"idle", "slot", "enter", "over"} => ~Refused(t)

(* Nothing is underway in a run that was killed or never took place.       *)
KilledIsOver(t) == status[RunOf[t]] = "dead" => ~Underway(t)

(* The RwLock: an interactive task has the terminal of its run alone.      *)
OneWriter ==
    \A t, u \in terminal : RunOf[t] = RunOf[u] /\ t \in Interactive => t = u

Tree(t) == StarterWaits(t) /\ EntryWaits(t) /\ Allowed(t) /\ KilledIsOver(t)

IInv2 == IInv /\ OneWriter /\ \A t \in Task : Tree(t)

(* A run that is being stopped never goes on again.                        *)
Onward(r) ==
    /\ status[r] # "running" => status'[r] # "running"
    /\ status[r] \notin {"running", "cancelled"} => status'[r] \notin {"running", "cancelled"}

(* No step resumes a run.                                                  *)
LEMMA StatusOnward ==
  ASSUME TypeOK, [Next]_vars, NEW r \in Run
  PROVE  Onward(r)
<1> USE FunAssumption DEF TypeOK, RunState, Onward
<1>1. CASE UNCHANGED status
  BY <1>1
<1>2. ASSUME NEW q \in Run, Failing(q) PROVE Onward(r)
  BY <1>2 DEF Failing
<1>3. ASSUME NEW q \in Run, CtrlC(q) PROVE Onward(r)
  BY <1>3 DEF CtrlC
<1>4. ASSUME NEW q \in Run, Kill(q) PROVE Onward(r)
  BY <1>4 DEF Kill
<1>5. ASSUME NEW t \in Task, Progress(t) \/ TimesOut(t)
      PROVE  UNCHANGED status \/ Failing(RunOf[t])
  BY <1>5 DEF Progress, TimesOut, Interrupted, WaitFails, Begin, AcquireSlot, Enter,
              AcquirePermit, Terminal, TakeNext, GiveWay, TryBoth, Release, StartChildren,
              ChildrenOver, AbortWait, End
<1> QED
  BY <1>1, <1>2, <1>3, <1>4, <1>5 DEF Next, Done, vars

(* What a task waits for is unchanged by a step that lets it and its       *)
(* starter be.                                                             *)
LEMMA StillWaits ==
  ASSUME TypeOK, [Next]_vars, NEW c \in Task, Tree(c),
         Underway(c)' => Underway(c),
         pc'[c] = "idle" => pc[c] = "idle",
         Starter[c] \in entered' => Starter[c] \in entered,
         pc[Starter[c]] = "child" => pc'[Starter[c]] = "child"
  PROVE  StarterWaits(c)' /\ EntryWaits(c)'
<1>1. Starter[c] # Nobody => Starter[c] \in Task
  BY FunAssumption
<1>2. \A r \in Run : Onward(r)
  BY StatusOnward
<1>3. RunOf[c] \in Run /\ (Starter[c] # Nobody => RunOf[Starter[c]] \in Run)
  BY <1>1, FunAssumption
<1>4. StarterWaits(c)'
  BY <1>1, <1>2, <1>3 DEF StarterWaits, Tree, Onward
<1>5. EntryWaits(c)'
  <2> SUFFICES ASSUME Injected(c), Underway(c)'
               PROVE  \/ pc'[Starter[c]] = "child"
                      \/ status'[RunOf[c]] \notin {"running", "cancelled"}
    BY DEF EntryWaits, Injected
  <2> QED
    BY <1>2, <1>3 DEF EntryWaits, Tree, Onward
<1> QED
  BY <1>4, <1>5


(* Nothing starts in a killed run.                                         *)
LEMMA KilledStep == ASSUME IInv2, [Next]_vars, NEW c \in Task PROVE KilledIsOver(c)'
<1> USE FunAssumption DEF KilledIsOver, Underway
<1> DEFINE r == RunOf[c]
<1>a. TypeOK /\ KilledIsOver(c) /\ r \in Run
  BY DEF IInv2, IInv, Tree
<1>1. CASE UNCHANGED <<pc, status>>
  BY <1>1, <1>a
<1>2. ASSUME NEW q \in Run, CtrlC(q) PROVE KilledIsOver(c)'
  BY <1>2, <1>a DEF CtrlC, TypeOK
<1>3. ASSUME NEW q \in Run, Kill(q) PROVE KilledIsOver(c)'
  BY <1>3, <1>a DEF Kill, TypeOK
<1>4. ASSUME NEW t \in Task, Progress(t) \/ TimesOut(t) PROVE KilledIsOver(c)'
  <2>1. UNCHANGED status \/ Failing(RunOf[t])
    BY <1>4 DEF Progress, TimesOut, Interrupted, WaitFails, Begin, AcquireSlot, Enter,
              AcquirePermit, Terminal, TakeNext, GiveWay, TryBoth, Release, StartChildren,
              ChildrenOver, AbortWait, End
  <2>2. status'[r] = "dead" => status[r] = "dead"
    BY <2>1, <1>a DEF Failing, TypeOK
  <2>3. pc'[c] = pc[c] \/ (t = c /\ (Underway(t) \/ status[r] = "running"))
    BY <1>4, <1>a DEF Progress, TimesOut, Interrupted, WaitFails, Begin, Startable, AcquireSlot,
              Enter, AcquirePermit, Terminal, TakeNext, GiveWay, TryBoth, Release,
              StartChildren, ChildrenOver, AbortWait, End, TypeOK
  <2> QED
    BY <2>2, <2>3, <1>a
<1> QED
  BY <1>1, <1>2, <1>3, <1>4 DEF Next, Done, vars

(* Each step keeps the starter of a task waiting, and starts none that was *)
(* refused.                                                                *)
LEMMA TreeStep == ASSUME IInv2, [Next]_vars, NEW c \in Task PROVE Tree(c)'
<1> USE FunAssumption, KilledStep
<1> DEFINE s == Starter[c]
           Waits == StarterWaits(c)' /\ EntryWaits(c)'
<1>a. TypeOK /\ Tree(c)
  BY DEF IInv2, IInv
<1>b. Starter[c] # Nobody => Starter[c] \in Task
  OBVIOUS
<1>c. \A r \in Run : Onward(r)
  BY <1>a, StatusOnward
<1>1. CASE UNCHANGED <<pc, entered>>
  <2>1. Allowed(c)'
    BY <1>1, <1>a DEF Tree, Allowed
  <2>2. Underway(c)' => Underway(c)
    BY <1>1 DEF Underway
  <2>3. Waits
    BY <1>1, <1>a, <2>2, StillWaits
  <2> QED
    BY <2>1, <2>3 DEF Tree
<1>2. ASSUME NEW r \in Run, Kill(r) PROVE Tree(c)'
  <2>1. \A x \in Task : pc'[x] = IF RunOf[x] = r THEN "over" ELSE pc[x]
    BY <1>2 DEF Kill
  <2>2. status'[r] = "dead" /\ entered' = entered
    BY <1>2, <1>a DEF Kill, TypeOK
  <2>3. Allowed(c)'
    BY <2>1, <1>a DEF Tree, Allowed
  <2>4. CASE Starter[c] \in Task /\ RunOf[s] = r
    <3>1. StarterWaits(c)'
      BY <2>2, <2>4 DEF StarterWaits
    <3>2. EntryWaits(c)'
      BY <2>2, <2>4 DEF EntryWaits, Injected
    <3> QED
      BY <2>3, <3>1, <3>2 DEF Tree
  <2>5. CASE ~(Starter[c] \in Task /\ RunOf[s] = r)
    <3>1. CASE Starter[c] = Nobody
      BY <3>1, <2>3, TaskAssumption DEF Tree, StarterWaits, EntryWaits, Injected
    <3>2. CASE Starter[c] # Nobody
      <4>1. pc'[s] = pc[s] /\ (Underway(c)' => Underway(c)) /\ (pc'[c] = "idle" => pc[c] = "idle")
        BY <2>1, <2>5, <3>2, <1>b DEF Underway
      <4>2. Waits
        BY <4>1, <2>2, <1>a, StillWaits
      <4> QED
        BY <4>2, <2>3 DEF Tree
    <3> QED
      BY <3>1, <3>2
  <2> QED
    BY <2>4, <2>5
<1>3. ASSUME NEW t \in Task, Progress(t) \/ TimesOut(t) PROVE Tree(c)'
  <2>a. ASSUME \A x \in Task \ {t} : pc'[x] = pc[x],
               Underway(t) \/ pc'[t] = "over", pc'[t] # "idle",
               pc[t] # "child", entered' = entered
        PROVE  Waits
    <3>1. Starter[c] # Nobody => (pc[s] = "child" => pc'[s] = "child")
      BY <2>a, <1>b
    <3>2. (Underway(c)' => Underway(c)) /\ (pc'[c] = "idle" => pc[c] = "idle")
      BY <2>a DEF Underway
    <3>3. CASE Starter[c] = Nobody
      BY <3>3, TaskAssumption DEF StarterWaits, EntryWaits, Injected
    <3>4. CASE Starter[c] # Nobody
      BY <3>1, <3>2, <3>4, <2>a, <1>a, StillWaits
    <3> QED
      BY <3>3, <3>4
  <2>b. \A x \in Task : x # t => pc'[x] = pc[x]
    BY <1>3, <1>a DEF Progress, TimesOut, Interrupted, WaitFails, Begin, AcquireSlot, Enter,
              AcquirePermit, Terminal, TakeNext, GiveWay, TryBoth, Release, StartChildren,
              ChildrenOver, AbortWait, End, TypeOK
  <2>c. Allowed(c)'
    <3>1. CASE c # t
      BY <3>1, <2>b, <1>a DEF Tree, Allowed
    <3>2. CASE c = t
      BY <1>3, <1>a, <3>2 DEF Progress, TimesOut, Interrupted, WaitFails, Begin, AcquireSlot,
              Enter, AcquirePermit, Terminal, TakeNext, GiveWay, TryBoth, Release,
              StartChildren, ChildrenOver, AbortWait, End, TypeOK, Tree, Allowed
    <3> QED
      BY <3>1, <3>2
  <2>1. CASE Begin(t)
    <3>1. pc[t] = "idle" /\ status[RunOf[t]] = "running" /\ pc'[t] \in {"slot", "enter"}
          /\ UNCHANGED <<entered, status>>
      BY <2>1, <1>a DEF Begin, Startable, TypeOK
    <3>2. CASE c # t
      <4>1. CASE Starter[c] = Nobody
        BY <4>1, <2>c, TaskAssumption DEF Tree, StarterWaits, EntryWaits, Injected
      <4>2. CASE Starter[c] # Nobody
        <5>1. pc[s] = "child" => pc'[s] = "child"
          BY <3>1, <4>2, <2>b, <1>b
        <5>2. (Underway(c)' => Underway(c)) /\ (pc'[c] = "idle" => pc[c] = "idle")
          BY <3>2, <2>b DEF Underway
        <5>3. Waits
          BY <5>1, <5>2, <3>1, <1>a, StillWaits
        <5> QED
          BY <5>3, <2>c DEF Tree
      <4> QED
        BY <4>1, <4>2
    <3>3. CASE c = t
      <4>1. CASE Injected(c)
        <5>1. pc[s] = "child" /\ s # t
          BY <2>1, <3>1, <3>3, <4>1, TaskAssumption DEF Begin, Startable, Injected
        <5>2. pc'[s] = "child"
          BY <5>1, <4>1, <2>b DEF Injected
        <5> QED
          BY <5>2, <2>c DEF Tree, StarterWaits, EntryWaits
      <4>2. CASE ~Injected(c)
        <5>1. EntryWaits(c)'
          BY <4>2 DEF EntryWaits, Injected
        <5>2. CASE Starter[c] = Nobody
          BY <5>1, <5>2, <2>c DEF Tree, StarterWaits
        <5>3. CASE Starter[c] # Nobody
          <6>1. s \in entered /\ s \in Task
            BY <2>1, <3>3, <4>2, <5>3, <1>b DEF Begin, Startable
          <6>2. pc[s] = "child" \/ status[RunOf[s]] # "running"
            BY <6>1, <5>3, <3>1, <3>3, <1>a DEF Tree, StarterWaits
          <6>3. pc'[s] = "child" \/ status'[RunOf[s]] # "running"
            BY <6>1, <6>2, <3>1, <2>b
          <6> QED
            BY <6>3, <5>1, <2>c DEF Tree, StarterWaits
        <5> QED
          BY <5>2, <5>3
      <4> QED
        BY <4>1, <4>2
    <3> QED
      BY <3>2, <3>3
  <2>2. CASE StartChildren(t)
    <3>1. pc[t] = "exec" /\ pc'[t] = "child" /\ entered' = entered \cup {t} /\ t \notin entered
      BY <2>2, <1>a DEF StartChildren, TypeOK
    <3>2. CASE Starter[c] = t
      BY <3>1, <3>2, <2>c DEF Tree, StarterWaits, EntryWaits
    <3>3. CASE Starter[c] # t
      <4>1. CASE Starter[c] = Nobody
        BY <4>1, <2>c, TaskAssumption DEF Tree, StarterWaits, EntryWaits, Injected
      <4>2. CASE Starter[c] # Nobody
        <5>1. pc'[s] = pc[s]
          BY <3>3, <4>2, <2>b, <1>b
        <5>2. (Underway(c)' => Underway(c)) /\ (pc'[c] = "idle" => pc[c] = "idle")
          BY <3>1, <2>b DEF Underway
        <5>3. s \in entered' => s \in entered
          BY <3>1, <3>3
        <5>4. Waits
          BY <5>1, <5>2, <5>3, <1>a, StillWaits
        <5> QED
          BY <5>4, <2>c DEF Tree
      <4> QED
        BY <4>1, <4>2
    <3> QED
      BY <3>2, <3>3
  <2>3. CASE ChildrenOver(t) \/ AbortWait(t)
    <3>1. pc[t] = "child" /\ UNCHANGED <<entered, status>> /\ pc'[t] # "idle"
      BY <2>3, <1>a DEF ChildrenOver, AbortWait, TypeOK
    <3>2. (Underway(c)' => Underway(c)) /\ (pc'[c] = "idle" => pc[c] = "idle")
      BY <3>1, <2>b DEF Underway
    <3>3. CASE Starter[c] = t /\ ChildrenOver(t)
      <4>1. Settled(c)
        BY <3>3 DEF ChildrenOver, Children
      <4>2. c # t
        BY <4>1, <3>1 DEF Settled
      <4>3. ~Underway(c)' /\ ~(pc'[c] = "idle" /\ status'[RunOf[c]] = "running")
        BY <4>1, <4>2, <3>1, <2>b DEF Settled, Underway
      <4> QED
        BY <4>3, <2>c DEF Tree, StarterWaits, EntryWaits
    <3>4. CASE Starter[c] = t /\ AbortWait(t)
      <4>1. status'[RunOf[t]] \notin {"running", "cancelled"}
        BY <3>1, <3>4 DEF AbortWait
      <4> QED
        BY <4>1, <3>4, <2>c DEF Tree, StarterWaits, EntryWaits, Injected
    <3>5. CASE Starter[c] # t
      <4>1. CASE Starter[c] = Nobody
        BY <4>1, <2>c, TaskAssumption DEF Tree, StarterWaits, EntryWaits, Injected
      <4>2. CASE Starter[c] # Nobody
        <5>1. pc'[s] = pc[s]
          BY <3>5, <4>2, <2>b, <1>b
        <5>2. Waits
          BY <5>1, <3>1, <3>2, <1>a, StillWaits
        <5> QED
          BY <5>2, <2>c DEF Tree
      <4> QED
        BY <4>1, <4>2
    <3> QED
      BY <2>3, <3>3, <3>4, <3>5
  <2>4. CASE \/ AcquireSlot(t) \/ Enter(t) \/ AcquirePermit(t) \/ Terminal(t)
             \/ TakeNext(t) \/ GiveWay(t) \/ Interrupted(t) \/ TryBoth(t) \/ Release(t)
             \/ End(t) \/ TimesOut(t)
    <3>1. pc[t] \notin {"idle", "over", "child"} /\ pc'[t] # "idle" /\ entered' = entered
      BY <2>4, <1>a DEF TimesOut, Interrupted, WaitFails, AcquireSlot, Enter,
              AcquirePermit, Terminal, TakeNext, GiveWay, TryBoth, Release, End, TypeOK
    <3> QED
      BY <3>1, <2>a, <2>b, <2>c DEF Tree, Underway
  <2> QED
    BY <1>3, <2>1, <2>2, <2>3, <2>4 DEF Progress
<1> QED
  BY <1>1, <1>2, <1>3 DEF Next, CtrlC, Done, vars

(* Each step keeps the terminal of a run to its writer.                    *)
LEMMA WriterStep == ASSUME IInv2, [Next]_vars PROVE OneWriter'
<1> USE FunAssumption
<1>a. TypeOK /\ OneWriter
  BY DEF IInv2, IInv
<1>1. CASE terminal' \subseteq terminal
  BY <1>1, <1>a DEF OneWriter
<1>2. ASSUME NEW t \in Task, Admits(t), terminal' = terminal \cup {t} PROVE OneWriter'
  BY <1>2, <1>a DEF OneWriter, Admits
<1>3. ASSUME NEW t \in Task, Progress(t) \/ TimesOut(t)
      PROVE  terminal' \subseteq terminal \/ (Admits(t) /\ terminal' = terminal \cup {t})
  BY <1>3 DEF Progress, TimesOut, Interrupted, WaitFails, Begin, AcquireSlot, Enter,
              AcquirePermit, Terminal, TakeNext, GiveWay, TryBoth, Release, StartChildren,
              ChildrenOver, AbortWait, End, DropAll
<1> QED
  BY <1>1, <1>2, <1>3 DEF Next, CtrlC, Kill, DropAll, Done, vars

(* The stronger invariant holds in every state.                            *)
LEMMA Invariance2 == Spec => []IInv2
<1>1. Init /\ IInv => IInv2
  BY DEF Init, IInv2, OneWriter, Tree, StarterWaits, EntryWaits, Underway, Allowed,
              KilledIsOver
<1>2. IInv' /\ IInv2 /\ [Next]_vars => IInv2'
  BY TreeStep, WriterStep DEF IInv2
<1> QED
  BY <1>1, <1>2, Invariance, PTL DEF Spec


(* Under runs that go on, every task above one underway is waiting.        *)
LEMMA AllAboveWait ==
  ASSUME IInv2, NEW t \in Task, Underway(t),
         \A a \in Above[t] : status[RunOf[a]] = "running"
  PROVE  \A a \in Above[t] : pc[a] = "child"
<1> DEFINE C == {a \in Above[t] : pc[a] = "child"}
<1>1. C \in SUBSET Starters /\ Above[t] \subseteq Task
  BY AboveClosed
<1>2. ASSUME NEW c \in C \cup {t}, Starter[c] # Nobody PROVE Starter[c] \in C
  <2>1. c \in Task /\ Underway(c)
    BY <1>1, <1>2 DEF Underway
  <2>2. Starter[c] \in Above[t]
    BY <1>2, AboveClosed DEF UpClosed
  <2>3. pc[Starter[c]] = "child"
    BY <1>2, <2>1, <2>2 DEF IInv2, Tree, StarterWaits
  <2> QED
    BY <2>2, <2>3
<1>3. Above[t] \subseteq C
  <2>1. UpClosed(C, t)
    BY <1>2 DEF UpClosed
  <2> HIDE DEF C
  <2> QED
    BY <1>1, <2>1, AboveLeast
<1> QED
  BY <1>3

(* In a run whose executor knows of no failure, every task above one       *)
(* underway in the same run is waiting.                                    *)
LEMMA EntriesAboveWait ==
  ASSUME IInv2, NEW t \in Task, Underway(t), status[RunOf[t]] \in {"running", "cancelled"}
  PROVE  \A a \in Above[t] : RunOf[a] = RunOf[t] => pc[a] = "child"
<1> DEFINE r == RunOf[t]
           In == {a \in Above[t] : RunOf[a] = r /\ pc[a] = "child"}
           Out == {a \in Above[t] : \A y \in {a} \cup Above[a] : RunOf[y] # r}
           C == In \cup Out
<1>1. C \in SUBSET Starters /\ Above[t] \subseteq Task
  BY AboveClosed
<1>2. ASSUME NEW c \in C \cup {t}, Starter[c] # Nobody PROVE Starter[c] \in C
  <2> DEFINE s == Starter[c]
  <2>1. c \in Task /\ s \in Task /\ Above[c] = {s} \cup Above[s]
    BY <1>1, <1>2, AboveStarter
  <2>2. s \in Above[t]
    BY <1>2, AboveClosed DEF UpClosed
  <2>3. CASE c \in Out
    BY <2>1, <2>2, <2>3
  <2>4. CASE c \in In \cup {t} /\ \A y \in Above[c] : RunOf[y] # r
    BY <2>1, <2>2, <2>4
  <2>5. CASE c \in In \cup {t} /\ \E y \in Above[c] : RunOf[y] = r
    <3>1. RunOf[c] = r /\ Underway(c)
      BY <2>5 DEF Underway
    <3>2. Injected(c)
      BY <2>1, <2>5, <3>1, NoReturn
    <3>3. pc[s] = "child"
      BY <2>1, <3>1, <3>2 DEF IInv2, Tree, EntryWaits
    <3> QED
      BY <2>2, <3>1, <3>2, <3>3 DEF Injected
  <2> QED
    BY <1>2, <2>3, <2>4, <2>5
<1>3. Above[t] \subseteq C
  <2>1. UpClosed(C, t)
    BY <1>2 DEF UpClosed
  <2> HIDE DEF C
  <2> QED
    BY <1>1, <2>1, AboveLeast
<1> QED
  BY <1>3

(* While the commands of a task run, its locks are held by itself or by a  *)
(* task above it, however deep the runs are nested, unless one of those is *)
(* being stopped.                                                          *)
THEOREM LocksOutlastCommands == Spec => []LockedWhileRunning
<1>1. IInv2 => LockedWhileRunning
  <2> SUFFICES ASSUME IInv2, NEW t \in Task, pc[t] = "exec", NEW l \in Wants[t],
                      \A a \in Above[t] : status[RunOf[a]] = "running"
               PROVE  holder[l] \in {t} \cup Above[t]
    BY DEF LockedWhileRunning
  <2>1. \A u \in Task : AllTaken(u)
    BY DEF IInv2, IInv, TaskInv
  <2>2. CASE l \in Takes[t]
    BY <2>1, <2>2 DEF AllTaken, Held
  <2>3. CASE l \notin Takes[t]
    <3>1. l \in Inherited[t]
      BY <2>3 DEF Takes
    <3>2. PICK a \in Above[t] : l \in Takes[a]
      BY <3>1, InheritedIsTaken
    <3>3. a \in Task /\ pc[a] = "child"
      BY AllAboveWait, AboveClosed DEF Underway
    <3> QED
      BY <2>1, <3>2, <3>3 DEF AllTaken, Held
  <2> QED
    BY <2>2, <2>3
<1> QED
  BY <1>1, Invariance2, PTL

(* A covered task has a roof that is not covered itself.                   *)
LEMMA Outermost ==
  ASSUME NEW t \in Task, Covered(t)
  PROVE  \E a \in Roofs(t) : a \in Task /\ ~Covered(a)
<1>1. Roofs(t) \in SUBSET Task /\ Roofs(t) # {}
  BY AboveClosed DEF Roofs, Covered
<1>2. PICK a \in Roofs(t) : Above[a] \cap Roofs(t) = {}
  BY <1>1, AboveWellFounded
<1>3. Roofs(a) \subseteq Roofs(t)
  BY <1>2, AboveTransitive DEF Roofs
<1>4. Roofs(a) = {}
  BY <1>2, <1>3 DEF Roofs
<1> QED
  BY <1>1, <1>2, <1>4 DEF Covered

(* The terminal behind a command: it is held by the task itself, or by the *)
(* outermost locked task above it.                                         *)
LEMMA BehindCommand ==
  ASSUME IInv2, NEW t \in Task, Commands(t),
         Covered(t) => status[RunOf[t]] \in {"running", "cancelled"},
         NEW a \in Task, IF Covered(t) THEN a \in Roofs(t) /\ ~Covered(a) ELSE a = t
  PROVE  a \in terminal /\ RunOf[a] = RunOf[t] /\ (Covered(t) => pc[a] = "child")
<1>1. CASE ~Covered(t)
  BY <1>1 DEF Commands
<1>2. CASE Covered(t)
  <2>1. a \in Above[t] /\ RunOf[a] = RunOf[t] /\ Takes[a] # {} /\ ~Covered(a)
    BY <1>2 DEF Roofs
  <2>2. pc[a] = "child"
    BY <1>2, <2>1, EntriesAboveWait DEF Commands, Underway
  <2>3. SlotKept(a)
    BY DEF IInv2, IInv, TaskInv
  <2> QED
    BY <2>1, <2>2, <2>3 DEF SlotKept
<1> QED
  BY <1>1, <1>2

(* An interactive task has its terminal to itself, in every interleaving   *)
(* of the tasks of its run, but for those under one lock with it and those *)
(* a stopping run has left behind.                                         *)
THEOREM InteractiveAlone == Spec => []TerminalAlone
<1>1. IInv2 => TerminalAlone
  <2> SUFFICES ASSUME IInv2, NEW t \in Interactive, NEW u \in Task \ {t},
                      Commands(t), Commands(u), RunOf[t] = RunOf[u],
                      Roofs(t) \cap Roofs(u) = {},
                      Covered(t) \/ Covered(u) =>
                          status[RunOf[t]] \notin {"failing", "interrupted"}
               PROVE  FALSE
    BY DEF TerminalAlone
  <2>a. t \in Task /\ RunOf[t] \in Run
    BY FunAssumption
  <2>b. Covered(t) \/ Covered(u) => status[RunOf[t]] \in {"running", "cancelled"}
    <3>1. KilledIsOver(t) /\ status \in [Run -> RunState]
      BY <2>a DEF IInv2, IInv, TypeOK, Tree
    <3> QED
      BY <3>1, <2>a DEF KilledIsOver, Underway, Commands, RunState
  <2>1. PICK a \in Task : /\ a \in Interactive
                          /\ IF Covered(t) THEN a \in Roofs(t) /\ ~Covered(a) ELSE a = t
    <3>1. CASE Covered(t)
      <4>1. ~Refused(t)
        BY <2>a DEF IInv2, Tree, Allowed, Commands
      <4>2. Exclusive(t)
        BY <3>1, <4>1 DEF Refused
      <4> QED
        BY <3>1, <4>2, <2>a, AboveClosed DEF Exclusive, Roofs
    <3>2. CASE ~Covered(t)
      BY <3>2, <2>a
    <3> QED
      BY <3>1, <3>2
  <2>2. PICK b \in Task : IF Covered(u) THEN b \in Roofs(u) /\ ~Covered(b) ELSE b = u
    BY Outermost
  <2>3. a \in terminal /\ RunOf[a] = RunOf[t] /\ (Covered(t) => pc[a] = "child")
    BY <2>1, <2>a, <2>b, BehindCommand
  <2>4. b \in terminal /\ RunOf[b] = RunOf[t] /\ (Covered(u) => pc[b] = "child")
    BY <2>2, <2>b, BehindCommand
  <2>5. a = b
    BY <2>1, <2>3, <2>4 DEF IInv2, OneWriter
  <2>6. pc[t] = "exec" /\ pc[u] = "exec"
    BY DEF Commands
  <2> QED
    BY <2>1, <2>2, <2>3, <2>4, <2>5, <2>6
<1> QED
  BY <1>1, Invariance2, PTL

=============================================================================
