----------------------------- MODULE TaskLocks -----------------------------
(***************************************************************************)
(* The lock files of tasks (src/task/task_lock.rs) and how a task takes    *)
(* them together with its --jobs slot and the terminal (run_task_sched and *)
(* exec_task_run_entries of src/task/task_executor.rs).                    *)
(*                                                                         *)
(* Several `mise run` processes share the lock files of a machine. Each    *)
(* has its own semaphore of slots and its own terminal RwLock, which an    *)
(* interactive task writes and any other reads. A task starts others in    *)
(* its own run ({ task = ... } entries: injected) or in a nested `mise     *)
(* run` of one of its scripts, a run of its own.                           *)
(*                                                                         *)
(* Lock files are numbered in the order of their ids. Dry runs, which take *)
(* no lock, secrets prompts and confirmations are left out.                *)
(***************************************************************************)
EXTENDS Integers, FiniteSets, Sequences

CONSTANTS
    Task,
    Run,
    Nobody,
    Lock,           \* the lock files
    RunOf,          \* the run of each task
    Starter,        \* the task that starts it, or Nobody
    Wants,          \* its `lock`, as requested() returns it
    Interactive,    \* the interactive tasks
    Script,         \* the tasks with a script of their own (task_needs_permit)
    Jobs,           \* --jobs of each run
    Launches,       \* sets of runs that take place together, nested ones included
    Events          \* what may go wrong

ASSUME TaskAssumption == IsFiniteSet(Task) /\ Nobody \notin Task
ASSUME LockAssumption == Lock \subseteq Int
ASSUME FunAssumption ==
    /\ RunOf \in [Task -> Run]
    /\ Starter \in [Task -> Task \cup {Nobody}]
    /\ Wants \in [Task -> SUBSET Lock]
    /\ Interactive \subseteq Task /\ Script \subseteq Task
ASSUME JobsAssumption == Jobs \in [Run -> Nat \ {0}]
ASSUME LaunchAssumption == Launches \subseteq SUBSET Run
ASSUME EventsAssumption == Events \subseteq {"fail", "ctrl-c", "kill", "timeout"}

Children(t) == {c \in Task : Starter[c] = t}

(* A task started by a run entry, not by a nested `mise run`.              *)
Injected(t) == Starter[t] \in Task /\ RunOf[Starter[t]] = RunOf[t]

(* A task starts others by run entries or from scripts, in this model not  *)
(* both; nothing starts itself; a nested run is a process of its own.      *)
ASSUME TreeAssumption ==
    /\ \A c, d \in Task : Starter[c] \in Task /\ Starter[c] = Starter[d] =>
                              (Injected(c) <=> Injected(d))
    /\ \A S \in SUBSET {t \in Task : Starter[t] # Nobody} :
           S # {} => \E t \in S : Starter[t] \notin S
    /\ \A c, d \in Task : ~Injected(c) /\ RunOf[c] = RunOf[d] /\ ~Injected(d) =>
                              Starter[c] = Starter[d]

Starters == {t \in Task : Children(t) # {}}

(* C has the starter of t and of each of its own members.                  *)
UpClosed(C, t) == \A c \in C \cup {t} : Starter[c] # Nobody => Starter[c] \in C

(* The tasks that t runs under: its starter, the starter of that, ...      *)
Above ==
    [t \in Task |->
        {a \in Starters : \A C \in SUBSET Starters : UpClosed(C, t) => a \in C}]

(* Mutant: the locks of every task of the run are inherited.               *)
InheritedFromRun ==
    [t \in Task |-> UNION {Wants[a] : a \in Above[t] \cup
                              {u \in Task \ {t} : RunOf[u] = RunOf[t]}}]

(* inherited: MISE_TASK_LOCKS, to which each task above added its locks    *)
(* (exported). The others are to_take.                                     *)
Inherited == [t \in Task |-> UNION {Wants[a] : a \in Above[t]}]
Takes == [t \in Task |-> Wants[t] \ Inherited[t]]

(* Cover: a task in the run of a task above it that took locks has that    *)
(* one's slot and terminal, so takes neither.                              *)
Roofs(t) == {a \in Above[t] : RunOf[a] = RunOf[t] /\ Takes[a] # {}}
Covered(t) == Roofs(t) # {}
Covers(t) == Covered(t) \/ Takes[t] # {}

(* Cover::Exclusive: the outermost of these is interactive.                *)
Exclusive(t) == \E a \in Roofs(t) : ~Covered(a) /\ a \in Interactive

(* Mutant: the order is not checked.                                       *)
AnyOrder(t) == TRUE

(* check_nested_order.                                                     *)
NestedOrder(t) == \A l \in Takes[t] : \A h \in Inherited[t] : h < l

Refused(t) ==
    \/ t \in Interactive /\ Covered(t) /\ ~Exclusive(t)
    \/ ~NestedOrder(t)

VARIABLES
    pc,         \* pc[t]: how far t has come
    permits,    \* the tasks that hold a slot of their run
    terminal,   \* the tasks that hold the terminal of their run
    line,       \* line[r]: the tasks waiting for the terminal of r, in order
    holder,     \* holder[l]: the task that has lock file l locked
    entered,    \* the tasks that started their children
    status      \* status[r]: whether the run goes on, see RunState

vars == <<pc, permits, terminal, line, holder, entered, status>>

(***************************************************************************)
(* A task is "idle"; its spawn future waits for a "slot"; its job is at    *)
(* "enter"; it waits for a "permit" or in "line" for the terminal; it is   *)
(* in the first try_take ("try"), in LockAcquisition::wait ("wait"), has   *)
(* "got" its locks, found slot or terminal "busy"; its commands run        *)
(* ("exec"), or the tasks it started ("child"); it is "over".              *)
(***************************************************************************)
PcState == {"idle", "slot", "enter", "permit", "line", "try", "wait", "got", "busy", "exec",
            "child", "over"}

Init ==
    /\ pc = [t \in Task |-> "idle"]
    /\ permits = {}
    /\ terminal = {}
    /\ line = [r \in Run |-> <<>>]
    /\ holder = [l \in Lock |-> Nobody]
    /\ entered = {}
    /\ \E L \in Launches : status = [r \in Run |-> IF r \in L THEN "running" ELSE "dead"]

FreeSlot(r) == Cardinality({t \in permits : RunOf[t] = r}) < Jobs[r]

(* Mutant: readers do not wait for a writer.                               *)
AdmitsReaders(t) ==
    \A u \in terminal : RunOf[u] = RunOf[t] => t \notin Interactive

(* The RwLock admits t: a writer alone, readers together.                  *)
Admits(t) ==
    \A u \in terminal : RunOf[u] = RunOf[t] => t \notin Interactive /\ u \notin Interactive

Held(t) == {l \in Lock : holder[l] = t}
Missing(t) == Takes[t] \ Held(t)

(* The next lock in sorted order.                                          *)
IsNext(l, t) == l \in Missing(t) /\ \A k \in Missing(t) : l <= k

Blocked(t) == \E l \in Missing(t) : IsNext(l, t) /\ holder[l] # Nobody

(* Everything a task holds is dropped, the holder records with the locks.  *)
DropAll(T) ==
    /\ permits' = permits \ T
    /\ terminal' = terminal \ T
    /\ holder' = [l \in Lock |-> IF holder[l] \in T THEN Nobody ELSE holder[l]]

Join(t) == line' = [line EXCEPT ![RunOf[t]] = Append(@, t)]

(* A run is "failing" when its executor knows of a task that failed or     *)
(* died by SIGINT, "cancelled" by a Ctrl-C that the executor has not been  *)
(* told of, "interrupted" when both happened, "dead" when it was killed or *)
(* does not take place at all.                                             *)
RunState == {"running", "failing", "cancelled", "interrupted", "dead"}

(* A task of r fails or dies by SIGINT: the executor is told.              *)
Failing(r) ==
    status' = [status EXCEPT ![r] = IF @ = "running" THEN "failing"
                                    ELSE IF @ = "cancelled" THEN "interrupted" ELSE @]

-----------------------------------------------------------------------------
(* The scheduler starts a task: at once, when its parent's run entry       *)
(* injected it, or in the nested run that its parent's script started.     *)
Startable(t) ==
    /\ pc[t] = "idle"
    /\ status[RunOf[t]] = "running"
    /\ \/ Starter[t] = Nobody
       \/ Injected(t) /\ pc[Starter[t]] = "child"
       \/ ~Injected(t) /\ Starter[t] \in entered

Begin(t) ==
    /\ Startable(t)
    /\ pc' = [pc EXCEPT ![t] = IF t \in Script /\ ~Covered(t) THEN "slot" ELSE "enter"]
    /\ UNCHANGED <<permits, terminal, line, holder, entered, status>>

AcquireSlot(t) ==
    /\ pc[t] = "slot"
    /\ FreeSlot(RunOf[t])
    /\ IF status[RunOf[t]] = "running"
         THEN /\ permits' = permits \cup {t}
              /\ pc' = [pc EXCEPT ![t] = "enter"]
         ELSE /\ pc' = [pc EXCEPT ![t] = "over"]
              /\ UNCHANGED permits
    /\ UNCHANGED <<terminal, line, holder, entered, status>>

(* run_task_sched up to the first wait: a task refused fails. A covered    *)
(* task waits for nothing but locks; a locked one without a slot needs one.*)
Enter(t) ==
    /\ pc[t] = "enter"
    /\ IF Refused(t)
         THEN /\ pc' = [pc EXCEPT ![t] = "over"]
              /\ DropAll({t})
              /\ Failing(RunOf[t])
              /\ UNCHANGED line
         ELSE /\ IF Covered(t)
                   THEN /\ pc' = [pc EXCEPT ![t] = IF Takes[t] = {} THEN "exec" ELSE "try"]
                        /\ UNCHANGED line
                   ELSE IF Wants[t] # {} /\ t \notin permits
                          THEN pc' = [pc EXCEPT ![t] = "permit"] /\ UNCHANGED line
                          ELSE pc' = [pc EXCEPT ![t] = "line"] /\ Join(t)
              /\ UNCHANGED <<permits, terminal, holder, status>>
    /\ UNCHANGED entered

(* semaphore.acquire_owned, then acquire_runtime_lock joins the line.      *)
AcquirePermit(t) ==
    /\ pc[t] = "permit"
    /\ FreeSlot(RunOf[t])
    /\ permits' = permits \cup {t}
    /\ pc' = [pc EXCEPT ![t] = "line"]
    /\ Join(t)
    /\ UNCHANGED <<terminal, holder, entered, status>>

(* The RwLock serves its waiters in order.                                 *)
Terminal(t) ==
    /\ pc[t] = "line"
    /\ line[RunOf[t]] # <<>> /\ Head(line[RunOf[t]]) = t
    /\ Admits(t)
    /\ line' = [line EXCEPT ![RunOf[t]] = Tail(@)]
    /\ terminal' = terminal \cup {t}
    /\ pc' = [pc EXCEPT ![t] = IF Takes[t] = {} THEN "exec" ELSE "try"]
    /\ UNCHANGED <<permits, holder, entered, status>>

(* Mutant: a task that waited for locks goes on without slot and terminal. *)
TakeNextStraight(t) ==
    /\ pc[t] \in {"try", "wait"}
    /\ \E l \in Missing(t) :
          /\ IsNext(l, t)
          /\ holder[l] = Nobody
          /\ holder' = [holder EXCEPT ![l] = t]
          /\ pc' = [pc EXCEPT ![t] = IF Missing(t) # {l} THEN @ ELSE "exec"]
    /\ UNCHANGED <<permits, terminal, line, entered, status>>

(* try_take takes a free lock. With the last one, the commands may run if  *)
(* the slot and the terminal were kept or are the parent's.                *)
TakeNext(t) ==
    /\ pc[t] \in {"try", "wait"}
    /\ \E l \in Missing(t) :
          /\ IsNext(l, t)
          /\ holder[l] = Nobody
          /\ holder' = [holder EXCEPT ![l] = t]
          /\ pc' = [pc EXCEPT ![t] =
                      IF Missing(t) # {l} THEN @
                      ELSE IF @ = "wait" /\ ~Covered(t) THEN "got" ELSE "exec"]
    /\ UNCHANGED <<permits, terminal, line, entered, status>>

(* Mutant: the slot is kept while waiting for a lock.                      *)
GiveWayWithSlot(t) ==
    /\ pc[t] = "try"
    /\ Blocked(t)
    /\ pc' = [pc EXCEPT ![t] = "wait"]
    /\ terminal' = terminal \ {t}
    /\ UNCHANGED <<permits, line, holder, entered, status>>

(* try_take meets a lock that is taken: slot and terminal are given back,  *)
(* the locks before it are kept.                                           *)
GiveWay(t) ==
    /\ pc[t] = "try"
    /\ Blocked(t)
    /\ pc' = [pc EXCEPT ![t] = "wait"]
    /\ permits' = permits \ {t}
    /\ terminal' = terminal \ {t}
    /\ UNCHANGED <<line, holder, entered, status>>

(* wait ends without the locks: by a Ctrl-C, or by task.lock_timeout.      *)
WaitFails(t) ==
    /\ pc[t] = "wait"
    /\ Blocked(t)
    /\ Failing(RunOf[t])
    /\ pc' = [pc EXCEPT ![t] = "over"]
    /\ DropAll({t})
    /\ UNCHANGED <<line, entered>>

Interrupted(t) == status[RunOf[t]] \in {"cancelled", "interrupted"} /\ WaitFails(t)
TimesOut(t) == "timeout" \in Events /\ WaitFails(t)

(* After a wait the slot and the terminal are tried, with the locks held.  *)
TryBoth(t) ==
    /\ pc[t] = "got"
    /\ LET slot == FreeSlot(RunOf[t])
           tty == line[RunOf[t]] = <<>> /\ Admits(t)
       IN /\ permits' = IF slot THEN permits \cup {t} ELSE permits
          /\ terminal' = IF tty THEN terminal \cup {t} ELSE terminal
          /\ pc' = [pc EXCEPT ![t] = IF slot /\ tty THEN "exec" ELSE "busy"]
    /\ UNCHANGED <<line, holder, entered, status>>

(* Mutant: the locks are kept while waiting for slot or terminal.          *)
ReleaseNothing(t) ==
    /\ pc[t] = "busy"
    /\ terminal' = terminal \ {t}
    /\ IF t \in permits
         THEN pc' = [pc EXCEPT ![t] = "line"] /\ Join(t)
         ELSE pc' = [pc EXCEPT ![t] = "permit"] /\ UNCHANGED line
    /\ UNCHANGED <<permits, holder, entered, status>>

(* One of them was taken: the locks are released before waiting for it.    *)
Release(t) ==
    /\ pc[t] = "busy"
    /\ holder' = [l \in Lock |-> IF holder[l] = t THEN Nobody ELSE holder[l]]
    /\ terminal' = terminal \ {t}
    /\ IF t \in permits
         THEN pc' = [pc EXCEPT ![t] = "line"] /\ Join(t)
         ELSE pc' = [pc EXCEPT ![t] = "permit"] /\ UNCHANGED line
    /\ UNCHANGED <<permits, entered, status>>

(* A run entry or a nested `mise run`. Slot and terminal are given back if *)
(* the tasks of the entry do not run under them.                           *)
StartChildren(t) ==
    /\ pc[t] = "exec"
    /\ t \notin entered
    /\ \E c \in Children(t) :
          status[RunOf[t]] \in (IF Injected(c) THEN {"running", "cancelled"}
                                            ELSE {"running", "failing"})
    /\ entered' = entered \cup {t}
    /\ pc' = [pc EXCEPT ![t] = "child"]
    /\ IF (\E c \in Children(t) : Injected(c)) /\ ~Covers(t)
         THEN permits' = permits \ {t} /\ terminal' = terminal \ {t}
         ELSE UNCHANGED <<permits, terminal>>
    /\ UNCHANGED <<line, holder, status>>

Settled(c) == pc[c] = "over" \/ (pc[c] = "idle" /\ status[RunOf[c]] # "running")

InjectsTasks(t) == \E c \in Children(t) : Injected(c)

(* The children ended; the slot, then the terminal, are waited for again.  *)
ChildrenOver(t) ==
    /\ pc[t] = "child"
    /\ InjectsTasks(t) => status[RunOf[t]] \in {"running", "cancelled"}
    /\ \A c \in Children(t) : Settled(c)
    /\ pc' = [pc EXCEPT ![t] = IF InjectsTasks(t) /\ ~Covers(t) /\ t \in Script
                                 THEN "permit" ELSE "exec"]
    /\ UNCHANGED <<permits, terminal, line, holder, entered, status>>

(* inject_and_wait stops early when the executor knows of a failure, and   *)
(* the task fails: it does not wait for the tasks it started to end.       *)
AbortWait(t) ==
    /\ pc[t] = "child"
    /\ InjectsTasks(t)
    /\ status[RunOf[t]] \in {"failing", "interrupted"}
    /\ pc' = [pc EXCEPT ![t] = "over"]
    /\ DropAll({t})
    /\ UNCHANGED <<line, entered, status>>

(* The last command ends, or one fails or is killed.                       *)
End(t) ==
    /\ pc[t] = "exec"
    /\ \/ /\ Children(t) = {} \/ t \in entered \/ status[RunOf[t]] # "running"
          /\ UNCHANGED status
       \/ /\ "fail" \in Events \/ status[RunOf[t]] = "cancelled"
          /\ Failing(RunOf[t])
    /\ pc' = [pc EXCEPT ![t] = "over"]
    /\ DropAll({t})
    /\ UNCHANGED <<line, entered>>

(* A nested run exists once the script that starts it does.                *)
Exists(r) ==
    \E t \in Task : RunOf[t] = r /\ ~Injected(t) /\ Starter[t] \in entered \cup {Nobody}

CtrlC(r) ==
    /\ "ctrl-c" \in Events
    /\ Exists(r)
    /\ status[r] \in {"running", "failing"}
    /\ status' = [status EXCEPT ![r] = IF @ = "failing" THEN "interrupted" ELSE "cancelled"]
    /\ UNCHANGED <<pc, permits, terminal, line, holder, entered>>

(* The process is killed: the kernel releases its lock files. The nested   *)
(* runs it started go on.                                                  *)
Kill(r) ==
    /\ "kill" \in Events
    /\ Exists(r)
    /\ status[r] # "dead"
    /\ status' = [status EXCEPT ![r] = "dead"]
    /\ pc' = [t \in Task |-> IF RunOf[t] = r THEN "over" ELSE pc[t]]
    /\ DropAll({t \in Task : RunOf[t] = r})
    /\ line' = [line EXCEPT ![r] = <<>>]
    /\ UNCHANGED entered

(* Nothing is left to start or to end.                                     *)
AllOver == \A t \in Task : pc[t] = "over" \/ (pc[t] = "idle" /\ ~Startable(t))

Done == AllOver /\ UNCHANGED vars

Progress(t) ==
    \/ Begin(t) \/ AcquireSlot(t) \/ Enter(t) \/ AcquirePermit(t) \/ Terminal(t)
    \/ TakeNext(t) \/ GiveWay(t) \/ Interrupted(t) \/ TryBoth(t) \/ Release(t)
    \/ StartChildren(t) \/ ChildrenOver(t) \/ AbortWait(t) \/ End(t)

Next ==
    \/ \E t \in Task : Progress(t) \/ TimesOut(t)
    \/ \E r \in Run : CtrlC(r) \/ Kill(r)
    \/ Done

(* Commands end, waiters are polled or woken. No timeout has to be set, so *)
(* none has to end a wait.                                                 *)
Fairness == \A t \in Task : WF_vars(Progress(t))

Spec == Init /\ [][Next]_vars /\ Fairness

-----------------------------------------------------------------------------
(* Every variable has its type.                                            *)
TypeOK ==
    /\ pc \in [Task -> PcState]
    /\ permits \subseteq Task
    /\ terminal \subseteq Task
    /\ line \in [Run -> Seq(Task)]
    /\ holder \in [Lock -> Task \cup {Nobody}]
    /\ entered \subseteq Task
    /\ status \in [Run -> RunState]

(* A task that takes locks runs its commands, and the tasks it starts,     *)
(* with all of its locks, a slot and the terminal, however often it had to *)
(* give some back to get the others: "all or nothing".                     *)
AllOrNothing ==
    \A t \in Task : pc[t] \in {"exec", "child"} /\ Takes[t] # {} =>
        /\ Takes[t] \subseteq Held(t)
        /\ ~Covered(t) => t \in permits /\ t \in terminal

(* A task never waits for one while holding another: for a slot or the     *)
(* terminal with a lock, for a lock with a slot or the terminal.           *)
NoHoldAndWait ==
    \A t \in Task :
        /\ pc[t] \in {"slot", "permit", "line"} => Held(t) = {}
        /\ pc[t] = "wait" => t \notin permits /\ t \notin terminal

(* A waiter has and inherits only locks that sort before the one it waits  *)
(* for, so that no two runs each hold a lock the other waits for.          *)
WaitsInOrder ==
    \A t \in Task : pc[t] = "wait" =>
        \A l \in Missing(t) : IsNext(l, t) =>
            \A h \in Held(t) \cup Inherited[t] : h < l

(* While the commands of a task run, every lock it names is held for it,   *)
(* by itself or by a task it runs under, unless the run of one of those is *)
(* stopping or was killed.                                                 *)
LockedWhileRunning ==
    \A t \in Task : pc[t] = "exec" =>
        \A l \in Wants[t] :
            \/ holder[l] \in {t} \cup Above[t]
            \/ \E a \in Above[t] : status[RunOf[a]] # "running"

Commands(t) == pc[t] = "exec" /\ (t \in terminal \/ Covered(t))

(* While a command of an interactive task runs, no command of another task *)
(* of its run does; except that tasks that run under one locked task are   *)
(* not kept apart, and that a task under a lock may outlive the task above *)
(* it when the run is stopping.                                            *)
TerminalAlone ==
    \A t \in Interactive : \A u \in Task \ {t} :
        Commands(t) /\ Commands(u) /\ RunOf[t] = RunOf[u] =>
            \/ Roofs(t) \cap Roofs(u) # {}
            \/ /\ Covered(t) \/ Covered(u)
               /\ status[RunOf[t]] \in {"failing", "interrupted"}

AllRunsEnd == <>[]AllOver

(* Two tasks of one run go on giving back what the other is trying to take *)
(* at that moment.                                                         *)
Bouncing ==
    \E t, u \in Task :
        /\ t # u /\ RunOf[t] = RunOf[u]
        /\ pc[t] = "busy"
        /\ Takes[u] # {} /\ ~Covered(u) /\ pc[u] \notin {"idle", "over"}

(* Every run ends: no two tasks wait for each other, through locks, slots, *)
(* terminals and nested runs, and a killed run leaves no lock behind;      *)
(* unless two tasks of one run keep bouncing for ever.                     *)
RunsEnd == ([]<>Bouncing) \/ AllRunsEnd
=============================================================================
