----------------------------- MODULE KeepOrder -----------------------------
(***************************************************************************)
(* The keep-order output of `mise run` (KeepOrderState in                  *)
(* src/task/task_output_handler.rs): every task has a slot, in definition  *)
(* order; the task in the first slot streams live, the others buffer, and  *)
(* a slot is retired when its task ends. Tasks that a run entry injects    *)
(* get their slots next to the task that injects them. The state is behind *)
(* one mutex, and an action is what happens under one acquisition of it    *)
(* (or, when a subgraph is abandoned, under consecutive ones).             *)
(*                                                                         *)
(* The tasks around it are reduced to what they tell the output: they      *)
(* start in any order, print, inject, fail, end or are dropped when the    *)
(* run stops. TaskRun models when the scheduler lets them.                 *)
(***************************************************************************)
EXTENDS Naturals, Sequences, FiniteSets, SequencesExt

CONSTANTS
    Task,
    Top,        \* the origin of the tasks of the main graph
    Programs,   \* the runs considered
    MaxLines    \* the lines of a task's own

(***************************************************************************)
(* A program gives the tasks of the main graph in creation order, the      *)
(* tasks that run a script (task_needs_permit), and the run entries that   *)
(* name tasks; a task that does not print and has entries is an anchor.    *)
(* A task may be named more than once: by the command line and by an       *)
(* entry, or by the entries of two tasks. It then runs once for each. Only *)
(* a task that has entries of its own is named once, since entry and known *)
(* follow it by its name.                                                  *)
(***************************************************************************)
NamedBy(p, h, t) ==
    IF h = Top THEN Contains(p.top, t)
               ELSE \E i \in DOMAIN p.entries[h] : Contains(p.entries[h][i], t)

ASSUME TaskAssumption == IsFiniteSet(Task)
ASSUME TopAssumption == Top \notin Task
ASSUME LinesAssumption == MaxLines \in Nat \ {0}
ASSUME ProgramAssumption ==
    \A p \in Programs :
        /\ p.top \in Seq(Task)
        /\ p.prints \subseteq Task
        /\ p.entries \in [Task -> Seq(Seq(Task))]
        /\ p.stops \in BOOLEAN
        /\ \A t \in Task : p.entries[t] # <<>> =>
              \A g, h \in Task \cup {Top} : NamedBy(p, g, t) /\ NamedBy(p, h, t) => g = h

VARIABLES
    prog,
    ko,         \* KeepOrderState
    printed,    \* the terminal: <<task, number of the line>>
    life,       \* life[<<origin, task>>]: how far this occurrence of the task is
    entry,      \* the run entries a task has injected
    known,      \* the tasks complete when a task that injects began
    lines,      \* the lines a task has produced
    stopping,   \* a task failed and the run stops
    stranded    \* history: the tasks whose slot was given up while they could still print

vars == <<prog, ko, printed, life, entry, known, lines, stopping, stranded>>

Occ == (Task \cup {Top}) \X Task

None == Top         \* no task is active

-----------------------------------------------------------------------------
(***************************************************************************)
(* KeepOrderState, as operators from a state to a state. A state is a      *)
(* record k: the slots in order (the keys of buffers), their lines, the    *)
(* active task, the finished tasks, <<task, parent>> in injected_by, done, *)
(* and out, the lines the operation prints.                                *)
(***************************************************************************)
NewState == [slots |-> <<>>, buf |-> [t \in Task |-> <<>>], active |-> None,
             finished |-> {}, injected_by |-> {}, done |-> FALSE, out |-> <<>>]

HasSlot(k, t) == Contains(k.slots, t)

IndexOf(k, t) == CHOOSE i \in DOMAIN k.slots : k.slots[i] = t

InitTask(k, t) == IF HasSlot(k, t) THEN k ELSE [k EXCEPT !.slots = Append(@, t)]

InitTasks(k, tasks) == FoldLeft(InitTask, k, tasks)

DescendsFrom(k, t, ancestor) ==
    \A C \in SUBSET Task :
        (\A e \in k.injected_by : e[1] \in C \cup {t} => e[2] \in C) => ancestor \in C

(* Mutant: the group ends at the first slot that is not of the group.      *)
GroupEndAtGap(k, parent) ==
    LET i == IndexOf(k, parent)
        out == {j \in DOMAIN k.slots : j > i /\ ~DescendsFrom(k, k.slots[j], parent)}
    IN IF out = {} THEN Len(k.slots) + 1 ELSE CHOOSE j \in out : \A m \in out : j <= m

(* The slot past the last one that descends from the parent.               *)
GroupEnd(k, parent) ==
    LET i == IndexOf(k, parent)
        group == {i} \cup {j \in DOMAIN k.slots : j > i /\ DescendsFrom(k, k.slots[j], parent)}
    IN 1 + CHOOSE j \in group : \A m \in group : m <= j

(* One task of the run entry, at acc.idx or in the slot it already has.    *)
InsertInjected(acc, parent, after, t) ==
    LET k == acc.k IN
    IF HasSlot(k, t)
      THEN [k   |-> IF DescendsFrom(k, parent, t) THEN k
                    ELSE [k EXCEPT !.injected_by = @ \cup {<<t, parent>>}],
            idx |-> IF after /\ IndexOf(k, t) >= acc.idx THEN IndexOf(k, t) + 1 ELSE acc.idx]
      ELSE [k   |-> [k EXCEPT !.slots = InsertAt(@, acc.idx, t),
                              !.injected_by = {e \in @ : e[1] # t} \cup {<<t, parent>>}],
            idx |-> acc.idx + 1]

InsertFrom(acc, parent, after, tasks) ==
    LET Step(a, t) == InsertInjected(a, parent, after, t) IN FoldLeft(Step, acc, tasks)

InsertInjectedTasks(k, parent, tasks) ==
    IF ~HasSlot(k, parent)
      THEN InitTasks(k, tasks)
      ELSE LET after == parent \in prog.prints
               idx == IF after THEN GroupEnd(k, parent) ELSE IndexOf(k, parent)
           IN InsertFrom([k |-> k, idx |-> idx], parent, after, tasks).k

IsActive(k, t) ==
    IF k.active # None THEN k.active = t ELSE k.slots # <<>> /\ Head(k.slots) = t

(* Mutant: a task becomes the live one and keeps what it had buffered.     *)
ActivateKeepingBuffer(k, t) == [k EXCEPT !.active = t]

Activate(k, t) ==
    [k EXCEPT !.active = t,
              !.out = @ \o k.buf[t],
              !.buf[t] = <<>>]

(* on_stdout and on_stderr.                                                *)
OnLine(k, t, line) ==
    IF k.done \/ IsActive(k, t)
      THEN LET a == Activate(k, t) IN [a EXCEPT !.out = Append(@, line)]
      ELSE LET s == InitTask(k, t) IN [s EXCEPT !.buf[t] = Append(@, line)]

(* shift_remove, and the lines of the slot are printed.                    *)
Retire(k, t) ==
    [k EXCEPT !.out = @ \o k.buf[t],
              !.buf[t] = <<>>,
              !.slots = RemoveAt(@, IndexOf(k, t))]

RetireAll(k, tasks) == FoldLeft(Retire, k, tasks)

(* The finished tasks at the front of the buffers.                         *)
FlushFinished(k) ==
    LET front == SelectInSeq(k.slots, LAMBDA t : t \notin k.finished)
        flushed == SubSeq(k.slots, 1, IF front = 0 THEN Len(k.slots) ELSE front - 1)
    IN [RetireAll(k, flushed) EXCEPT !.finished = @ \ ToSet(flushed)]

PromoteNext(k) ==
    IF k.slots # <<>> /\ k.buf[Head(k.slots)] # <<>> THEN Activate(k, Head(k.slots)) ELSE k

(* Mutant: a task that is not live prints its block when it ends.          *)
FinishPrintsAtOnce(k, t) ==
    IF ~HasSlot(k, t) THEN k
    ELSE IF IsActive(k, t)
      THEN PromoteNext(FlushFinished(Retire([k EXCEPT !.active = None], t)))
      ELSE Retire(k, t)

(* Mutant: only the stream's owner is retired; the tasks behind it that    *)
(* have finished are left for the end.                                     *)
FinishWithoutFlush(k, t) ==
    IF ~HasSlot(k, t) THEN k
    ELSE IF IsActive(k, t)
      THEN PromoteNext(Retire([k EXCEPT !.active = None], t))
      ELSE [k EXCEPT !.finished = @ \cup {t}]

OnTaskFinished(k, t) ==
    IF ~HasSlot(k, t) THEN k
    ELSE IF IsActive(k, t)
      THEN PromoteNext(FlushFinished(Retire([k EXCEPT !.active = None], t)))
      ELSE [k EXCEPT !.finished = @ \cup {t}]

RetireUnusedSlot(k, t) ==
    IF k.active # t /\ HasSlot(k, t) /\ k.buf[t] = <<>> THEN OnTaskFinished(k, t) ELSE k

RetireUnusedSlots(k, tasks) == FoldLeft(RetireUnusedSlot, k, tasks)

FlushAll(k) ==
    LET f == FlushFinished([k EXCEPT !.active = None])
    IN [RetireAll(f, f.slots) EXCEPT !.done = TRUE]

-----------------------------------------------------------------------------
(***************************************************************************)
(* The run.                                                                *)
(***************************************************************************)
Alive(l, t) == {o \in Occ : o[2] = t /\ l[o] \in {"waiting", "starting", "running", "failed"}}

(* Names(p): the tasks of the entries of p, in the order they are written. *)
Names(p) == FlattenSeq(prog.entries[p])

(* The elements of s that are in S, in order.                              *)
Among(s, S) ==
    LET Keep(kept, t) == IF t \in S THEN Append(kept, t) ELSE kept
    IN FoldLeft(Keep, <<>>, s)

Init ==
    /\ prog \in Programs
    /\ ko = InitTasks(NewState, prog.top)
    /\ printed = <<>>
    /\ life = [o \in Occ |-> IF o[1] = Top /\ Contains(prog.top, o[2]) THEN "waiting" ELSE "none"]
    /\ entry = [t \in Task |-> 0]
    /\ known = [t \in Task |-> {}]
    /\ lines = [t \in Task |-> 0]
    /\ stopping = FALSE
    /\ stranded = {}

(***************************************************************************)
(* The output state becomes k and the lives l; what k prints reaches the   *)
(* terminal. A task is stranded when its slot is retired, or to be retired *)
(* as that of a finished task, although an occurrence of it may still      *)
(* print.                                                                  *)
(***************************************************************************)
Commit(k, l, stop) ==
    /\ ko' = [k EXCEPT !.out = <<>>]
    /\ printed' = printed \o k.out
    /\ life' = l
    /\ stopping' = stop
    /\ stranded' = stranded \cup
          {t \in Task :
              /\ (HasSlot(ko, t) /\ ~HasSlot(k, t)) \/ t \in k.finished \ ko.finished
              /\ \E o \in Alive(l, t) : l[o] # "waiting" \/ ~stop}

(* The last check of spawn_sched_job, then mark_executed.                  *)
Admit(o) ==
    /\ life[o] = "waiting"
    /\ ~stopping
    /\ life' = [life EXCEPT ![o] = "starting"]
    /\ UNCHANGED <<prog, ko, printed, entry, known, lines, stopping, stranded>>

Start(o) ==
    /\ life[o] = "starting"
    /\ life' = [life EXCEPT ![o] = "running"]
    /\ known' = [known EXCEPT ![o[2]] =
          {t \in Task : life[<<o[1], t>>] = "over"} \cup
          (IF o[1] = Top THEN {} ELSE known[o[1]])]
    /\ UNCHANGED <<prog, ko, printed, entry, lines, stopping, stranded>>

(* The occurrences a task waits for in inject_and_wait.                    *)
Awaited(p) == {o \in Occ : o[1] = p /\ o[2] \in Task /\ life[o] \notin {"none", "over"}}

Free(o) == life[o] = "running" /\ Awaited(o[2]) = {}

(* A line of the task's own command.                                       *)
PrintLine(o) ==
    LET t == o[2] IN
    /\ Free(o)
    /\ t \in prog.prints
    /\ lines[t] < MaxLines
    /\ lines' = [lines EXCEPT ![t] = @ + 1]
    /\ Commit(OnLine(ko, t, <<t, lines[t] + 1>>), life, stopping)
    /\ UNCHANGED <<prog, entry, known>>

(* inject_and_wait: the slots of the tasks of the next entry, but not of   *)
(* those new_pruned leaves out because they are complete.                  *)
Inject(o) ==
    LET p == o[2]
        fresh == {t \in Task : t \notin known[p] /\ life[<<p, t>>] = "none"}
        tasks == Among(prog.entries[p][entry[p] + 1], fresh)
    IN /\ Free(o)
       /\ entry[p] < Len(prog.entries[p])
       /\ entry' = [entry EXCEPT ![p] = @ + 1]
       /\ Commit(InsertInjectedTasks(ko, p, tasks),
                 [q \in Occ |-> IF q[1] = p /\ Contains(tasks, q[2]) THEN "waiting" ELSE life[q]],
                 stopping)
       /\ UNCHANGED <<prog, known, lines>>

(* A stop seen by inject_and_wait: the tasks of the subgraph that were not *)
(* marked executed give up their slots, and the parent fails.              *)
Abandon(o) ==
    LET p == o[2]
        tasks == Among(Names(p), {t \in Task : life[<<p, t>>] \in {"waiting", "starting"}})
    IN /\ life[o] = "running"
       /\ Awaited(p) # {}
       /\ stopping
       /\ Commit(RetireUnusedSlots(ko, tasks), [life EXCEPT ![o] = "failed"], TRUE)
       /\ UNCHANGED <<prog, entry, known, lines>>

(* A failure prints its error through eprint, unless the run was stopping. *)
Fail(o) ==
    LET t == o[2] IN
    /\ prog.stops
    /\ Free(o)
    /\ IF stopping
         THEN /\ Commit(ko, [life EXCEPT ![o] = "failed"], TRUE)
              /\ UNCHANGED lines
         ELSE /\ Commit(OnLine(ko, t, <<t, lines[t] + 1>>), [life EXCEPT ![o] = "failed"], TRUE)
              /\ lines' = [lines EXCEPT ![t] = @ + 1]
    /\ UNCHANGED <<prog, entry, known>>

(* The end of a job: the slot is retired, or waits for its turn.           *)
Finish(o) ==
    /\ \/ life[o] = "failed"
       \/ Free(o) /\ entry[o[2]] = Len(prog.entries[o[2]])
    /\ Commit(OnTaskFinished(ko, o[2]), [life EXCEPT ![o] = "over"], stopping)
    /\ UNCHANGED <<prog, entry, known, lines>>

(* A task the stopping run never starts: retire_keep_order_slot from       *)
(* drop_while_stopping, should_abort_while_stopping or the stop cleanup.   *)
Drop(o) ==
    /\ life[o] = "waiting"
    /\ stopping
    /\ Commit(OnTaskFinished(ko, o[2]), [life EXCEPT ![o] = "over"], stopping)
    /\ UNCHANGED <<prog, entry, known, lines>>

(* A task of an abandoned subgraph that was never sent to the scheduler.   *)
Forget(o) ==
    /\ life[o] = "waiting"
    /\ \E q \in Occ : q[2] = o[1] /\ life[q] \in {"failed", "over"}
    /\ life' = [life EXCEPT ![o] = "over"]
    /\ UNCHANGED <<prog, ko, printed, entry, known, lines, stopping, stranded>>

(* display_keep_order_output, once every job was joined.                   *)
Display ==
    /\ ~ko.done
    /\ \A o \in Occ : life[o] \in {"none", "over"}
    /\ Commit(FlushAll(ko), life, stopping)
    /\ UNCHANGED <<prog, entry, known, lines>>

Displayed == ko.done /\ UNCHANGED vars

Next ==
    \/ \E o \in Occ :
          Admit(o) \/ Start(o) \/ PrintLine(o) \/ Inject(o) \/ Abandon(o) \/ Fail(o)
          \/ Finish(o) \/ Drop(o) \/ Forget(o)
    \/ Display
    \/ Displayed

Spec == Init /\ [][Next]_vars

-----------------------------------------------------------------------------
(***************************************************************************)
(* Properties.                                                             *)
(***************************************************************************)

(* Every variable has its type.                                            *)
TypeOK ==
    /\ prog \in Programs
    /\ ko.slots \in Seq(Task) /\ IsInjective(ko.slots)
    /\ ko.active \in Task \cup {None}
    /\ ko.finished \subseteq Task
    /\ ko.injected_by \subseteq Task \X Task
    /\ life \in [Occ -> {"none", "waiting", "starting", "running", "failed", "over"}]
    /\ lines \in [Task -> 0 .. MaxLines + 1]
    /\ stranded \subseteq Task

(* Nothing a task prints is lost, printed twice or reordered: the numbers  *)
(* of its lines increase on the terminal and are those up to the first one *)
(* it has buffered, what is buffered is the rest, in order, and nothing is *)
(* buffered without a slot, or once the run has displayed its results.     *)
(* Becoming the live task, being promoted, retired early or flushed late   *)
(* keep this.                                                              *)
LinesInOrder ==
    /\ \A i, j \in DOMAIN printed :
          i < j /\ printed[i][1] = printed[j][1] => printed[i][2] < printed[j][2]
    /\ \A t \in Task :
          LET shown == lines[t] - Len(ko.buf[t]) IN
          /\ {printed[i][2] : i \in {j \in DOMAIN printed : printed[j][1] = t}} = 1 .. shown
          /\ ko.buf[t] = [i \in 1 .. Len(ko.buf[t]) |-> <<t, shown + i>>]
    /\ \A t \in Task : ko.buf[t] # <<>> => HasSlot(ko, t)
    /\ ko.done => \A t \in Task : ko.buf[t] = <<>>

Parents(t) == {p \in Task : NamedBy(prog, p, t)}

(* The tasks that run once, and were not stranded by the run's stop.       *)
Keeps(t) ==
    /\ t \notin stranded
    /\ Cardinality(Parents(t)) = IF Contains(prog.top, t) THEN 0 ELSE 1

(* The lines of a task that runs once are one block on the terminal,       *)
(* whichever task streams, is promoted or is flushed in between.           *)
OneBlock ==
    \A i, j \in DOMAIN printed :
        i + 1 < j /\ printed[i][1] = printed[j][1] /\ printed[i + 1][1] # printed[i][1]
            => ~Keeps(printed[i][1])

(***************************************************************************)
(* Definition order, from the program alone. A task of the main graph has  *)
(* its place there; another one has it among the tasks of the parent that  *)
(* names it, when only one does. Ahead(t, u): t has its place before u.    *)
(***************************************************************************)
Home(t) == IF Contains(prog.top, t) THEN {Top} ELSE Parents(t)

Groups(h) == IF h = Top THEN <<prog.top>> ELSE prog.entries[h]

(* An entry of h names a, and none up to there names b before it.          *)
NamedBefore(h, a, b) ==
    \E m \in DOMAIN Groups(h) : \E x \in DOMAIN Groups(h)[m] :
        /\ Groups(h)[m][x] = a
        /\ \A n \in 1 .. m : \A y \in DOMAIN Groups(h)[n] :
              Groups(h)[n][y] = b => n = m /\ y > x

(* The task and the tasks it is injected by, directly or not.              *)
Lineage(t) ==
    LET closed == {C \in SUBSET Task : t \in C /\ \A a \in C : Parents(a) \subseteq C}
    IN {a \in Task : \A C \in closed : a \in C}

Ahead(t, u) ==
    LET T == Lineage(t)  U == Lineage(u) IN
    \/ t \in U \cap prog.prints
    \/ u \in T \ prog.prints
    \/ \E a \in T, b \in U : \E h \in Home(a) \cap Home(b) : NamedBefore(h, a, b)

(* A parent that prints places what it names behind all of its group. When *)
(* a task of the group already had a slot, or lost it, wherever the slot   *)
(* is now, those that the parent names afterwards leave their place.       *)
Settled(t) ==
    \A a \in Lineage(t) :
        /\ Keeps(a)
        /\ \A h \in Parents(a) \cap prog.prints : \A x \in Task :
              Keeps(x) \/ \A s \in Lineage(x) : ~NamedBefore(h, s, a)

(* The blocks come out in definition order, in whatever order the tasks    *)
(* start, print, inject and end: a task of a run entry is printed at the   *)
(* place of the task that injects it, after what that task prints itself   *)
(* if it runs a script, else before the error it may end with.             *)
BlocksInOrder ==
    LET said == {printed[i][1] : i \in DOMAIN printed} IN
    \A t, u \in said :
        /\ t # u
        /\ \E i, j \in DOMAIN printed : i < j /\ printed[i][1] = t /\ printed[j][1] = u
        /\ ~Ahead(t, u)
        => ~Settled(t) \/ ~Settled(u)

(* A parent that prints keeps the order in which its entries are written:  *)
(* a task placed by an entry stays behind every task its parent named      *)
(* before, even one that had its slot from the command line or from        *)
(* another parent. It is claimed while the earlier task has the slot in    *)
(* which the parent placed or found it: one that ran, gave the slot up and *)
(* is named by another parent has a new one there, and injected_by says so.*)
EntriesInOrder ==
    \A p \in prog.prints : \A a, b \in Task :
        /\ NamedBefore(p, a, b)
        /\ Home(b) = {p}
        /\ <<a, p>> \in ko.injected_by /\ life[<<p, b>>] # "none"
        /\ ({a, b, p} \cup Parents(a)) \cap stranded = {}
        /\ HasSlot(ko, a) /\ HasSlot(ko, b)
        => IndexOf(ko, a) < IndexOf(ko, b)

(* The output follows the definition of the program: on the terminal, and  *)
(* in the slots that are still to be printed.                              *)
DefinitionOrder == BlocksInOrder /\ EntriesInOrder

(* The live stream is never held by a task that has nothing more to say:   *)
(* the first slot is that of a task that is still to run or running, and   *)
(* so, when every task is over, nothing is left for the final flush.       *)
StreamNotPinned ==
    ko.slots # <<>> => Alive(life, Head(ko.slots)) # {}
=============================================================================
