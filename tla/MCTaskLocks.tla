---------------------------- MODULE MCTaskLocks ----------------------------
(* Bounded instances of TaskLocks: the task files of a machine.            *)
EXTENDS TaskLocks

Entry(run, starter, wants) == [run |-> run, starter |-> starter, wants |-> wants]

(***************************************************************************)
(* slots: locked takes lock 1 and starts child, which adds lock 2, from a  *)
(* run entry; browse is an interactive task whose script starts a nested   *)
(* run of needs. tty: the same with two slots, so that the terminal is     *)
(* what the tasks contend for; its locked task starts nothing.             *)
(* entry: open takes no lock and starts fetch and edit from a run entry.   *)
(* order: two runs whose nested runs want the lock of the other.           *)
(* turns: two locked tasks of one run and one slot.                        *)
(* desk: an interactive locked task whose run entry starts ask, itself     *)
(* interactive, and log; other waits for the same terminal.                *)
(***************************************************************************)
File ==
    [locked |-> Entry("slots", Nobody, {1}),
     child  |-> Entry("slots", "locked", {1, 2}),
     browse |-> Entry("slots", Nobody, {}),
     needs  |-> Entry("slots.nested", "browse", {1, 2}),
     third  |-> Entry("elsewhere", Nobody, {1, 2}),

     locked2 |-> Entry("tty", Nobody, {1}),
     browse2 |-> Entry("tty", Nobody, {}),
     needs2  |-> Entry("tty.nested", "browse2", {1, 2}),

     open  |-> Entry("entry", Nobody, {}),
     fetch |-> Entry("entry", "open", {1, 2}),
     edit  |-> Entry("entry", "open", {}),

     first   |-> Entry("order", Nobody, {1}),
     second  |-> Entry("order.nested", "first", {2}),
     last    |-> Entry("reverse", Nobody, {2}),
     earlier |-> Entry("reverse.nested", "last", {1}),

     left  |-> Entry("turns", Nobody, {1}),
     right |-> Entry("turns", Nobody, {1, 2}),

     desk  |-> Entry("desk", Nobody, {1}),
     ask   |-> Entry("desk", "desk", {1}),
     log   |-> Entry("desk", "desk", {2}),
     other |-> Entry("desk", Nobody, {})]

MCTask == DOMAIN File
MCRun == {File[t].run : t \in MCTask}
MCRunOf == [t \in MCTask |-> File[t].run]
MCStarter == [t \in MCTask |-> File[t].starter]
MCWants == [t \in MCTask |-> File[t].wants]
MCInteractive == {"browse", "browse2", "edit", "desk", "ask"}
MCScript == MCTask \ {"right"}
MCJobs == [r \in MCRun |-> IF r \in {"tty", "desk"} THEN 2 ELSE 1]

Contended ==
    {{"slots", "slots.nested", "elsewhere"},
     {"tty", "tty.nested", "elsewhere"},
     {"entry", "elsewhere"},
     {"order", "order.nested", "reverse", "reverse.nested"},
     {"turns", "elsewhere"},
     {"desk"}}
=============================================================================
