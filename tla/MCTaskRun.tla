----------------------------- MODULE MCTaskRun -----------------------------
(***************************************************************************)
(* Bounded instances of TaskRun, on one task file.                         *)
(*                                                                         *)
(* test depends on build and has clean as depends_post; lint is            *)
(* independent. deploy has a script and then a run entry that starts       *)
(* publish, which depends on a second occurrence of lint (again), and has  *)
(* notify as depends_post. Where lint's completion in the main graph       *)
(* prunes again, publish is a leaf at once.                                *)
(***************************************************************************)
EXTENDS TaskRun

CONSTANTS build, test, lint, clean, deploy, again, publish, notify

MCTask == {build, test, lint, clean, deploy, again, publish, notify}
MCHome == [t \in MCTask |-> IF t \in {again, publish, notify} THEN deploy ELSE Root]
MCNeeds == {<<test, build>>, <<publish, again>>}
MCPost == {<<clean, test>>, <<notify, publish>>}
MCSame == {<<again, lint>>}

Invoke(tasks, jobs, continue, faults) ==
    [tasks |-> tasks, jobs |-> jobs, continueOnError |-> continue, faults |-> faults]

Flat == {build, test, lint, clean}
Nested == {deploy, lint}

(* Two jobs and every fault of a run without injected tasks; the same with *)
(* --continue-on-error; an injecting task beside another under one job.    *)
AnyStop ==
    {Invoke(Flat, 2, FALSE, {"fail", "ctrl-c"}),
     Invoke(Flat, 2, TRUE, {"fail", "sigint"}),
     Invoke(Nested, 1, FALSE, {"fail", "install"})}

(* What is to end: one job with any stop, one with --continue-on-error, an *)
(* injecting task alone under one job.                                     *)
AnyEnd ==
    {Invoke(Flat, 1, FALSE, {"fail", "ctrl-c"}),
     Invoke(Flat, 1, TRUE, {"fail", "sigint"}),
     Invoke({deploy}, 1, FALSE, {"fail"})}

(* A Ctrl-C while an injected graph is run.                                *)
NestedCancelled == {Invoke(Nested, 2, FALSE, {"ctrl-c"})}
=============================================================================
