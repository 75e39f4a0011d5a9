---------------------------- MODULE InstallPlan ----------------------------
(***************************************************************************)
(* What the dependency-ordered installation promises, with no graph, no    *)
(* channel, no permits and no join order: each tool is begun at most once, *)
(* only when everything it needs is installed; each tool begun ends        *)
(* installed or failed; and the rest is given up, once, only when nothing  *)
(* is under way and nothing more can begin.                                *)
(***************************************************************************)
CONSTANT Tool

VARIABLES
    needs,      \* <<tool, other>>: tool needs other
    status      \* the status of every tool

Status == {"waiting", "installing", "installed", "failed", "skipped"}

Ready(t) ==
    /\ status[t] = "waiting"
    /\ \A d \in Tool : <<t, d>> \in needs => status[d] = "installed"

Init ==
    /\ needs \subseteq Tool \X Tool
    /\ status = [t \in Tool |-> "waiting"]

Begin(t) ==
    /\ Ready(t)
    /\ status' = [status EXCEPT ![t] = "installing"]
    /\ UNCHANGED needs

End(t) ==
    /\ status[t] = "installing"
    /\ \E s \in {"installed", "failed"} : status' = [status EXCEPT ![t] = s]
    /\ UNCHANGED needs

GiveUp ==
    /\ \A t \in Tool : status[t] # "installing" /\ ~Ready(t)
    /\ status' = [t \in Tool |-> IF status[t] = "waiting" THEN "skipped" ELSE status[t]]
    /\ UNCHANGED needs

Next == (\E t \in Tool : Begin(t) \/ End(t)) \/ GiveUp

Spec == Init /\ [][Next]_<<needs, status>>

(* Nothing is waiting or under way any more.                               *)
Settled == \A t \in Tool : status[t] \in {"installed", "failed", "skipped"}

(* Every installation settles.                                             *)
Settles == <>[]Settled
=============================================================================
