--------------------------- MODULE VersionInstall --------------------------
(***************************************************************************)
(* One version of one tool on disk: install_version, uninstall_version and *)
(* `mise link` of concurrent mise processes, and the check                 *)
(* is_version_installed, which takes no lock. The version may be installed *)
(* at several paths (local, shared, system); the paths share one lock, one *)
(* incomplete marker and one postinstall token (toolset/install_state.rs). *)
(* Any step may fail and any process may be killed, which frees its lock.  *)
(*                                                                         *)
(* Three things leave a half-done path without a marker: the backend's own *)
(* uninstall, which runs before the removal is marked, `link --force`,     *)
(* which does not mark, and the marker that is cleared for another path.   *)
(* `orphaned` records these paths and the properties except them by name.  *)
(*                                                                         *)
(* The identity layout, rolling versions, in-place repairs, the markers    *)
(* of older versions and purge are left out.                               *)
(***************************************************************************)
EXTENDS Naturals

CONSTANTS
    Proc,       \* processes that install, uninstall and link
    Checker,    \* processes that check
    Path,       \* the install paths of the version
    Free,       \* nobody holds the lock
    Requests,   \* what a process may be asked to do
    OwnUninstall,   \* the backend has an uninstall_version_impl that removes things
    MaxOps      \* bound: operations

Request == [kind : {"install", "uninstall", "link"}, path : Path, force : BOOLEAN,
            hook : {"none", "once", "always"}]

ASSUME ProcAssumption == Free \notin Proc \cup Checker /\ Proc \cap Checker = {}
ASSUME RequestAssumption == Requests \subseteq Request /\ Requests # {}
ASSUME OwnUninstallAssumption == OwnUninstall \in BOOLEAN
ASSUME MaxOpsAssumption == MaxOps \in Nat

VARIABLES
    lock,       \* the holder of the version's lock
    marker,     \* the incomplete marker exists
    dir,        \* each path: absent, partial, filled (its hook is to run), complete
    token,      \* the postinstall token: the number of its operation, 0: no file
    ops,        \* the operations so far
    pc, op,
    my,         \* the number of the operation of a process
    was,        \* was_incomplete of create_install_dirs
    fresh,      \* the hook runs for a new install, not for one found satisfied
    ok,         \* what the operation returns
    issued,     \* history: <<token, path>> of the hooks that were started
    killed,     \* history: the tokens that were not removed when their hook ended
    orphaned,   \* history: half-done paths without a marker (Unmark, Gut)
    cpc, cpath, ctok,   \* a check, its path and the token in its environment
    cexists,    \* what it read of the path
    cmatch,     \* the token matched and the lock was held
    answer,     \* its answer
    ccomplete,  \* history: the path was complete at some moment of the check
    ccleared,   \* history: a marker was cleared during the check
    corphaned,  \* history: the path was orphaned at some moment of the check
    clive       \* history: the hook of its token ran at some moment of the check

opVars == <<lock, marker, dir, token, ops, pc, op, my, was, fresh, ok, killed, orphaned, issued>>
readVars == <<cpc, cpath, ctok, cexists, cmatch, answer>>
seenVars == <<ccomplete, ccleared, corphaned, clive>>
vars == <<opVars, readVars, seenVars>>

DirState == {"absent", "partial", "filled", "complete"}

HalfDone(s) == s \in {"partial", "filled"}

(* The locals of an operation and of a check that is over.                 *)
NoRequest == CHOOSE r \in Requests : TRUE
NoPath == CHOOSE x \in Path : TRUE

HookRuns(n) == \E p \in Proc : pc[p] \in {"hook", "hookEnd"} /\ my[p] = n

Init ==
    /\ lock = Free
    /\ marker = FALSE
    /\ dir \in [Path -> {"absent", "complete"}]
    /\ token = 0 /\ ops = 0
    /\ pc = [p \in Proc |-> "idle"]
    /\ op = [p \in Proc |-> NoRequest]
    /\ my = [p \in Proc |-> 0]
    /\ was = [p \in Proc |-> FALSE]
    /\ fresh = [p \in Proc |-> FALSE]
    /\ ok = [p \in Proc |-> FALSE]
    /\ killed = {} /\ orphaned = {} /\ issued = {}
    /\ cpc = [c \in Checker |-> "idle"]
    /\ cpath = [c \in Checker |-> NoPath]
    /\ ctok = [c \in Checker |-> 0]
    /\ cexists = [c \in Checker |-> FALSE]
    /\ cmatch = [c \in Checker |-> FALSE]
    /\ answer = [c \in Checker |-> FALSE]
    /\ ccomplete = [c \in Checker |-> FALSE]
    /\ ccleared = [c \in Checker |-> FALSE]
    /\ corphaned = [c \in Checker |-> FALSE]
    /\ clive = [c \in Checker |-> FALSE]

-----------------------------------------------------------------------------
(***************************************************************************)
(* Steps of an operation. Goto moves its process on; Return ends it, and   *)
(* the lock is freed when the process drops it.                            *)
(***************************************************************************)
Goto(p, l) == pc' = [pc EXCEPT ![p] = l]

Return(p, r) == Goto(p, "return") /\ ok' = [ok EXCEPT ![p] = r]

Idle(p) ==
    /\ Goto(p, "idle")
    /\ op' = [op EXCEPT ![p] = NoRequest]
    /\ my' = [my EXCEPT ![p] = 0]
    /\ was' = [was EXCEPT ![p] = FALSE]
    /\ fresh' = [fresh EXCEPT ![p] = FALSE]
    /\ ok' = [ok EXCEPT ![p] = FALSE]

Start(p, r) ==
    /\ pc[p] = "idle"
    /\ ops < MaxOps
    /\ ops' = ops + 1
    /\ op' = [op EXCEPT ![p] = r]
    /\ my' = [my EXCEPT ![p] = ops + 1]
    /\ Goto(p, "lock")
    /\ UNCHANGED <<lock, marker, dir, token, was, fresh, ok, killed, orphaned, issued>>

(* Mutant: the result of try_lock is not looked at.                        *)
TakeLockAnyway(p) ==
    /\ pc[p] = "lock"
    /\ lock' = p
    /\ Goto(p, "locked")
    /\ UNCHANGED <<marker, dir, token, ops, op, my, was, fresh, ok, killed, orphaned, issued>>

(* lock_tool_version: the lock, then the token a killed installer left. A  *)
(* token that cannot be removed stays.                                     *)
TakeLock(p) ==
    /\ pc[p] = "lock"
    /\ lock = Free
    /\ lock' = p
    /\ Goto(p, "locked")
    /\ UNCHANGED <<marker, dir, token, ops, op, my, was, fresh, ok, killed, orphaned, issued>>

DropStaleToken(p) ==
    /\ pc[p] = "locked"
    /\ token' \in {0, token}
    /\ Goto(p, op[p].kind)
    /\ UNCHANGED <<lock, marker, dir, ops, op, my, was, fresh, ok, killed, orphaned, issued>>

(* Mutant: an operation that fails keeps the lock.                         *)
ReleaseKeeps(p) ==
    /\ pc[p] = "return"
    /\ lock' = IF ok[p] THEN Free ELSE lock
    /\ Idle(p)
    /\ UNCHANGED <<marker, dir, token, ops, killed, orphaned, issued>>

Release(p) ==
    /\ pc[p] = "return"
    /\ lock' = Free
    /\ Idle(p)
    /\ UNCHANGED <<marker, dir, token, ops, killed, orphaned, issued>>

(* clear_incomplete_marker on behalf of a path: the marker also goes for   *)
(* the other paths.                                                        *)
Unmark(x) ==
    /\ marker' = FALSE
    /\ orphaned' = {y \in Path : HalfDone(dir[y]) /\ y # x} \cup (orphaned \ {x})

(* mark_incomplete: every half-done path is marked again.                  *)
Mark ==
    /\ marker' = TRUE
    /\ orphaned' = {}

(* A path is removed, half way so far, by what does not mark it first.     *)
Gut(x) ==
    /\ dir' = [dir EXCEPT ![x] = "partial"]
    /\ orphaned' = IF marker THEN orphaned ELSE orphaned \cup {x}

Gone(x) ==
    /\ dir' = [dir EXCEPT ![x] = "absent"]
    /\ orphaned' = orphaned \ {x}

-----------------------------------------------------------------------------
(***************************************************************************)
(* install_version, after its lock.                                        *)
(***************************************************************************)
Satisfied(x) == dir[x] # "absent" /\ ~marker

Check(p) ==
    LET r == op[p]
    IN /\ pc[p] = "install"
       /\ \/ /\ Satisfied(r.path) /\ r.force
             /\ Goto(p, "reinstall")
             /\ UNCHANGED <<fresh, ok>>
          \/ /\ Satisfied(r.path) /\ ~r.force /\ r.hook = "always"
             /\ Goto(p, "hookStart")
             /\ fresh' = [fresh EXCEPT ![p] = FALSE]
             /\ UNCHANGED ok
          \/ /\ Satisfied(r.path) /\ ~r.force /\ r.hook # "always"
             /\ Return(p, TRUE)
             /\ UNCHANGED fresh
          \/ /\ ~Satisfied(r.path)
             /\ Goto(p, "mark")
             /\ UNCHANGED <<fresh, ok>>
       /\ UNCHANGED <<lock, marker, dir, token, ops, op, my, was, killed, orphaned, issued>>

(* Mutant: a new install is not marked.                                    *)
MarkNothing(p, good) ==
    /\ pc[p] = "mark"
    /\ was' = [was EXCEPT ![p] = marker]
    /\ Goto(p, "make")
    /\ UNCHANGED <<lock, marker, dir, token, ops, op, my, fresh, ok, killed, orphaned, issued>>

(* create_install_dirs marks first.                                        *)
MarkInstall(p, good) ==
    /\ pc[p] = "mark"
    /\ was' = [was EXCEPT ![p] = marker]
    /\ \/ good /\ Mark /\ Goto(p, "make") /\ UNCHANGED ok
       \/ ~good /\ Return(p, FALSE) /\ UNCHANGED <<marker, orphaned>>
    /\ UNCHANGED <<lock, dir, token, ops, op, my, fresh, killed, issued>>

(* make_install_dirs removes what is there and creates the directories;    *)
(* when that fails the path may exist or not.                              *)
Make(p, d) ==
    /\ pc[p] = "make"
    /\ dir' = [dir EXCEPT ![op[p].path] = d]
    /\ \/ d = "partial" /\ Goto(p, "fill") /\ UNCHANGED ok
       \/ (was[p] \/ d # "absent") /\ Return(p, FALSE)
       \/ ~was[p] /\ d = "absent" /\ Goto(p, "giveUp") /\ UNCHANGED ok
    /\ UNCHANGED <<lock, marker, token, ops, op, my, was, fresh, killed, orphaned, issued>>

(* The backend's install_version_ and the bookkeeping after it. A failure  *)
(* of the first removes the directory, unless it is kept or cannot be      *)
(* removed; a failure of the second leaves it.                             *)
Fill(p, d) ==
    /\ pc[p] = "fill"
    /\ dir' = [dir EXCEPT ![op[p].path] = d]
    /\ \/ d = "filled" /\ Goto(p, "hookStart") /\ UNCHANGED ok
       \/ HalfDone(d) /\ Return(p, FALSE)
       \/ d = "absent" /\ Goto(p, "giveUp") /\ UNCHANGED ok
    /\ fresh' = [fresh EXCEPT ![p] = TRUE]
    /\ UNCHANGED <<lock, marker, token, ops, op, my, was, killed, orphaned, issued>>

(* The marker of an install that left no directory, best effort.           *)
GiveUp(p, good) ==
    /\ pc[p] = "giveUp"
    /\ IF good THEN Unmark(op[p].path) ELSE UNCHANGED <<marker, orphaned>>
    /\ Return(p, FALSE)
    /\ UNCHANGED <<lock, dir, token, ops, op, my, was, fresh, killed, issued>>

(* finish_install_changes: without a hook the install is complete.         *)
NoHook(p) ==
    /\ pc[p] = "hookStart"
    /\ op[p].hook = "none"
    /\ dir' = [dir EXCEPT ![op[p].path] = "complete"]
    /\ Goto(p, "clear")
    /\ UNCHANGED <<lock, marker, token, ops, op, my, was, fresh, ok, killed, orphaned, issued>>

(* PostinstallToken::start.                                                *)
HookStart(p, good) ==
    /\ pc[p] = "hookStart"
    /\ op[p].hook # "none"
    /\ \/ /\ good
          /\ token' = my[p]
          /\ issued' = issued \cup {<<my[p], op[p].path>>}
          /\ Goto(p, "hook")
          /\ UNCHANGED ok
       \/ /\ ~good
          /\ Return(p, FALSE)
          /\ UNCHANGED <<token, issued>>
    /\ UNCHANGED <<lock, marker, dir, ops, op, my, was, fresh, killed, orphaned>>

HookExits(p, good) ==
    /\ pc[p] = "hook"
    /\ ok' = [ok EXCEPT ![p] = good]
    /\ Goto(p, "hookEnd")
    /\ UNCHANGED <<lock, marker, dir, token, ops, op, my, was, fresh, killed, orphaned, issued>>

(* Mutant: the token outlives a hook that failed.                          *)
HookEndKeeps(p, dropped) ==
    /\ pc[p] = "hookEnd"
    /\ token' = IF ok[p] THEN 0 ELSE token
    /\ \/ ~ok[p] /\ Return(p, FALSE) /\ UNCHANGED dir
       \/ ok[p] /\ fresh[p] /\ dir' = [dir EXCEPT ![op[p].path] = "complete"] /\ Goto(p, "clear")
            /\ UNCHANGED ok
       \/ ok[p] /\ ~fresh[p] /\ Return(p, TRUE) /\ UNCHANGED dir
    /\ UNCHANGED <<lock, marker, ops, op, my, was, fresh, killed, orphaned, issued>>

(* Mutant: the result of the hook is not looked at.                        *)
HookEndIgnores(p, dropped) ==
    /\ pc[p] = "hookEnd"
    /\ token' = 0
    /\ \/ fresh[p] /\ Goto(p, "clear") /\ UNCHANGED ok
       \/ ~fresh[p] /\ Return(p, TRUE)
    /\ UNCHANGED <<lock, marker, dir, ops, op, my, was, fresh, killed, orphaned, issued>>

(* The token is dropped, whether or not the hook succeeded.                *)
HookEnd(p, dropped) ==
    /\ pc[p] = "hookEnd"
    /\ token' = IF dropped THEN 0 ELSE token
    /\ killed' = IF dropped THEN killed ELSE killed \cup {my[p]}
    /\ \/ ~ok[p] /\ Return(p, FALSE) /\ UNCHANGED dir
       \/ ok[p] /\ fresh[p] /\ dir' = [dir EXCEPT ![op[p].path] = "complete"] /\ Goto(p, "clear")
            /\ UNCHANGED ok
       \/ ok[p] /\ ~fresh[p] /\ Return(p, TRUE) /\ UNCHANGED dir
    /\ UNCHANGED <<lock, marker, ops, op, my, was, fresh, orphaned, issued>>

(* The marker goes, best effort, and the backend verifies the install.     *)
Clear(p, good) ==
    /\ pc[p] = "clear"
    /\ IF good THEN Unmark(op[p].path) ELSE UNCHANGED <<marker, orphaned>>
    /\ Return(p, TRUE) \/ Return(p, FALSE)
    /\ UNCHANGED <<lock, dir, token, ops, op, my, was, fresh, killed, issued>>

(***************************************************************************)
(* uninstall_version_unlocked, on its own and before a forced install.     *)
(***************************************************************************)

(* uninstall_version_impl of a backend that has one (asdf, vfox, dotnet,   *)
(* rust) removes what it will, before anything is marked.                  *)
BackendRemoves(p) ==
    /\ pc[p] \in {"uninstall", "reinstall"}
    /\ OwnUninstall
    /\ dir[op[p].path] \notin {"absent", "partial"}
    /\ Gut(op[p].path)
    /\ UNCHANGED <<lock, marker, token, ops, pc, op, my, was, fresh, ok, killed, issued>>

(* It ends, the path perhaps gone, or fails and leaves it as it is. The    *)
(* default does nothing and succeeds.                                      *)
BackendUninstalled(p, gone, good) ==
    /\ pc[p] \in {"uninstall", "reinstall"}
    /\ gone \/ ~good => OwnUninstall
    /\ IF gone THEN Gone(op[p].path) ELSE UNCHANGED <<dir, orphaned>>
    /\ \/ good /\ Goto(p, "rmMark") /\ UNCHANGED ok
       \/ ~good /\ Return(p, FALSE)
    /\ UNCHANGED <<lock, marker, token, ops, op, my, was, fresh, killed, issued>>

(* guard_removal, then the marker; either may fail.                        *)
MarkRemoval(p, good) ==
    /\ pc[p] = "rmMark"
    /\ \/ good /\ Mark /\ Goto(p, "rm") /\ UNCHANGED ok
       \/ ~good /\ Return(p, FALSE) /\ UNCHANGED <<marker, orphaned>>
    /\ UNCHANGED <<lock, dir, token, ops, op, my, was, fresh, killed, issued>>

RemoveBegins(p) ==
    /\ pc[p] = "rm"
    /\ dir' = [dir EXCEPT ![op[p].path] = IF @ = "absent" THEN "absent" ELSE "partial"]
    /\ Goto(p, "rming")
    /\ UNCHANGED <<lock, marker, token, ops, op, my, was, fresh, ok, killed, orphaned, issued>>

(* Mutant: a removal that failed is taken for one that succeeded.          *)
RemoveEndsAnyway(p, good) ==
    /\ pc[p] = "rming"
    /\ dir' = IF good THEN [dir EXCEPT ![op[p].path] = "absent"] ELSE dir
    /\ Goto(p, "rmClear")
    /\ UNCHANGED <<lock, marker, token, ops, op, my, was, fresh, ok, killed, orphaned, issued>>

RemoveEnds(p, good) ==
    /\ pc[p] = "rming"
    /\ \/ good /\ dir' = [dir EXCEPT ![op[p].path] = "absent"] /\ Goto(p, "rmClear") /\ UNCHANGED ok
       \/ ~good /\ Return(p, FALSE) /\ UNCHANGED dir
    /\ UNCHANGED <<lock, marker, token, ops, op, my, was, fresh, killed, orphaned, issued>>

(* The marker, then downloads and cache, whose removal may fail.           *)
ClearRemoval(p, good) ==
    /\ pc[p] = "rmClear"
    /\ \/ Unmark(op[p].path)
       \/ ~good /\ UNCHANGED <<marker, orphaned>>
    /\ \/ good /\ op[p].kind = "install" /\ Goto(p, "mark") /\ UNCHANGED ok
       \/ good /\ op[p].kind = "uninstall" /\ Return(p, TRUE)
       \/ ~good /\ Return(p, FALSE)
    /\ UNCHANGED <<lock, dir, token, ops, op, my, was, fresh, killed, issued>>

(***************************************************************************)
(* Link::run, to a directory that exists. A link to it that is there stays;*)
(* with --force anything else is removed, without a marker.                *)
(***************************************************************************)
LinkRemove(p) ==
    /\ pc[p] = "link"
    /\ dir[op[p].path] # "absent"
    /\ \/ /\ op[p].force
          /\ Gut(op[p].path)
          /\ Goto(p, "linkRm")
          /\ UNCHANGED ok
       \/ /\ ~op[p].force
          /\ Return(p, FALSE)
          /\ UNCHANGED <<dir, orphaned>>
       \/ /\ dir[op[p].path] = "complete"
          /\ Goto(p, "linkClear")
          /\ UNCHANGED <<dir, orphaned, ok>>
    /\ UNCHANGED <<lock, marker, token, ops, op, my, was, fresh, killed, issued>>

LinkRemoved(p, good) ==
    /\ pc[p] = "linkRm"
    /\ \/ good /\ Gone(op[p].path) /\ Goto(p, "link") /\ UNCHANGED ok
       \/ ~good /\ Return(p, FALSE) /\ UNCHANGED <<dir, orphaned>>
    /\ UNCHANGED <<lock, marker, token, ops, op, my, was, fresh, killed, issued>>

MakeLink(p, good) ==
    /\ pc[p] = "link"
    /\ dir[op[p].path] = "absent"
    /\ \/ good /\ dir' = [dir EXCEPT ![op[p].path] = "complete"] /\ Goto(p, "linkClear")
            /\ UNCHANGED ok
       \/ ~good /\ Return(p, FALSE) /\ UNCHANGED dir
    /\ UNCHANGED <<lock, marker, token, ops, op, my, was, fresh, killed, orphaned, issued>>

ClearLink(p, good) ==
    /\ pc[p] = "linkClear"
    /\ \/ good /\ Unmark(op[p].path) /\ Return(p, TRUE)
       \/ ~good /\ Return(p, FALSE) /\ UNCHANGED <<marker, orphaned>>
    /\ UNCHANGED <<lock, dir, token, ops, op, my, was, fresh, killed, issued>>

(* The process is killed; the system frees its lock.                       *)
Kill(p) ==
    /\ pc[p] # "idle"
    /\ Idle(p)
    /\ lock' = IF lock = p THEN Free ELSE lock
    /\ killed' = IF pc[p] \in {"hook", "hookEnd"} THEN killed \cup {my[p]} ELSE killed
    /\ UNCHANGED <<marker, dir, token, ops, orphaned, issued>>

-----------------------------------------------------------------------------
(***************************************************************************)
(* is_version_installed: the path, then whether this is a process of the   *)
(* running postinstall hook (its token is the current one, and the lock    *)
(* cannot be had), then the marker. A process that a hook started may also *)
(* check after the hook has ended.                                         *)
(***************************************************************************)
CGoto(c, l) == cpc' = [cpc EXCEPT ![c] = l]

CheckStart(c, x, t) ==
    /\ cpc[c] = "idle"
    /\ t = 0 \/ <<t, x>> \in issued
    /\ cpath' = [cpath EXCEPT ![c] = x]
    /\ ctok' = [ctok EXCEPT ![c] = t]
    /\ CGoto(c, "exists")
    /\ ccomplete' = [ccomplete EXCEPT ![c] = dir[x] = "complete"]
    /\ corphaned' = [corphaned EXCEPT ![c] = x \in orphaned]
    /\ clive' = [clive EXCEPT ![c] = HookRuns(t)]
    /\ UNCHANGED <<opVars, cexists, cmatch, answer, ccleared>>

ReadExists(c) ==
    /\ cpc[c] = "exists"
    /\ cexists' = [cexists EXCEPT ![c] = dir[cpath[c]] # "absent"]
    /\ CGoto(c, IF ctok[c] = 0 THEN "marker" ELSE "token")
    /\ UNCHANGED <<opVars, cpath, ctok, cmatch, answer, seenVars>>

ReadToken(c) ==
    /\ cpc[c] = "token"
    /\ CGoto(c, IF token = ctok[c] THEN "probe" ELSE "marker")
    /\ UNCHANGED <<opVars, cpath, ctok, cexists, cmatch, answer, seenVars>>

(* try_lock: the probe holds the lock for a moment when it gets it.        *)
Probe(c) ==
    /\ cpc[c] = "probe"
    /\ \/ /\ lock = Free
          /\ lock' = c
          /\ CGoto(c, "unprobe")
          /\ UNCHANGED cmatch
       \/ /\ lock # Free
          /\ cmatch' = [cmatch EXCEPT ![c] = TRUE]
          /\ CGoto(c, "marker")
          /\ UNCHANGED lock
    /\ UNCHANGED <<marker, dir, token, ops, pc, op, my, was, fresh, ok, killed, orphaned, issued,
                   cpath, ctok, cexists, answer, seenVars>>

Unprobe(c) ==
    /\ cpc[c] = "unprobe"
    /\ lock' = Free
    /\ CGoto(c, "marker")
    /\ UNCHANGED <<marker, dir, token, ops, pc, op, my, was, fresh, ok, killed, orphaned, issued,
                   cpath, ctok, cexists, cmatch, answer, seenVars>>

ReadMarker(c) ==
    /\ cpc[c] = "marker"
    /\ answer' = [answer EXCEPT ![c] = cexists[c] /\ (~marker \/ cmatch[c])]
    /\ CGoto(c, "answered")
    /\ UNCHANGED <<opVars, cpath, ctok, cexists, cmatch, seenVars>>

CheckEnds(c) ==
    /\ cpc[c] = "answered"
    /\ CGoto(c, "idle")
    /\ cpath' = [cpath EXCEPT ![c] = NoPath]
    /\ ctok' = [ctok EXCEPT ![c] = 0]
    /\ cexists' = [cexists EXCEPT ![c] = FALSE]
    /\ cmatch' = [cmatch EXCEPT ![c] = FALSE]
    /\ answer' = [answer EXCEPT ![c] = FALSE]
    /\ ccomplete' = [ccomplete EXCEPT ![c] = FALSE]
    /\ ccleared' = [ccleared EXCEPT ![c] = FALSE]
    /\ corphaned' = [corphaned EXCEPT ![c] = FALSE]
    /\ clive' = [clive EXCEPT ![c] = FALSE]
    /\ UNCHANGED opVars

-----------------------------------------------------------------------------
Step(p) ==
    \/ TakeLock(p) \/ DropStaleToken(p) \/ Release(p) \/ Check(p) \/ NoHook(p)
    \/ BackendRemoves(p) \/ RemoveBegins(p) \/ LinkRemove(p)
    \/ \E gone, good \in BOOLEAN : BackendUninstalled(p, gone, good)
    \/ \E d \in {"absent", "partial"} : Make(p, d)
    \/ \E d \in {"absent", "partial", "filled"} : Fill(p, d)
    \/ \E good \in BOOLEAN :
          \/ MarkInstall(p, good) \/ GiveUp(p, good) \/ HookStart(p, good) \/ HookExits(p, good)
          \/ HookEnd(p, good) \/ Clear(p, good) \/ MarkRemoval(p, good) \/ RemoveEnds(p, good)
          \/ ClearRemoval(p, good) \/ LinkRemoved(p, good) \/ MakeLink(p, good)
          \/ ClearLink(p, good)

OpStep == \E p \in Proc : Step(p) \/ Kill(p) \/ \E r \in Requests : Start(p, r)

Checking(c) == cpc[c] \notin {"idle", "answered"}

(* What the checks under way could have seen of a step of an operation.    *)
Observe ==
    /\ UNCHANGED readVars
    /\ ccomplete' = [c \in Checker |->
                        ccomplete[c] \/ (Checking(c) /\ dir'[cpath[c]] = "complete")]
    /\ ccleared' = [c \in Checker |-> ccleared[c] \/ (Checking(c) /\ marker /\ ~marker')]
    /\ corphaned' = [c \in Checker |-> corphaned[c] \/ (Checking(c) /\ cpath[c] \in orphaned')]
    /\ clive' = [c \in Checker |-> clive[c] \/ (Checking(c) /\ HookRuns(ctok[c])')]

CheckStep(c) ==
    \/ ReadExists(c) \/ ReadToken(c) \/ Probe(c) \/ Unprobe(c) \/ ReadMarker(c) \/ CheckEnds(c)

Next ==
    \/ OpStep /\ Observe
    \/ \E c \in Checker : CheckStep(c) \/ \E x \in Path, t \in 0..MaxOps : CheckStart(c, x, t)

(* Each process goes on; commands and hooks end.                           *)
Fairness ==
    /\ \A p \in Proc : WF_vars(Step(p) /\ Observe)
    /\ \A c \in Checker : WF_vars(CheckStep(c))

Spec == Init /\ [][Next]_vars /\ Fairness

-----------------------------------------------------------------------------
PcState == {"idle", "lock", "locked", "install", "uninstall", "link", "mark", "make", "fill",
            "giveUp", "hookStart", "hook", "hookEnd", "clear", "reinstall", "rmMark", "rm",
            "rming", "rmClear", "linkRm", "linkClear", "return"}

(* The lock has one holder: whoever is past taking it.                     *)
OneHolder ==
    /\ \A p \in Proc : pc[p] \notin {"idle", "lock"} => lock = p
    /\ \A c \in Checker : cpc[c] = "unprobe" => lock = c

OpTypeOK ==
    /\ lock \in Proc \cup Checker \cup {Free}
    /\ marker \in BOOLEAN
    /\ dir \in [Path -> DirState]
    /\ token \in 0..MaxOps /\ ops \in 0..MaxOps
    /\ pc \in [Proc -> PcState]
    /\ op \in [Proc -> Request]
    /\ my \in [Proc -> 0..MaxOps]
    /\ was \in [Proc -> BOOLEAN] /\ fresh \in [Proc -> BOOLEAN] /\ ok \in [Proc -> BOOLEAN]
    /\ killed \subseteq 0..MaxOps /\ orphaned \subseteq Path
    /\ issued \subseteq (0..MaxOps) \X Path

CheckTypeOK ==
    /\ cpc \in [Checker -> {"idle", "exists", "token", "probe", "unprobe", "marker", "answered"}]
    /\ cpath \in [Checker -> Path] /\ ctok \in [Checker -> 0..MaxOps]
    /\ cexists \in [Checker -> BOOLEAN] /\ cmatch \in [Checker -> BOOLEAN]
    /\ answer \in [Checker -> BOOLEAN]
    /\ ccomplete \in [Checker -> BOOLEAN] /\ ccleared \in [Checker -> BOOLEAN]
    /\ corphaned \in [Checker -> BOOLEAN] /\ clive \in [Checker -> BOOLEAN]

(* Types, and the holder of the lock.                                      *)
TypeOK == OneHolder /\ OpTypeOK /\ CheckTypeOK

(* A directory that is being filled, being removed, waits for its hook or  *)
(* was left so by a failure or a kill is marked, whatever else happened to *)
(* the version since. The exceptions are three: the marker was cleared for *)
(* another path, or `link --force` or the backend's own uninstall removes  *)
(* the path without one (NothingOrphaned proves that there is no fourth).  *)
HalfDoneIsMarked ==
    \A x \in Path \ orphaned : HalfDone(dir[x]) => marker

(* A check that answers "installed", not on account of a hook's token, has *)
(* a moment at which the path was complete, unless a marker was cleared    *)
(* during the check (see CheckSawComplete) or the path lost its marker.    *)
CheckIsHonest ==
    \A c \in Checker :
        cpc[c] = "answered" /\ answer[c] /\ ~cmatch[c]
            => ccomplete[c] \/ ccleared[c] \/ corphaned[c]

(* create_install_dirs: "a check that takes no lock ... reads a directory  *)
(* without a marker as complete, and would otherwise see one while it is   *)
(* being removed, created or filled in". The check reads the path first    *)
(* and the marker later, so it does: an install that fails in between      *)
(* removes the directory and then its marker.                              *)
CheckSawComplete ==
    \A c \in Checker :
        cpc[c] = "answered" /\ answer[c] /\ ~cmatch[c] /\ ~corphaned[c] => ccomplete[c]

(* A process of a postinstall hook that is let through to the half-done    *)
(* version was so while its hook ran; excepted are hooks whose token       *)
(* outlived them because the installer was killed.                         *)
TokenIsLive ==
    \A c \in Checker : cmatch[c] /\ ctok[c] \notin killed => clive[c]

Intact(x) == dir[x] = "complete" \/ x \in orphaned

Reported(p) ==
    pc[p] = "return" /\ ok[p] =>
        IF op[p].kind = "uninstall" THEN dir[op[p].path] = "absent" ELSE Intact(op[p].path)

(* What an operation reports is what it leaves: an install or a link that  *)
(* succeeds leaves a complete version, an uninstall none, with other       *)
(* processes at work on the same version and any of their steps failing.   *)
(* An install that finds a path that lost its marker reports it installed: *)
(* those paths are excepted, and no others.                                *)
ReportedIsReal == \A p \in Proc : Reported(p)

-----------------------------------------------------------------------------
(***************************************************************************)
(* The parts of the inductive invariant beside the properties.             *)
(***************************************************************************)

(* What the process that is at a step knows of its request, of its path    *)
(* and of the marker.                                                      *)
AtStep(p) ==
    LET k == op[p].kind
        d == dir[op[p].path]
        hooking == pc[p] \in {"hookStart", "hook", "hookEnd"}
    IN /\ pc[p] \in {"install", "mark", "make", "fill", "giveUp", "clear", "reinstall"} \/ hooking
            => k = "install"
       /\ pc[p] = "uninstall" => k = "uninstall"
       /\ pc[p] \in {"rmMark", "rm", "rming", "rmClear"} => k \in {"install", "uninstall"}
       /\ pc[p] \in {"link", "linkRm", "linkClear"} => k = "link"
       /\ pc[p] \in {"make", "fill", "rm", "rming"} => marker
       /\ pc[p] \in {"giveUp", "rmClear"} => d = "absent"
       /\ pc[p] \in {"clear", "linkClear"} => d = "complete"
       /\ hooking /\ fresh[p] => marker
       /\ hooking /\ ~fresh[p] => Intact(op[p].path)

TokenHasHook == token # 0 => token \in killed \/ HookRuns(token)

(* What a check has recorded of what it could see.                         *)
Recorded(c) ==
    /\ Checking(c) /\ dir[cpath[c]] = "complete" => ccomplete[c]
    /\ Checking(c) /\ cpath[c] \in orphaned => corphaned[c]
    /\ Checking(c) /\ HookRuns(ctok[c]) => clive[c]
    /\ cpc[c] \in {"token", "probe", "unprobe", "marker"} /\ cexists[c] /\ ~marker
            => ccomplete[c] \/ ccleared[c] \/ corphaned[c]
    /\ cpc[c] = "token" => ctok[c] # 0
    /\ cpc[c] = "probe" => ctok[c] \in killed \/ clive[c]
    /\ cpc[c] = "idle" => ~cmatch[c]

IInv ==
    /\ TypeOK
    /\ HalfDoneIsMarked
    /\ \A p \in Proc : AtStep(p)
    /\ ReportedIsReal
    /\ TokenHasHook
    /\ \A c \in Checker : Recorded(c)
    /\ CheckIsHonest
    /\ TokenIsLive

(* A lock that is taken is freed again, whatever fails and whoever dies:   *)
(* no process waits for good on one that nobody will free.                 *)
LockIsFreed == lock # Free ~> lock = Free
=============================================================================
