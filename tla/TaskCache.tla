------------------------------ MODULE TaskCache ------------------------------
(***************************************************************************)
(* The artifact cache of one task in one working directory                 *)
(* (src/src/task/task_cache.rs, task_cache_store.rs, and the part of       *)
(* run_task_sched in task_executor.rs that uses them): processes of        *)
(* `mise run` skip, restore or run the task and store its result, and      *)
(* processes of `mise cache task clear` remove its entries.                *)
(*                                                                         *)
(* A run of the command is a number.  The same number stands for what the  *)
(* run writes to an output root, for the archive stored of it and for the  *)
(* manifest stored of it (log, checksum of the archive): the checksum of a *)
(* manifest agrees with an archive exactly when the numbers agree.         *)
(* content[n] is what archive n unpacks to.  Each invocation finds the     *)
(* task's inputs as they are then, and so has any of the keys.             *)
(***************************************************************************)
EXTENDS Naturals, Sequences

CONSTANTS
    Key,            \* cache keys the task can have
    Roots,          \* number of its declared output roots
    Offers,         \* <<mode, force>>: --task-cache and --force of an invocation
    Raws,           \* subset of BOOLEAN: is the task raw or interactive
    Starts,         \* earlier runs and where their entries are
    None,           \* no process, no key, nothing there
    MaxProcs,       \* bound on mise processes
    MaxFaults       \* bound on kills and failed installs

ASSUME ConstantsFit ==
    /\ Offers \subseteq {"read-write", "read-only", "write-only", "off", "local-only"} \X BOOLEAN
    /\ Raws \subseteq BOOLEAN
    /\ {Roots, MaxProcs, MaxFaults} \subseteq Nat /\ Roots > 0
    /\ None \notin Key \cup Nat

ASSUME StartsFit ==
    \A s \in Starts : s.done \in Seq(Key) /\ s.here \subseteq Key /\ s.there \subseteq Key

VARIABLES
    raw,            \* the task is raw or interactive
    tree,           \* root -> run whose output is there
    marker,         \* state file: the key that is current
    manifest,       \* key -> run whose manifest is in the local store
    artifact,       \* key -> run whose archive is in the local store
    parts,          \* <<key, process>>: unpublished archives on disk
    blobs,          \* runs whose blobs the remote store has
    remote,         \* key -> run the remote action result names
    content,        \* run -> what its archive unpacks to
    keyOf,          \* run -> key it ran under
    entryLock,      \* key -> process holding the lock of the entry
    outLock,        \* process holding the output lock of the directory
    pc,             \* process -> where it is
    job,            \* process -> what it works on
    backup,         \* process -> root -> output moved aside by an install
    kept,           \* outputs in backup directories left on disk
    faults,         \* kills and failures so far
    started,        \* processes started so far
    mixed,          \* history: the last run overlapped another or leaves the marker alone
    torn            \* history: no finished install explains the tree

disk == <<manifest, artifact, parts, blobs, remote>>
locks == <<entryLock, outLock>>
history == <<content, keyOf, mixed, torn>>
bounds == <<started, faults>>
vars == <<raw, tree, marker, disk, locks, pc, job, backup, kept, bounds, history>>

\* A process does one thing and ends; processes are numbered as they start.
Proc == 1..MaxProcs
Root == 1..Roots
Run == DOMAIN keyOf
NextRun == Len(keyOf) + 1
Absent == [r \in Root |-> None]

Reads(m) == m \in {"read-write", "read-only", "local-only"}
Writes(m) == m \in {"read-write", "write-only", "local-only"}
Remote(m) == m # "local-only"

NoJob == [key |-> None, mode |-> None, looks |-> FALSE, use |-> "run",
          man |-> None, art |-> None, run |-> None, left |-> {}, used |-> {},
          clean |-> FALSE]

-----------------------------------------------------------------------------
(* Small steps every operation is made of *)

Goto(p, l) == pc' = [pc EXCEPT ![p] = l]
Set(p, j) == job' = [job EXCEPT ![p] = j]
End(p) == Goto(p, "idle") /\ Set(p, NoJob)
Lock(p) == LET k == job[p].key IN
    /\ entryLock[k] = None
    /\ entryLock' = [entryLock EXCEPT ![k] = p]
Unlock(p) == entryLock' = [entryLock EXCEPT ![job[p].key] = None]

\* An access or a write moves the time of an entry: the sweeps that listed the
\* entry before see that it is newer.
Touched(k, j) ==
    [q \in Proc |-> IF pc[q] \in {"sweep", "sweep2"} /\ j[q].use = "store"
                    THEN [j[q] EXCEPT !.used = @ \cup {k}] ELSE j[q]]

\* p may still write outputs or set the marker
Active(p) == /\ job[p].use # "clear"
             /\ pc[p] \notin {"idle", "cleanup", "skip", "current", "restore", "get"}

-----------------------------------------------------------------------------
(* Invocation, freshness and the lookups of run_task_sched *)

\* An invocation with the inputs of key k.  finish() lists the unpublished
\* archives before the cache is read; with the cache off nothing is listed.
Begin(p, k, m, force) ==
    /\ p = started + 1
    /\ started' = p
    /\ Goto(p, "cleanup")
    /\ Set(p, [NoJob EXCEPT !.key = k, !.mode = m,
                            !.looks = ~force /\ (m = "off" \/ Reads(m)),
                            !.left = IF m = "off" THEN {} ELSE parts])
    /\ UNCHANGED <<raw, tree, marker, disk, locks, backup, kept, faults, history>>

\* Mutant: the cleanup does not wait for the lock of the key.
CleanupUnlocked(p, k) ==
    LET listed == {x \in job[p].left : x[1] = k} IN
    /\ pc[p] = "cleanup"
    /\ listed # {}
    /\ parts' = parts \ listed
    /\ Set(p, [job[p] EXCEPT !.left = @ \ listed])
    /\ UNCHANGED <<raw, tree, marker, manifest, artifact, blobs, remote, locks, pc,
                   backup, kept, bounds, history>>

\* cleanup_abandoned_partial_writes: under the lock of the key, the listed
\* archives that are still there go.
CleanupKey(p, k) ==
    LET listed == {x \in job[p].left : x[1] = k} IN
    /\ pc[p] = "cleanup"
    /\ listed # {} /\ entryLock[k] = None
    /\ parts' = parts \ listed
    /\ Set(p, [job[p] EXCEPT !.left = @ \ listed])
    /\ UNCHANGED <<raw, tree, marker, manifest, artifact, blobs, remote, locks, pc,
                   backup, kept, bounds, history>>

\* Which way the task goes: skip, ask the cache, or run.  sources_are_fresh
\* needs every declared output; what the timestamps and the saved source hash
\* say beyond that is left open (fresh).  A raw task also wants its marker.
Judge(p, fresh) ==
    LET j == job[p]
        off == j.mode = "off"
    IN
    /\ pc[p] = "cleanup" /\ j.left = {}
    /\ fresh => \A r \in Root : tree[r] # None
    /\ Goto(p, CASE ~j.looks -> "exec"
                 [] j.looks /\ off -> IF fresh THEN "skip" ELSE "exec"
                 [] j.looks /\ ~off /\ raw ->
                        IF marker = j.key /\ fresh THEN "skip" ELSE "exec"
                 [] OTHER -> IF fresh THEN "current" ELSE "restore")
    /\ UNCHANGED <<raw, tree, marker, disk, locks, job, backup, kept, bounds, history>>

\* "sources up-to-date, skipping": the stored log is replayed.
Skip(p) ==
    /\ pc[p] = "skip"
    /\ End(p)
    /\ UNCHANGED <<raw, tree, marker, disk, locks, backup, kept, bounds, history>>

\* current_output: under the entry lock, the marker must name this key.
CurrentOutput(p) ==
    /\ pc[p] = "current"
    /\ IF marker = job[p].key
       THEN Lock(p) /\ Goto(p, "get") /\ Set(p, [job[p] EXCEPT !.use = "current"])
       ELSE /\ entryLock[job[p].key] = None
            /\ Goto(p, "restore") /\ UNCHANGED <<entryLock, job>>
    /\ UNCHANGED <<raw, tree, marker, disk, outLock, backup, kept, bounds, history>>

Restore(p) ==
    /\ pc[p] = "restore"
    /\ Lock(p) /\ Goto(p, "get") /\ Set(p, [job[p] EXCEPT !.use = "restore"])
    /\ UNCHANGED <<raw, tree, marker, disk, outLock, backup, kept, bounds, history>>

\* Mutant: the entry lock outlives the lookup.
MissKeepsLock(p) ==
    /\ Goto(p, IF job[p].use = "current" THEN "restore" ELSE "exec")
    /\ Set(p, [job[p] EXCEPT !.man = None, !.art = None])
    /\ UNCHANGED entryLock

\* The lookup has nothing usable: current_output leaves it to restore, restore
\* to the command.
Miss(p) ==
    /\ Unlock(p)
    /\ Goto(p, IF job[p].use = "current" THEN "restore" ELSE "exec")
    /\ Set(p, [job[p] EXCEPT !.man = None, !.art = None])

\* Mutant: the archive only has to be there.
ArchiveIsThere(man, art) == art # None

\* verify_artifact_checksum: the archive is the one the manifest describes.
ChecksumAgrees(man, art) == man = art

\* The entry found: current_output skips on a good one, restore goes on to
\* install it; a bad one is a miss for current_output, and restore removes it.
Found(p, man, art) ==
    LET good == ChecksumAgrees(man, art)
        j == [job EXCEPT ![p].man = man, ![p].art = art]
    IN
    IF job[p].use = "current"
    THEN IF good THEN Unlock(p) /\ Goto(p, "skip") /\ job' = Touched(job[p].key, job)
         ELSE Miss(p)
    ELSE Goto(p, IF good THEN "outlock" ELSE "drop") /\ job' = j /\ UNCHANGED entryLock

\* store.get: the local entry, as it lies there
GetLocal(p) == LET k == job[p].key IN
    /\ pc[p] = "get" /\ manifest[k] # None
    /\ Found(p, manifest[k], artifact[k])
    /\ UNCHANGED <<raw, tree, marker, disk, outLock, backup, kept, bounds, history>>

\* The local entry exceeded max_age: current_output ignores it, restore
\* removes it.
Expired(p) ==
    /\ pc[p] = "get" /\ manifest[job[p].key] # None
    /\ IF job[p].use = "current" THEN Miss(p)
       ELSE Goto(p, "drop") /\ UNCHANGED <<entryLock, job>>
    /\ UNCHANGED <<raw, tree, marker, disk, outLock, backup, kept, bounds, history>>

\* No local entry.  The remote entry, if its blobs are all there, is copied to
\* an unpublished archive of the local store (promote).
GetRemote(p) == LET k == job[p].key IN
    /\ pc[p] = "get" /\ manifest[k] = None
    /\ Remote(job[p].mode) /\ remote[k] \in blobs
    /\ parts' = parts \cup {<<k, p>>}
    /\ Goto(p, "publish")
    /\ Set(p, [job[p] EXCEPT !.man = remote[k], !.art = remote[k]])
    /\ UNCHANGED <<raw, tree, marker, manifest, artifact, blobs, remote, locks, backup,
                   kept, bounds, history>>

\* Neither has it, or the remote store cannot be reached.
GetNothing(p) ==
    /\ pc[p] = "get" /\ manifest[job[p].key] = None
    /\ Miss(p)
    /\ UNCHANGED <<raw, tree, marker, disk, outLock, backup, kept, bounds, history>>

\* store.remove: the archive first, then the manifest; the remote entry stays.
Drop(p) ==
    /\ pc[p] = "drop"
    /\ artifact' = [artifact EXCEPT ![job[p].key] = None]
    /\ Goto(p, "drop2")
    /\ UNCHANGED <<raw, tree, marker, manifest, parts, blobs, remote, locks, job, backup,
                   kept, bounds, history>>

DropEnds(p) ==
    /\ pc[p] = "drop2"
    /\ manifest' = [manifest EXCEPT ![job[p].key] = None]
    /\ Miss(p)
    /\ UNCHANGED <<raw, tree, marker, artifact, parts, blobs, remote, outLock, backup,
                   kept, bounds, history>>

-----------------------------------------------------------------------------
(* Publishing an entry: promote() and store(), both under the entry lock *)

\* store(): every output pattern must match something; the archive is written
\* next to the entry and its checksum goes into the manifest.  Outputs that are
\* missing fail the store, which is only warned about.
Store(p) ==
    /\ pc[p] = "store"
    /\ IF \E r \in Root : tree[r] = None
       THEN End(p) /\ UNCHANGED <<entryLock, parts, content>>
       ELSE /\ Lock(p)
            /\ parts' = parts \cup {<<job[p].key, p>>}
            /\ content' = [content EXCEPT ![job[p].run] = tree]
            /\ Goto(p, "publish")
            /\ Set(p, [job[p] EXCEPT !.use = "store", !.man = job[p].run, !.art = job[p].run])
    /\ UNCHANGED <<raw, tree, marker, manifest, artifact, blobs, remote, outLock, backup,
                   kept, bounds, keyOf, mixed, torn>>

\* LocalTaskCacheStore::commit renames the manifest into place, then the
\* archive.
PublishManifest(p) ==
    /\ pc[p] = "publish"
    /\ manifest' = [manifest EXCEPT ![job[p].key] = job[p].man]
    /\ Goto(p, "publish2")
    /\ UNCHANGED <<raw, tree, marker, artifact, parts, blobs, remote, locks, job, backup,
                   kept, bounds, history>>

PublishArtifact(p) == LET j == job[p] IN
    /\ pc[p] = "publish2"
    /\ artifact' = [artifact EXCEPT ![j.key] = j.art]
    /\ parts' = parts \ {<<j.key, p>>}
    /\ IF j.use = "store"
       THEN /\ Goto(p, IF Remote(j.mode) THEN "mirror" ELSE "unlock")
            /\ job' = Touched(j.key, job)
            /\ UNCHANGED entryLock
       ELSE Found(p, manifest[j.key], j.art)
    /\ UNCHANGED <<raw, tree, marker, manifest, blobs, remote, outLock, backup, kept,
                   bounds, history>>

\* A promotion that fails is warned about and its unpublished files are dropped;
\* the remote entry is used as it came.
PromoteFails(p) ==
    /\ pc[p] \in {"publish", "publish2"} /\ job[p].use # "store"
    /\ faults < MaxFaults /\ faults' = faults + 1
    /\ parts' = parts \ {<<job[p].key, p>>}
    /\ Found(p, job[p].man, job[p].art)
    /\ UNCHANGED <<raw, tree, marker, manifest, artifact, blobs, remote, outLock, backup,
                   kept, started, history>>

\* A store that fails is warned about: its unpublished files are dropped, and the
\* marker is left as it was.
StoreFails(p) ==
    /\ pc[p] \in {"publish", "publish2"} /\ job[p].use = "store"
    /\ faults < MaxFaults /\ faults' = faults + 1
    /\ parts' = parts \ {<<job[p].key, p>>}
    /\ Unlock(p)
    /\ End(p)
    /\ UNCHANGED <<raw, tree, marker, manifest, artifact, blobs, remote, outLock, backup,
                   kept, started, history>>

\* Mutant: the action result is published before its blobs.
MirrorResultFirst(p) ==
    /\ pc[p] = "mirror"
    /\ remote' = [remote EXCEPT ![job[p].key] = job[p].art]
    /\ Goto(p, "mirror2")
    /\ UNCHANGED <<raw, tree, marker, manifest, artifact, parts, blobs, locks, job,
                   backup, kept, bounds, history>>

\* The mirror: every blob, then the action result that names them.
MirrorBlobs(p) ==
    /\ pc[p] = "mirror"
    /\ blobs' = blobs \cup {job[p].art}
    /\ Goto(p, "mirror2")
    /\ UNCHANGED <<raw, tree, marker, manifest, artifact, parts, remote, locks, job,
                   backup, kept, bounds, history>>

MirrorResult(p) ==
    /\ pc[p] = "mirror2"
    /\ remote' = [remote EXCEPT ![job[p].key] = job[p].art]
    /\ Goto(p, "unlock")
    /\ UNCHANGED <<raw, tree, marker, manifest, artifact, parts, blobs, locks, job,
                   backup, kept, bounds, history>>

\* A mirror that fails is only warned about.
MirrorFails(p) ==
    /\ pc[p] \in {"mirror", "mirror2"}
    /\ faults < MaxFaults /\ faults' = faults + 1
    /\ Goto(p, "unlock")
    /\ UNCHANGED <<raw, tree, marker, disk, locks, job, backup, kept, started, history>>

\* store() releases the lock; enforce_task_cache_limits lists the entries and
\* picks those over the limits of age and size.
StoreEnds(p, over) ==
    /\ pc[p] = "unlock"
    /\ \A k \in over : manifest[k] # None
    /\ Unlock(p)
    /\ Goto(p, "sweep")
    /\ Set(p, [job[p] EXCEPT !.man = None, !.art = None, !.left = over])
    /\ UNCHANGED <<raw, tree, marker, disk, outLock, backup, kept, bounds, history>>

-----------------------------------------------------------------------------
(* Removing entries: the limits after a store, and `mise cache task clear` *)

\* clear_task_cache lists the entries of the task.
BeginClear(p) ==
    /\ p = started + 1
    /\ started' = p
    /\ Goto(p, "sweep")
    /\ Set(p, [NoJob EXCEPT !.use = "clear", !.left = {k \in Key : manifest[k] # None}])
    /\ UNCHANGED <<raw, tree, marker, disk, locks, backup, kept, faults, history>>

\* An entry to remove is locked and looked at again: one used since it was
\* listed stays when the limits ask for it, not when the user clears.
Sweep(p, k) ==
    /\ pc[p] = "sweep" /\ k \in job[p].left
    /\ entryLock[k] = None
    /\ Set(p, [job[p] EXCEPT !.left = @ \ {k}])
    /\ IF job[p].use = "store" /\ (manifest[k] = None \/ k \in job[p].used)
       THEN UNCHANGED <<artifact, entryLock, pc>>
       ELSE /\ artifact' = [artifact EXCEPT ![k] = None]
            /\ entryLock' = [entryLock EXCEPT ![k] = p]
            /\ Goto(p, "sweep2")
    /\ UNCHANGED <<raw, tree, marker, manifest, parts, blobs, remote, outLock, backup,
                   kept, bounds, history>>

SweepManifest(p, k) ==
    /\ pc[p] = "sweep2" /\ entryLock[k] = p
    /\ manifest' = [manifest EXCEPT ![k] = None]
    /\ entryLock' = [entryLock EXCEPT ![k] = None]
    /\ Goto(p, "sweep")
    /\ UNCHANGED <<raw, tree, marker, artifact, parts, blobs, remote, outLock, job,
                   backup, kept, bounds, history>>

\* After the entries a clear removes unpublished parts that have a manifest of
\* the task, each under the lock of its key; others it passes over.
ClearPart(p, k, q) ==
    /\ pc[p] = "sweep" /\ job[p].use = "clear" /\ job[p].left = {}
    /\ <<k, q>> \in parts /\ entryLock[k] = None
    /\ parts' = parts \ {<<k, q>>}
    /\ UNCHANGED <<raw, tree, marker, manifest, artifact, blobs, remote, locks, pc, job,
                   backup, kept, bounds, history>>

\* The clear ends by removing the marker; a store goes on to mark its key.
SweepEnds(p) ==
    /\ pc[p] = "sweep" /\ job[p].left = {}
    /\ IF job[p].use = "clear"
       THEN marker' = None /\ End(p)
       ELSE Goto(p, "mark") /\ UNCHANGED <<marker, job>>
    /\ UNCHANGED <<raw, tree, disk, locks, backup, kept, bounds, history>>

-----------------------------------------------------------------------------
(* A hit: install_transactionally, under the entry lock and the output lock *)

\* Mutant: restores in one directory are not serialized.
TakeOutputLockAnyway(p) ==
    /\ pc[p] = "outlock"
    /\ outLock' = p
    /\ Goto(p, "backup")
    /\ Set(p, [job[p] EXCEPT !.left = Root, !.clean = TRUE])
    /\ UNCHANGED <<raw, tree, marker, disk, entryLock, backup, kept, bounds, history>>

TakeOutputLock(p) ==
    /\ pc[p] = "outlock" /\ outLock = None
    /\ outLock' = p
    /\ Goto(p, "backup")
    /\ Set(p, [job[p] EXCEPT !.left = Root, !.clean = TRUE])
    /\ UNCHANGED <<raw, tree, marker, disk, entryLock, backup, kept, bounds, history>>

\* Roots are worked off in order.
First(r, left) == r \in left /\ \A x \in left : r <= x

\* Every existing output is renamed into a backup directory.
Backup(p, r) ==
    /\ pc[p] = "backup" /\ First(r, job[p].left)
    /\ backup' = [backup EXCEPT ![p][r] = tree[r]]
    /\ tree' = [tree EXCEPT ![r] = None]
    /\ IF job[p].left = {r}
       THEN Goto(p, "install") /\ Set(p, [job[p] EXCEPT !.left = Root])
       ELSE Set(p, [job[p] EXCEPT !.left = @ \ {r}]) /\ UNCHANGED pc
    /\ UNCHANGED <<raw, marker, disk, locks, kept, bounds, history>>

\* Every staged output is renamed into place.
InstallRoot(p, r) ==
    /\ pc[p] = "install" /\ First(r, job[p].left)
    /\ tree' = [tree EXCEPT ![r] = content[job[p].art][r]]
    /\ Set(p, [job[p] EXCEPT !.left = @ \ {r}])
    /\ UNCHANGED <<raw, marker, disk, locks, pc, backup, kept, bounds, history>>

\* The backup directory is deleted, both locks are released and the log is
\* replayed.
Hit(p) ==
    /\ pc[p] = "install" /\ job[p].left = {}
    /\ backup' = [backup EXCEPT ![p] = Absent]
    /\ outLock' = None
    /\ Unlock(p)
    /\ torn' = (torn /\ ~job[p].clean)
    /\ Goto(p, "saved")
    /\ job' = Touched(job[p].key, [job EXCEPT ![p].man = None, ![p].art = None])
    /\ UNCHANGED <<raw, tree, marker, disk, kept, bounds, content, keyOf, mixed>>

\* rollback_install removes what was installed and moves the backups home.
\* What it cannot remove (rest) stays where it is, unless a backup replaces it;
\* what it cannot move (stuck) stays in the backup directory.
Rollback(p, stuck, rest) ==
    LET installed == IF pc[p] = "install" THEN Root \ job[p].left ELSE {}
        saved == {r \in Root : backup[p][r] # None}
    IN
    /\ stuck \subseteq saved /\ rest \subseteq installed
    /\ tree' = [r \in Root |-> IF r \in saved \ stuck THEN backup[p][r]
                               ELSE IF r \in installed \ rest THEN None ELSE tree[r]]

\* Mutant: the backup directory is deleted after an incomplete rollback too.
RestoreDropsBackup(p, stuck, rest) ==
    /\ pc[p] \in {"backup", "install"} /\ job[p].left # {}
    /\ faults < MaxFaults /\ faults' = faults + 1
    /\ Rollback(p, stuck, rest)
    /\ backup' = [backup EXCEPT ![p] = Absent]
    /\ outLock' = None
    /\ torn' = (torn \/ stuck # {} \/ rest # {})
    /\ Goto(p, "drop")
    /\ UNCHANGED <<raw, marker, disk, entryLock, job, kept, started, content, keyOf, mixed>>

\* A rename fails: the install is rolled back, and the backup directory is
\* deleted only if that was complete.  The entry counts as corrupt.
RestoreFails(p, stuck, rest) ==
    /\ pc[p] \in {"backup", "install"} /\ job[p].left # {}
    /\ faults < MaxFaults /\ faults' = faults + 1
    /\ Rollback(p, stuck, rest)
    /\ kept' = kept \cup {<<r, backup[p][r]>> : r \in stuck}
    /\ backup' = [backup EXCEPT ![p] = Absent]
    /\ outLock' = None
    /\ torn' = (torn \/ stuck # {} \/ rest # {})
    /\ Goto(p, "drop")
    /\ UNCHANGED <<raw, marker, disk, entryLock, job, started, content, keyOf, mixed>>

-----------------------------------------------------------------------------
(* Running the command, and the state saved after it *)

\* Mutant: a raw task runs with its old marker in place.
ExecKeepsMarker(p) ==
    /\ pc[p] = "exec"
    /\ mixed' = (~raw \/ job[p].mode = "off" \/ \E q \in Proc \ {p} : Active(q))
    /\ keyOf' = Append(keyOf, job[p].key)
    /\ content' = Append(content, Absent)
    /\ Goto(p, "run")
    /\ Set(p, [job[p] EXCEPT !.use = "run", !.run = NextRun, !.left = Root])
    /\ UNCHANGED <<raw, tree, marker, disk, locks, backup, kept, bounds, torn>>

\* A raw or interactive task forgets its marker first (clear_current).
Exec(p) ==
    LET clears == raw /\ job[p].mode # "off"
        overlap == \E q \in Proc \ {p} : Active(q)
    IN
    /\ pc[p] = "exec"
    /\ marker' = IF clears THEN None ELSE marker
    /\ mixed' = (overlap \/ ~clears)
    /\ keyOf' = Append(keyOf, job[p].key)
    /\ content' = Append(content, Absent)
    /\ Goto(p, "run")
    /\ Set(p, [job[p] EXCEPT !.use = "run", !.run = NextRun, !.left = Root])
    /\ UNCHANGED <<raw, tree, disk, locks, backup, kept, bounds, torn>>

WriteRoot(p, r) ==
    /\ pc[p] = "run" /\ r \in job[p].left
    /\ tree' = [tree EXCEPT ![r] = job[p].run]
    /\ job' = [q \in Proc |-> [job[q] EXCEPT !.clean = FALSE,
                    !.left = IF q = p THEN @ \ {r} ELSE @]]
    /\ torn' = TRUE
    /\ UNCHANGED <<raw, marker, disk, locks, pc, backup, kept, bounds, content, keyOf, mixed>>

\* The command fails, after any of its writes: nothing is saved.
CommandFails(p) ==
    /\ pc[p] = "run"
    /\ End(p)
    /\ UNCHANGED <<raw, tree, marker, disk, locks, backup, kept, bounds, history>>

\* save_checksum, after a hit and after a run that succeeded.  If the mode writes, a run is
\* then stored, and a hit or a raw run goes on to mark its key.
SaveChecksum(p) ==
    /\ pc[p] = "saved" \/ (pc[p] = "run" /\ job[p].left = {})
    /\ IF Writes(job[p].mode)
       THEN Goto(p, IF job[p].use = "run" /\ ~raw THEN "store" ELSE "mark") /\ UNCHANGED job
       ELSE End(p)
    /\ UNCHANGED <<raw, tree, marker, disk, locks, backup, kept, bounds, history>>

MarkCurrent(p) ==
    /\ pc[p] = "mark"
    /\ marker' = job[p].key
    /\ End(p)
    /\ UNCHANGED <<raw, tree, disk, locks, backup, kept, bounds, history>>

\* The process dies.  The system frees its locks; its unpublished archive and
\* its backup directory stay on disk.
Kill(p) ==
    /\ pc[p] # "idle" /\ faults < MaxFaults /\ faults' = faults + 1
    /\ entryLock' = [k \in Key |-> IF entryLock[k] = p THEN None ELSE entryLock[k]]
    /\ outLock' = IF outLock = p THEN None ELSE outLock
    /\ kept' = kept \cup {<<r, backup[p][r]>> : r \in {r \in Root : backup[p][r] # None}}
    /\ backup' = [backup EXCEPT ![p] = Absent]
    /\ torn' = (torn \/ pc[p] \in {"backup", "install"})
    /\ End(p)
    /\ UNCHANGED <<raw, tree, marker, disk, started, content, keyOf, mixed>>

-----------------------------------------------------------------------------
\* Where processes of the past may have left the task: the keys in done ran
\* once each, in this order, the last one is current, and the entries of some
\* are still in the local and in the remote store.  A raw task stored nothing.
Start(done, here, there) ==
    LET n == Len(done)
        runOf(k) == IF \E i \in 1..n : done[i] = k THEN CHOOSE i \in 1..n : done[i] = k ELSE None
        at(x) == [k \in Key |-> IF k \in x /\ ~raw THEN runOf(k) ELSE None]
    IN
    /\ keyOf = done
    /\ content = [i \in 1..n |-> [r \in Root |-> IF raw THEN None ELSE i]]
    /\ tree = [r \in Root |-> IF n = 0 THEN None ELSE n]
    /\ marker = IF n = 0 THEN None ELSE done[n]
    /\ manifest = at(here) /\ artifact = at(here) /\ remote = at(there)
    /\ blobs = {i \in 1..n : done[i] \in there /\ ~raw}

Init ==
    /\ raw \in Raws
    /\ \E s \in Starts : Start(s.done, s.here, s.there)
    /\ parts = {}
    /\ entryLock = [k \in Key |-> None]
    /\ outLock = None
    /\ pc = [p \in Proc |-> "idle"]
    /\ job = [p \in Proc |-> NoJob]
    /\ backup = [p \in Proc |-> Absent]
    /\ kept = {}
    /\ started = 0 /\ faults = 0
    /\ mixed = FALSE /\ torn = (keyOf # << >>)

\* What a process does on its own once it is started
Step(p) ==
    \/ \E fresh \in BOOLEAN : Judge(p, fresh)
    \/ Skip(p) \/ CurrentOutput(p) \/ Restore(p)
    \/ GetLocal(p) \/ Expired(p) \/ GetRemote(p) \/ GetNothing(p)
    \/ Drop(p) \/ DropEnds(p)
    \/ Store(p) \/ PublishManifest(p) \/ PublishArtifact(p)
    \/ MirrorBlobs(p) \/ MirrorResult(p)
    \/ \E over \in SUBSET Key : StoreEnds(p, over)
    \/ \E k \in Key : CleanupKey(p, k) \/ Sweep(p, k) \/ SweepManifest(p, k)
    \/ \E k \in Key, q \in Proc : ClearPart(p, k, q)
    \/ SweepEnds(p)
    \/ TakeOutputLock(p) \/ Hit(p)
    \/ \E r \in Root : Backup(p, r) \/ InstallRoot(p, r) \/ WriteRoot(p, r)
    \/ Exec(p) \/ CommandFails(p)
    \/ SaveChecksum(p) \/ MarkCurrent(p)

Fault(p) ==
    \/ PromoteFails(p) \/ StoreFails(p) \/ MirrorFails(p) \/ Kill(p)
    \/ \E stuck, rest \in SUBSET Root : RestoreFails(p, stuck, rest)

\* Every process has ended; nothing is left to do within the bounds.
Finished ==
    /\ started = MaxProcs /\ \A p \in Proc : pc[p] = "idle"
    /\ UNCHANGED vars

Next ==
    \/ \E p \in Proc :
        \/ \E k \in Key, o \in Offers : Begin(p, k, o[1], o[2])
        \/ BeginClear(p)
        \/ Step(p)
        \/ Fault(p)
    \/ Finished

Spec == Init /\ [][Next]_vars

-----------------------------------------------------------------------------
(* Properties *)

RunOrNone == Run \cup {None}

\* Type correctness; the holder of an entry lock is at a step that needs it,
\* and the holder of the output lock is installing.
TypeOK ==
    /\ raw \in BOOLEAN /\ marker \in Key \cup {None}
    /\ tree \in [Root -> RunOrNone]
    /\ manifest \in [Key -> RunOrNone] /\ artifact \in [Key -> RunOrNone]
    /\ remote \in [Key -> RunOrNone]
    /\ parts \subseteq Key \X Proc /\ blobs \subseteq Run
    /\ Len(content) = Len(keyOf)
    /\ outLock \in Proc \cup {None}
    /\ \A p \in Proc : outLock = p <=> pc[p] \in {"backup", "install"}
    /\ \A k \in Key : entryLock[k] # None =>
          pc[entryLock[k]] \in {"get", "drop", "drop2", "publish", "publish2",
                               "mirror", "mirror2", "unlock", "sweep2", "outlock",
                               "backup", "install"}
    /\ backup \in [Proc -> [Root -> RunOrNone]]

\* A process that installs a hit installs the archive of the very run whose
\* log it replays, though commit renames manifest and archive one after the
\* other and may die in between, and entries are removed in two steps
\* (verify_artifact_checksum before the install).
HitIsOneRun ==
    \A p \in Proc : pc[p] \in {"outlock", "backup", "install"} =>
        /\ job[p].art = job[p].man
        /\ keyOf[job[p].art] = job[p].key
        /\ \A r \in Root : content[job[p].art][r] # None

\* Two restores in one directory never leave a mix of their outputs: unless a
\* command wrote there or a restore was cut short, the outputs are those of
\* one archive (the output lock of restore()).
TreeIsOneArtifact ==
    (~torn /\ outLock = None) =>
        tree = Absent \/ \E n \in Run : tree = content[n]

\* A restore destroys outputs only once it has replaced all of them: what was
\* there before is in place, in its backup directory, or in one left on disk
\* after a failure (install_transactionally, rollback_install).
Held(r) == {tree[r], None} \cup {backup[p][r] : p \in Proc} \cup {x[2] : x \in {y \in kept : y[1] = r}}

OutputsSurvive ==
    [][\A r \in Root : \A v \in Held(r) : v \in Held(r)' \/
           \E p \in Proc :
              \/ pc[p] = "run" /\ tree'[r] = job[p].run
              \/ pc[p] = "install" /\ pc'[p] = "saved"
              \/ pc[p] = "install" /\ v = content[job[p].art][r]
              \/ pc[p] \in {"backup", "install"} /\ ~job[p].clean]_vars

\* The cleanup of abandoned archives never takes the one a live process is
\* about to publish (task_cache_entry_lock in cleanup_abandoned_partial_writes).
ActivePartIsKept ==
    \A p \in Proc : pc[p] \in {"publish", "publish2"} => <<job[p].key, p>> \in parts

\* A remote action result never names blobs the server does not have, wherever
\* the mirror died (HttpTaskCacheStore::commit uploads them first).
RemoteIsComplete ==
    \A k \in Key : remote[k] # None =>
        /\ remote[k] \in blobs
        /\ keyOf[remote[k]] = k

\* For a raw or interactive task the marker names the key of the outputs in
\* the tree, whatever failed or was killed before: a run forgets the marker
\* before it writes and sets it after it succeeded.  Runs that overlapped, and
\* runs with --task-cache off, which leave the marker alone, are set aside.
RawMarkerIsHonest ==
    (raw /\ marker # None /\ ~mixed) =>
        \A r \in Root : tree[r] # None /\ keyOf[tree[r]] = marker

\* The same of every task, once all processes have ended: "whether the outputs
\* in the working tree were last produced or restored under this key"
\* (is_current; current_output reads the same file).  It does not hold: only
\* raw and interactive tasks forget the marker before they run.
MarkerIsHonest ==
    (marker # None /\ \A p \in Proc : pc[p] = "idle") =>
        \A r \in Root : tree[r] # None => keyOf[tree[r]] = marker

=============================================================================
