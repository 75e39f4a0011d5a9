--------------------------- MODULE TaskCache_proof ---------------------------
(***************************************************************************)
(* Proofs about TaskCache, for every set of keys, any number of output     *)
(* roots, of processes and of faults, and every way the earlier runs may   *)
(* have left the stores.                                                   *)
(***************************************************************************)
EXTENDS TaskCache, SequenceTheorems, TLAPS

(***************************************************************************)
(* The inductive invariant. Most of it is said process by process: what a  *)
(* process can be about at each of its steps and which locks it holds      *)
(* there (PlaceOf), which run it carries (EntryOf), and how far its        *)
(* install has got (InstallOf).                                            *)
(***************************************************************************)
Pcs == {"idle", "cleanup", "skip", "current", "restore", "get", "drop", "drop2", "store",
        "publish", "publish2", "mirror", "mirror2", "unlock", "sweep", "sweep2", "outlock",
        "backup", "install", "saved", "exec", "run", "mark"}

(* The steps at which a process holds the lock of its own key.             *)
Holding == {"get", "drop", "drop2", "publish", "publish2", "mirror", "mirror2", "unlock",
            "outlock", "backup", "install"}

Publishing == {"publish", "publish2"}
Installing == {"backup", "install"}
Carrying == Publishing \cup {"mirror", "mirror2", "outlock"} \cup Installing

Uses == {"run", "current", "restore", "store", "clear"}

Modes == {"read-write", "read-only", "write-only", "off", "local-only", None}

JobRec == [key : Key \cup {None}, mode : Modes, looks : BOOLEAN, use : Uses,
           man : Nat \cup {None}, art : Nat \cup {None}, run : Nat \cup {None},
           left : SUBSET (Key \cup Root \cup (Key \X Proc)), used : SUBSET Key,
           clean : BOOLEAN]

ProcTypes ==
    /\ pc \in [Proc -> Pcs]
    /\ job \in [Proc -> JobRec]
    /\ started \in Nat
    /\ \A p \in Proc : pc[p] # "idle" => p <= started

StoreTypes ==
    /\ manifest \in [Key -> RunOrNone]
    /\ artifact \in [Key -> RunOrNone]
    /\ remote \in [Key -> RunOrNone]
    /\ parts \subseteq Key \X Proc
    /\ blobs \subseteq Run
    /\ entryLock \in [Key -> Proc \cup {None}]

TreeTypes ==
    /\ raw \in BOOLEAN /\ mixed \in BOOLEAN /\ torn \in BOOLEAN
    /\ marker \in Key \cup {None}
    /\ keyOf \in Seq(Key)
    /\ content \in Seq([Root -> RunOrNone])
    /\ Len(content) = Len(keyOf)
    /\ tree \in [Root -> RunOrNone]
    /\ outLock \in Proc \cup {None}
    /\ backup \in [Proc -> [Root -> RunOrNone]]

UseFits(l, u) ==
    /\ l = "get" => u \in {"current", "restore"}
    /\ l \in Publishing => u # "run"
    /\ l \in Installing \cup {"outlock", "drop", "drop2", "saved"} => u = "restore"
    /\ l \in {"mirror", "mirror2", "unlock"} => u = "store"
    /\ l \in {"sweep", "sweep2"} => u \in {"store", "clear"}
    /\ l \in {"run", "store"} => u = "run"
    /\ u = "clear" => l \in {"sweep", "sweep2"}

PlaceOf(p) ==
    /\ UseFits(pc[p], job[p].use)
    /\ pc[p] # "idle" /\ job[p].use # "clear" => job[p].key \in Key
    /\ pc[p] \in Holding => entryLock[job[p].key] = p
    /\ \A k \in Key : entryLock[k] = p =>
          (pc[p] \in Holding /\ k = job[p].key) \/ pc[p] = "sweep2"
    /\ \A k, l \in Key : entryLock[k] = p /\ entryLock[l] = p => k = l
    /\ outLock = p <=> pc[p] \in Installing
    /\ pc[p] \in Publishing => <<job[p].key, p>> \in parts

(* A run of key k whose archive is complete.                               *)
Whole(n, k) == n \in Run /\ keyOf[n] = k /\ \A r \in Root : content[n][r] # None

KeyEntry(k) ==
    /\ manifest[k] # None => Whole(manifest[k], k)
    /\ artifact[k] # None => Whole(artifact[k], k)
    /\ remote[k] # None => Whole(remote[k], k) /\ remote[k] \in blobs

EntryOf(p) ==
    /\ pc[p] \in Carrying => job[p].man = job[p].art /\ Whole(job[p].art, job[p].key)
    /\ pc[p] = "mirror2" => job[p].art \in blobs
    /\ pc[p] \in {"run", "store"} => job[p].run \in Run /\ keyOf[job[p].run] = job[p].key

(* What was in the directory before p began to install there.              *)
Before(p) ==
    [r \in Root |-> IF backup[p][r] # None THEN backup[p][r]
                    ELSE IF pc[p] = "backup" /\ r \in job[p].left THEN tree[r] ELSE None]

OneArtifact(t) == t = Absent \/ \E n \in Run : t = content[n]

InstallOf(p) ==
    /\ pc[p] \notin Installing => backup[p] = Absent
    /\ pc[p] \in Installing => job[p].left \subseteq Root
    /\ pc[p] = "backup" => job[p].left # {} /\ \A r \in job[p].left : backup[p][r] = None
    /\ pc[p] = "backup" /\ job[p].clean => \A r \in Root \ job[p].left : tree[r] = None
    /\ pc[p] = "install" /\ job[p].clean =>
          \A r \in Root : tree[r] = IF r \in job[p].left THEN None ELSE content[job[p].art][r]
    /\ pc[p] \in Installing /\ ~job[p].clean => torn
    /\ pc[p] \in Installing /\ ~torn /\ job[p].left # {} => OneArtifact(Before(p))

IdleTree == ~torn /\ outLock = None => OneArtifact(tree)

(* A raw task never asks the cache; while its last run overlapped no other *)
(* there is at most one process that writes or is about to mark, and the   *)
(* marker is gone until that one sets it.                                  *)
RawPcs == {"idle", "cleanup", "skip", "exec", "run", "mark", "sweep", "sweep2"}

RawOf(p) ==
    /\ pc[p] \in RawPcs
    /\ pc[p] \in {"sweep", "sweep2"} => job[p].use = "clear"

SoleWriter(p) ==
    pc[p] \in {"run", "mark"} =>
        /\ marker = None
        /\ \A q \in Proc \ {p} : pc[q] \notin {"run", "mark"}
        /\ pc[p] = "mark" => job[p].left = {}
        /\ \A r \in Root \ job[p].left :
              tree[r] = job[p].run /\ tree[r] \in Run /\ keyOf[tree[r]] = job[p].key

RawWrites ==
    raw =>
      /\ \A p \in Proc : RawOf(p)
      /\ ~mixed =>
            /\ \A p \in Proc : SoleWriter(p)
            /\ marker # None => \A r \in Root : tree[r] # None /\ keyOf[tree[r]] = marker

IInv ==
    /\ ProcTypes /\ StoreTypes /\ TreeTypes
    /\ \A p \in Proc : PlaceOf(p)
    /\ \A k \in Key : KeyEntry(k)
    /\ \A p \in Proc : EntryOf(p)
    /\ \A p \in Proc : InstallOf(p)
    /\ IdleTree
    /\ RawWrites

-----------------------------------------------------------------------------
(* What a step of one process does to the programs and jobs of all.        *)

SameJob(i, j) ==
    /\ i.key = j.key /\ i.mode = j.mode /\ i.looks = j.looks /\ i.use = j.use
    /\ i.man = j.man /\ i.art = j.art /\ i.run = j.run /\ i.left = j.left
    /\ i.clean = j.clean

OthersKeep(p) == \A q \in Proc \ {p} : pc'[q] = pc[q] /\ SameJob(job'[q], job[q])

Shape(p) == pc' \in [Proc -> Pcs] /\ job' \in [Proc -> JobRec] /\ OthersKeep(p)

(* The constants the proofs rest on, without the arithmetic.               *)
LEMMA Basics ==
    /\ None \notin Proc /\ None \notin Key
    /\ Proc \subseteq Nat
    /\ Root # {} /\ None \notin Root
PROOF
<1>1. None \notin Nat /\ None \notin Key /\ Roots \in Nat /\ Roots > 0 /\ MaxProcs \in Nat
  BY ConstantsFit
<1>2. 1 \in Root
  BY <1>1 DEF Root
<1> QED
  BY <1>1, <1>2 DEF Proc, Root

(* Runs are numbered, and None is no run.                                  *)
LEMMA RunsAreNumbers ==
    ASSUME TreeTypes
    PROVE  Run \subseteq Nat /\ None \notin Run /\ DOMAIN content = Run
PROOF
<1>1. Run = 1..Len(keyOf) /\ DOMAIN content = 1..Len(content) /\ Len(keyOf) \in Nat
  BY DEF TreeTypes, Run
<1> QED
  BY <1>1, ConstantsFit DEF TreeTypes

(* Goto and Set touch their own process only.                              *)
LEMMA Moved ==
    ASSUME ProcTypes, NEW p \in Proc, NEW l \in Pcs, NEW j \in JobRec, Goto(p, l), Set(p, j)
    PROVE  Shape(p) /\ pc'[p] = l /\ job'[p] = j
PROOF
  BY DEF ProcTypes, Goto, Set, Shape, OthersKeep, SameJob

(* The same, of a step that keeps the job,                                 *)
LEMMA MovedOnly ==
    ASSUME ProcTypes, NEW p \in Proc, NEW l \in Pcs, Goto(p, l), job' = job
    PROVE  Shape(p) /\ pc'[p] = l /\ job'[p] = job[p]
PROOF
  BY DEF ProcTypes, Goto, Shape, OthersKeep, SameJob

(* of one that stays at its place,                                         *)
LEMMA SetOnly ==
    ASSUME ProcTypes, NEW p \in Proc, NEW j \in JobRec, pc' = pc, Set(p, j)
    PROVE  Shape(p) /\ pc'[p] = pc[p] /\ job'[p] = j
PROOF
  BY DEF ProcTypes, Set, Shape, OthersKeep, SameJob

(* and of one that ends its process.                                       *)
LEMMA Ended ==
    ASSUME ProcTypes, NEW p \in Proc, End(p)
    PROVE  Shape(p) /\ pc'[p] = "idle" /\ job'[p] = NoJob
PROOF
<1>1. NoJob \in JobRec /\ "idle" \in Pcs
  BY DEF NoJob, JobRec, Modes, Uses, Pcs
<1> QED
  BY <1>1, Moved DEF End

(* A touch changes only which entries the sweeps saw used.                 *)
LEMMA MovedTouch ==
    ASSUME ProcTypes, NEW p \in Proc, NEW l \in Pcs, NEW i \in [Proc -> JobRec], NEW k \in Key,
           \A q \in Proc \ {p} : i[q] = job[q],
           Goto(p, l), job' = Touched(k, i)
    PROVE  Shape(p) /\ pc'[p] = l /\ SameJob(job'[p], i[p])
PROOF
<1>1. ASSUME NEW q \in Proc
      PROVE  job'[q] \in JobRec /\ SameJob(job'[q], i[q])
  <2>1. i[q] \in JobRec
    OBVIOUS
  <2>2. job'[q] = i[q] \/ job'[q] = [i[q] EXCEPT !.used = @ \cup {k}]
    BY DEF Touched
  <2>3. [i[q] EXCEPT !.used = @ \cup {k}] \in JobRec
        /\ SameJob([i[q] EXCEPT !.used = @ \cup {k}], i[q])
    BY <2>1 DEF JobRec, SameJob
  <2> QED
    BY <2>1, <2>2, <2>3 DEF SameJob
<1>2. job' \in [Proc -> JobRec]
  BY <1>1 DEF Touched
<1> QED
  BY <1>1, <1>2 DEF ProcTypes, Goto, Shape, OthersKeep

-----------------------------------------------------------------------------
(***************************************************************************)
(* The steps that touch neither the directory nor the history: what is     *)
(* left to show of them is what they do to the entries and to their own    *)
(* process.                                                                *)
(***************************************************************************)
Quiet(p) ==
    /\ Shape(p)
    /\ UNCHANGED <<raw, tree, outLock, backup, content, keyOf, mixed, torn>>
    /\ marker' = marker \/ marker' = None
    /\ pc[p] \notin Installing /\ pc'[p] \notin Installing
    /\ raw => pc'[p] \in RawPcs \ {"run", "mark"} /\ RawOf(p)'
    /\ started' = started \/ (started' = p /\ p = started + 1)
    /\ pc[p] # "idle" \/ started' = p

(* The same, of steps that may set the marker or write next.               *)
Calm(p) ==
    /\ Shape(p)
    /\ UNCHANGED <<raw, tree, outLock, backup, content, keyOf, mixed, torn>>
    /\ marker' \in Key \cup {None}
    /\ pc[p] \notin Installing /\ pc'[p] \notin Installing
    /\ started' = started \/ (started' = p /\ p = started + 1)
    /\ pc[p] # "idle" \/ started' = p

(* The locks of the other processes are left alone.                        *)
OthersLocks(p) ==
    /\ entryLock' \in [Key -> Proc \cup {None}]
    /\ \A q \in Proc \ {p}, k \in Key : entryLock'[k] = q <=> entryLock[k] = q

(* So are their unpublished archives.                                      *)
OthersParts(p) ==
    /\ parts' \subseteq Key \X Proc
    /\ \A q \in Proc \ {p} : pc[q] \in Publishing => <<job[q].key, q>> \in parts'

(* The other processes keep their places.                                  *)
LEMMA OthersPlaces ==
    ASSUME \A q \in Proc : PlaceOf(q), NEW p \in Proc, OthersKeep(p), OthersLocks(p),
           OthersParts(p), \A q \in Proc \ {p} : outLock' = q <=> outLock = q
    PROVE  \A q \in Proc \ {p} : PlaceOf(q)'
PROOF
<1> SUFFICES ASSUME NEW q \in Proc \ {p} PROVE PlaceOf(q)'
  OBVIOUS
<1>1. PlaceOf(q) /\ pc'[q] = pc[q] /\ job'[q].key = job[q].key /\ job'[q].use = job[q].use
  BY DEF OthersKeep, SameJob
<1>2. pc[q] \in Holding => job[q].key \in Key
  BY <1>1 DEF PlaceOf, UseFits, Holding, Publishing, Installing
<1> QED
  BY <1>1, <1>2 DEF PlaceOf, OthersLocks, OthersParts

(* The runs there are keep their key, and complete archives stay complete. *)
RunsKept ==
    /\ Run \subseteq Run'
    /\ \A n \in Run : keyOf'[n] = keyOf[n]
    /\ \A n \in Run : (\A r \in Root : content[n][r] # None) => \A r \in Root : content'[n][r] # None

(* The runs other processes carry stay whole.                              *)
LEMMA OthersEntries ==
    ASSUME \A q \in Proc : EntryOf(q), NEW p \in Proc, OthersKeep(p), RunsKept,
           blobs \subseteq blobs'
    PROVE  \A q \in Proc \ {p} : EntryOf(q)'
PROOF
<1> SUFFICES ASSUME NEW q \in Proc \ {p} PROVE EntryOf(q)'
  OBVIOUS
<1>1. /\ EntryOf(q) /\ pc'[q] = pc[q] /\ job'[q].key = job[q].key /\ job'[q].man = job[q].man
      /\ job'[q].art = job[q].art /\ job'[q].run = job[q].run
  BY DEF OthersKeep, SameJob
<1>2. \A n, k : Whole(n, k) => Whole(n, k)'
  BY DEF Whole, RunsKept
<1> QED
  BY <1>1, <1>2 DEF EntryOf, RunsKept

(* Calm steps keep what is said of installs and of the tree.               *)
LEMMA CalmInstalls ==
    ASSUME IInv, NEW p \in Proc, Calm(p)
    PROVE  (\A q \in Proc : InstallOf(q)') /\ IdleTree' /\ TreeTypes' /\ ProcTypes'
PROOF
<1> USE DEF Calm
<1>1. ASSUME NEW q \in Proc PROVE InstallOf(q)'
  <2>1. CASE q = p
    BY <2>1 DEF IInv, InstallOf, Installing
  <2>2. CASE q # p
    <3>1. /\ InstallOf(q) /\ pc'[q] = pc[q] /\ job'[q].left = job[q].left
          /\ job'[q].clean = job[q].clean /\ job'[q].art = job[q].art
      BY <2>2 DEF IInv, Shape, OthersKeep, SameJob
    <3>2. Before(q)' = Before(q)
      BY <3>1 DEF Before
    <3> QED
      BY <3>1, <3>2 DEF InstallOf, OneArtifact, Run, Absent
  <2> QED
    BY <2>1, <2>2
<1>2. IdleTree'
  BY DEF IInv, IdleTree, OneArtifact, Run, Absent
<1>3. TreeTypes'
  BY DEF IInv, TreeTypes, RunOrNone, Run
<1>4. ProcTypes'
  <2>1. \A q \in Proc : pc'[q] # "idle" => q <= started'
    <3>1. started \in Nat /\ p \in Nat
      BY Basics DEF IInv, ProcTypes
    <3> QED
      BY <3>1, Basics DEF IInv, ProcTypes, Shape, OthersKeep
  <2> QED
    BY <2>1, Basics DEF IInv, ProcTypes, Shape
<1> QED
  BY <1>1, <1>2, <1>3, <1>4

(* Quiet steps keep what is said of raw tasks.                             *)
LEMMA QuietRaw ==
    ASSUME IInv, NEW p \in Proc, Quiet(p)
    PROVE  RawWrites' /\ Calm(p)
PROOF
<1> USE DEF Quiet
<1>1. Calm(p)
  BY DEF Calm, IInv, TreeTypes
<1>2. RawWrites'
  <2> SUFFICES ASSUME raw PROVE RawWrites'
    BY DEF RawWrites
  <2>1. \A q \in Proc : RawOf(q)'
    BY DEF IInv, RawWrites, RawOf, Shape, OthersKeep, SameJob
  <2>2. ASSUME ~mixed, NEW q \in Proc PROVE SoleWriter(q)'
    <3>1. CASE q = p
      BY <3>1 DEF SoleWriter
    <3>2. CASE q # p
      <4>1. /\ SoleWriter(q) /\ pc'[q] = pc[q] /\ job'[q].left = job[q].left
            /\ job'[q].run = job[q].run /\ job'[q].key = job[q].key
        BY <2>2, <3>2 DEF IInv, RawWrites, Shape, OthersKeep, SameJob
      <4>2. \A x \in Proc : pc'[x] \in {"run", "mark"} => pc[x] \in {"run", "mark"}
        BY DEF Shape, OthersKeep
      <4> QED
        BY <4>1, <4>2 DEF SoleWriter, Run
    <3> QED
      BY <3>1, <3>2
  <2> QED
    BY <2>1, <2>2 DEF IInv, RawWrites
<1> QED
  BY <1>1, <1>2

(* A calm step keeps the invariant if it keeps the entries and the places. *)
LEMMA CalmStep ==
    ASSUME IInv, NEW p \in Proc, Calm(p), RawWrites', OthersLocks(p), OthersParts(p),
           manifest' \in [Key -> RunOrNone], artifact' \in [Key -> RunOrNone],
           remote' \in [Key -> RunOrNone], blobs \subseteq blobs', blobs' \subseteq Run,
           \A k \in Key : KeyEntry(k)', PlaceOf(p)', EntryOf(p)'
    PROVE  IInv'
PROOF
<1>1. OthersKeep(p) /\ outLock' = outLock /\ keyOf' = keyOf /\ content' = content
  BY DEF Calm, Shape
<1>2. RunsKept
  BY <1>1 DEF RunsKept, Run
<1>3. \A q \in Proc : PlaceOf(q)'
  BY <1>1, OthersPlaces DEF IInv
<1>4. \A q \in Proc : EntryOf(q)'
  BY <1>1, <1>2, OthersEntries DEF IInv
<1>5. StoreTypes'
  BY <1>1 DEF StoreTypes, OthersLocks, OthersParts, RunOrNone, Run
<1> QED
  BY <1>3, <1>4, <1>5, CalmInstalls DEF IInv

(* The same, of a step that also leaves directory and history alone.       *)
LEMMA QuietStep ==
    ASSUME IInv, NEW p \in Proc, Quiet(p), OthersLocks(p), OthersParts(p),
           manifest' \in [Key -> RunOrNone], artifact' \in [Key -> RunOrNone],
           remote' \in [Key -> RunOrNone], blobs \subseteq blobs', blobs' \subseteq Run,
           \A k \in Key : KeyEntry(k)', PlaceOf(p)', EntryOf(p)'
    PROVE  IInv'
PROOF
  BY QuietRaw, CalmStep

(* The same, of a step that leaves the stores alone.                       *)
LEMMA CalmSameStores ==
    ASSUME IInv, NEW p \in Proc, Calm(p), RawWrites', OthersLocks(p), UNCHANGED disk, PlaceOf(p)',
           EntryOf(p)'
    PROVE  IInv'
PROOF
<1>1. OthersParts(p)
  BY DEF OthersParts, disk, IInv, PlaceOf, StoreTypes
<1>2. /\ manifest' \in [Key -> RunOrNone] /\ artifact' \in [Key -> RunOrNone]
      /\ remote' \in [Key -> RunOrNone] /\ blobs \subseteq blobs' /\ blobs' \subseteq Run
  BY DEF IInv, StoreTypes, disk
<1>3. \A k \in Key : KeyEntry(k)'
  BY DEF IInv, KeyEntry, Whole, Run, disk, Calm
<1> QED
  BY <1>1, <1>2, <1>3, CalmStep

(* The same, of a quiet step.                                              *)
LEMMA QuietSameStores ==
    ASSUME IInv, NEW p \in Proc, Quiet(p), OthersLocks(p), UNCHANGED disk, PlaceOf(p)', EntryOf(p)'
    PROVE  IInv'
PROOF
  BY QuietRaw, CalmSameStores

(* A task that is raw or interactive is at none of the cache's steps.      *)
LEMMA NotRaw ==
    ASSUME IInv, NEW p \in Proc, pc[p] \notin RawPcs
    PROVE  ~raw
PROOF
  BY DEF IInv, RawWrites, RawOf

(* Taking, releasing and leaving alone the lock of an entry.               *)
LEMMA LockEffect ==
    ASSUME IInv, NEW p \in Proc, job[p].key \in Key, pc[p] \notin Holding \cup {"sweep2"}, Lock(p)
    PROVE  OthersLocks(p) /\ \A k \in Key : entryLock'[k] = p <=> k = job[p].key
PROOF
<1>1. entryLock \in [Key -> Proc \cup {None}] /\ entryLock[job[p].key] = None
      /\ entryLock' = [entryLock EXCEPT ![job[p].key] = p]
  BY DEF IInv, StoreTypes, Lock
<1>2. \A k \in Key : entryLock[k] # p
  BY DEF IInv, PlaceOf
<1> QED
  BY <1>1, <1>2, Basics DEF OthersLocks

(* The lock of the entry is given back, and no other.                      *)
LEMMA UnlockEffect ==
    ASSUME IInv, NEW p \in Proc, pc[p] \in Holding, Unlock(p)
    PROVE  OthersLocks(p) /\ \A k \in Key : entryLock'[k] # p
PROOF
<1>1. entryLock \in [Key -> Proc \cup {None}] /\ PlaceOf(p)
      /\ entryLock' = [entryLock EXCEPT ![job[p].key] = None]
  BY DEF IInv, StoreTypes, Unlock
<1>2. \A k \in Key : entryLock[k] = p => k = job[p].key
  BY <1>1 DEF PlaceOf, Holding
<1>3. entryLock[job[p].key] = p
  BY <1>1 DEF PlaceOf
<1> QED
  BY <1>1, <1>2, <1>3, Basics DEF OthersLocks

(* No step of a process moves the locks of others.                         *)
LEMMA SameLocks ==
    ASSUME IInv, NEW p \in Proc, entryLock' = entryLock
    PROVE  OthersLocks(p)
PROOF
  BY DEF OthersLocks, IInv, StoreTypes

(* A process that holds no lock and does not publish is in its place.      *)
LEMMA FreePlace ==
    ASSUME NEW p \in Proc, pc'[p] \notin Holding \cup {"sweep2"}, \A k \in Key : entryLock'[k] # p,
           outLock' # p, UseFits(pc'[p], job'[p].use),
           pc'[p] # "idle" /\ job'[p].use # "clear" => job'[p].key \in Key
    PROVE  PlaceOf(p)'
PROOF
  BY DEF PlaceOf, Holding, Installing, Publishing

(* A process that holds the lock of its key and only that one.             *)
LEMMA HeldPlace ==
    ASSUME NEW p \in Proc, pc'[p] \in Holding, job'[p].key \in Key,
           \A k \in Key : entryLock'[k] = p <=> k = job'[p].key,
           outLock' = p <=> pc'[p] \in Installing, UseFits(pc'[p], job'[p].use),
           pc'[p] \in Publishing => <<job'[p].key, p>> \in parts'
    PROVE  PlaceOf(p)'
PROOF
  BY DEF PlaceOf

(* What is known of a process that holds the lock of its key.              *)
LEMMA Holder ==
    ASSUME IInv, NEW p \in Proc, pc[p] \in Holding
    PROVE  /\ job[p] \in JobRec /\ job[p].key \in Key /\ job[p].use \in Uses \ {"run", "clear"}
           /\ \A k \in Key : entryLock[k] = p <=> k = job[p].key
           /\ UseFits(pc[p], job[p].use)
           /\ ~raw
           /\ outLock = p <=> pc[p] \in Installing
           /\ pc[p] # "idle" /\ pc[p] \notin RawPcs
PROOF
<1>1. pc[p] \notin RawPcs /\ pc[p] # "sweep2" /\ pc[p] # "idle"
  BY DEF Holding, RawPcs
<1>2. PlaceOf(p) /\ job[p] \in JobRec /\ job[p].use \in Uses
  BY DEF IInv, ProcTypes, JobRec
<1>3. job[p].use \notin {"run", "clear"}
  BY <1>1, <1>2 DEF PlaceOf, UseFits, Holding, Publishing, Installing, RawPcs
<1> QED
  BY <1>1, <1>2, <1>3, NotRaw DEF PlaceOf

(* And of one that does not.                                               *)
LEMMA NoHolder ==
    ASSUME IInv, NEW p \in Proc, pc[p] \notin Holding \cup {"sweep2"}
    PROVE  /\ job[p] \in JobRec /\ \A k \in Key : entryLock[k] # p
           /\ outLock # p
           /\ UseFits(pc[p], job[p].use)
           /\ pc[p] \notin Installing
           /\ pc[p] # "idle" /\ job[p].use # "clear" => job[p].key \in Key
PROOF
  BY DEF IInv, ProcTypes, PlaceOf, Holding, Installing

(* A miss releases the lock and goes on to restore or to the command.      *)
LEMMA MissEffect ==
    ASSUME IInv, NEW p \in Proc, pc[p] \in Holding \ Installing,
           job[p].use \in {"current", "restore"}, Miss(p),
           UNCHANGED <<raw, tree, marker, outLock, backup, content, keyOf, mixed, torn, started>>
    PROVE  /\ Quiet(p) /\ OthersLocks(p) /\ PlaceOf(p)' /\ EntryOf(p)'
           /\ pc'[p] \notin Publishing
PROOF
<1> DEFINE j == [job[p] EXCEPT !.man = None, !.art = None]
           l == IF job[p].use = "current" THEN "restore" ELSE "exec"
<1>1. /\ job[p] \in JobRec /\ job[p].key \in Key /\ outLock # p /\ ~raw /\ pc[p] # "idle"
  BY Holder DEF Holding, Installing
<1>2. j \in JobRec /\ j.key = job[p].key /\ j.use = job[p].use /\ l \in Pcs
  BY <1>1 DEF JobRec, Pcs
<1> HIDE DEF j
<1>3. Shape(p) /\ pc'[p] = l /\ job'[p] = j
  BY <1>2, Moved DEF Miss, j, IInv
<1>4. OthersLocks(p) /\ \A k \in Key : entryLock'[k] # p
  BY UnlockEffect DEF Miss
<1>5. l \in {"restore", "exec"}
  OBVIOUS
<1> HIDE DEF l
<1>6. Quiet(p)
  BY <1>1, <1>3, <1>5 DEF Quiet, Installing
<1>7. PlaceOf(p)'
  <2>1. UseFits(l, j.use)
    BY <1>1, <1>2, <1>5 DEF UseFits, Publishing, Installing
  <2>2. l \notin Holding \cup {"sweep2"}
    BY <1>5 DEF Holding
  <2> QED
    BY <1>1, <1>2, <1>3, <1>4, <2>1, <2>2, FreePlace
<1>8. EntryOf(p)'
  BY <1>3, <1>5 DEF EntryOf, Carrying, Publishing, Installing
<1> QED
  BY <1>3, <1>4, <1>5, <1>6, <1>7, <1>8 DEF Publishing

(* An entry that was found is used, is a miss, or is about to be removed;  *)
(* only a run's own archive goes on to the install.                        *)
LEMMA FoundEffect ==
    ASSUME IInv, NEW p \in Proc, pc[p] \in Publishing \cup {"get"}, job[p].use # "store",
           NEW m \in RunOrNone, NEW a \in RunOrNone, m = a => Whole(a, job[p].key),
           Found(p, m, a),
           UNCHANGED <<raw, tree, marker, outLock, backup, content, keyOf, mixed, torn, started>>
    PROVE  /\ Quiet(p) /\ OthersLocks(p) /\ PlaceOf(p)' /\ EntryOf(p)'
           /\ pc'[p] \notin Publishing
PROOF
<1>1. /\ job[p] \in JobRec /\ job[p].key \in Key /\ outLock # p /\ ~raw /\ pc[p] # "idle"
      /\ pc[p] \in Holding /\ job[p].use \in {"current", "restore"}
      /\ pc[p] \notin Installing
      /\ \A k \in Key : entryLock[k] = p <=> k = job[p].key
  BY Holder DEF Holding, Installing, Publishing, Uses
<1>2. CASE job[p].use = "current" /\ m # a
  BY <1>1, <1>2, MissEffect DEF Found, ChecksumAgrees
<1>3. CASE job[p].use = "current" /\ m = a
  <2>1. Unlock(p) /\ Goto(p, "skip") /\ job' = Touched(job[p].key, job)
    BY <1>3 DEF Found, ChecksumAgrees
  <2>2. Shape(p) /\ pc'[p] = "skip" /\ SameJob(job'[p], job[p])
    BY <1>1, <2>1, MovedTouch DEF IInv, ProcTypes, Pcs
  <2>3. OthersLocks(p) /\ \A k \in Key : entryLock'[k] # p
    BY <1>1, <2>1, UnlockEffect
  <2>4. Quiet(p)
    BY <1>1, <2>2 DEF Quiet, Installing
  <2>5. PlaceOf(p)'
    <3>1. UseFits("skip", "current")
      BY DEF UseFits, Publishing, Installing
    <3> QED
      BY <1>1, <1>3, <2>2, <2>3, <3>1, FreePlace DEF Holding, SameJob
  <2>6. EntryOf(p)'
    BY <2>2 DEF EntryOf, Carrying, Publishing, Installing
  <2> QED
    BY <2>2, <2>3, <2>4, <2>5, <2>6 DEF Publishing
<1>4. CASE job[p].use # "current"
  <2> DEFINE j == [job[p] EXCEPT !.man = m, !.art = a]
             l == IF m = a THEN "outlock" ELSE "drop"
  <2>1. Goto(p, l) /\ job' = [job EXCEPT ![p].man = m, ![p].art = a] /\ entryLock' = entryLock
    BY <1>4 DEF Found, ChecksumAgrees
  <2>2. m \in Nat \cup {None} /\ a \in Nat \cup {None}
    BY RunsAreNumbers DEF IInv, RunOrNone
  <2>3. /\ j \in JobRec /\ j.key = job[p].key /\ j.use = "restore" /\ l \in Pcs
        /\ j.man = m /\ j.art = a
    BY <1>1, <1>4, <2>2 DEF JobRec, Pcs
  <2>4. Set(p, j)
    BY <2>1, <1>1 DEF Set, IInv, ProcTypes
  <2> HIDE DEF j
  <2>5. Shape(p) /\ pc'[p] = l /\ job'[p] = j
    BY <2>1, <2>3, <2>4, Moved DEF IInv
  <2>6. l \in {"outlock", "drop"} /\ (l = "outlock" => m = a)
    OBVIOUS
  <2> HIDE DEF l
  <2>7. Quiet(p)
    BY <1>1, <2>5, <2>6 DEF Quiet, Installing
  <2>8. OthersLocks(p)
    BY <2>1, SameLocks
  <2>9. PlaceOf(p)'
    <3>1. UseFits(l, "restore") /\ l \in Holding /\ l \notin Installing \cup Publishing
      BY <2>6 DEF UseFits, Holding, Publishing, Installing
    <3>2. /\ pc'[p] = l /\ job'[p].key = job[p].key /\ job'[p].use = "restore"
          /\ entryLock' = entryLock /\ outLock' = outLock
      BY <2>1, <2>3, <2>5
    <3> QED
      BY <1>1, <3>1, <3>2, HeldPlace
  <2>10. EntryOf(p)'
    <3>1. \A k : Whole(a, k) => Whole(a, k)'
      BY DEF Whole, Run
    <3>2. PICK k \in Key : k = job[p].key
      BY <1>1
    <3>3. l = "outlock" => Whole(a, k)'
      BY <2>6, <3>1, <3>2
    <3>4. job'[p].key = k /\ job'[p].man = m /\ job'[p].art = a /\ pc'[p] = l
      BY <2>3, <2>5, <3>2
    <3> QED
      BY <2>6, <3>3, <3>4 DEF EntryOf, Carrying, Publishing, Installing
  <2> QED
    BY <2>5, <2>6, <2>7, <2>8, <2>9, <2>10 DEF Publishing
<1> QED
  BY <1>2, <1>3, <1>4

-----------------------------------------------------------------------------
(* A process that goes to a step where it holds and carries nothing.       *)
LEMMA QuietMove ==
    ASSUME IInv, NEW p \in Proc, Shape(p), pc[p] # "idle", pc[p] \notin Holding \cup {"sweep2"},
           pc'[p] \notin Holding \cup {"sweep2", "run"},
           pc'[p] = "store" => job'[p].run \in Run /\ keyOf[job'[p].run] = job'[p].key,
           raw => pc'[p] \in RawPcs \ {"run", "mark"} /\ RawOf(p)',
           UseFits(pc'[p], job'[p].use),
           pc'[p] # "idle" /\ job'[p].use # "clear" => job'[p].key \in Key,
           UNCHANGED <<raw, tree, outLock, backup, content, keyOf, mixed, torn, started, disk,
                       entryLock>>,
           marker' = marker \/ marker' = None
    PROVE  IInv'
PROOF
<1>1. (\A k \in Key : entryLock[k] # p) /\ outLock # p /\ pc[p] \notin Installing
  BY NoHolder
<1>2. Quiet(p)
  BY <1>1 DEF Quiet, Holding, Installing
<1>3. OthersLocks(p)
  BY SameLocks
<1>4. PlaceOf(p)'
  BY <1>1, FreePlace
<1>5. EntryOf(p)'
  BY DEF EntryOf, Carrying, Publishing, Installing, Holding, Run
<1> QED
  BY <1>2, <1>3, <1>4, <1>5, QuietSameStores

(* An invocation, or a clear, starts.                                      *)
LEMMA BeginSteps ==
    ASSUME IInv, NEW p \in Proc,
           \/ \E k \in Key, o \in Offers : Begin(p, k, o[1], o[2])
           \/ BeginClear(p)
    PROVE  IInv'
PROOF
<1>1. pc[p] = "idle" /\ p = started + 1 /\ started' = p
  <2>1. p = started + 1 /\ started' = p
    BY DEF Begin, BeginClear
  <2> QED
    BY <2>1, Basics DEF IInv, ProcTypes
<1>2. (\A k \in Key : entryLock[k] # p) /\ outLock # p /\ pc[p] \notin Installing
  BY <1>1, NoHolder DEF Holding
<1>3. UNCHANGED <<raw, tree, marker, outLock, backup, content, keyOf, mixed, torn, disk, entryLock>>
  BY DEF Begin, BeginClear, disk, locks, history
<1>4. /\ Shape(p)
      /\ \/ pc'[p] = "cleanup" /\ job'[p].key \in Key /\ job'[p].use = "run"
         \/ pc'[p] = "sweep" /\ job'[p].use = "clear"
  <2>1. ASSUME NEW k \in Key, NEW o \in Offers, Begin(p, k, o[1], o[2])
        PROVE  Shape(p) /\ pc'[p] = "cleanup" /\ job'[p].key \in Key /\ job'[p].use = "run"
    <3> DEFINE j == [NoJob EXCEPT !.key = k, !.mode = o[1],
                                  !.looks = ~o[2] /\ (o[1] = "off" \/ Reads(o[1])),
                                  !.left = IF o[1] = "off" THEN {} ELSE parts]
    <3>1. o[1] \in Modes /\ o[2] \in BOOLEAN
      BY ConstantsFit DEF Modes
    <3>2. parts \in SUBSET (Key \cup Root \cup (Key \X Proc))
      BY DEF IInv, StoreTypes
    <3>3. (~o[2] /\ (o[1] = "off" \/ Reads(o[1]))) \in BOOLEAN
      OBVIOUS
    <3>4. j \in JobRec /\ j.key = k /\ j.use = "run"
      BY <3>1, <3>2, <3>3 DEF NoJob, JobRec, Modes, Uses
    <3>5. Goto(p, "cleanup") /\ Set(p, j)
      BY <2>1 DEF Begin
    <3> HIDE DEF j
    <3> QED
      BY <3>4, <3>5, Moved DEF IInv, Pcs
  <2>2. ASSUME BeginClear(p) PROVE Shape(p) /\ pc'[p] = "sweep" /\ job'[p].use = "clear"
    <3> DEFINE j == [NoJob EXCEPT !.use = "clear", !.left = {k \in Key : manifest[k] # None}]
    <3>1. j \in JobRec /\ j.use = "clear"
      BY DEF NoJob, JobRec, Modes, Uses
    <3>2. Goto(p, "sweep") /\ Set(p, j)
      BY <2>2 DEF BeginClear
    <3> HIDE DEF j
    <3> QED
      BY <3>1, <3>2, Moved DEF IInv, Pcs
  <2> QED
    BY <2>1, <2>2
<1>5. Quiet(p)
  BY <1>1, <1>2, <1>3, <1>4 DEF Quiet, Installing, RawPcs, RawOf
<1>6. PlaceOf(p)'
  <2>1. UseFits("cleanup", "run") /\ UseFits("sweep", "clear")
    BY DEF UseFits, Publishing, Installing
  <2> QED
    BY <1>2, <1>3, <1>4, <2>1, FreePlace DEF Holding
<1>7. EntryOf(p)'
  BY <1>4 DEF EntryOf, Carrying, Publishing, Installing
<1> QED
  BY <1>3, <1>5, <1>6, <1>7, SameLocks, QuietSameStores

(* The cleanup of abandoned archives spares those of processes that hold   *)
(* the lock of their key.                                                  *)
LEMMA CleanupStep ==
    ASSUME IInv, NEW p \in Proc, NEW k \in Key, CleanupKey(p, k)
    PROVE  IInv'
PROOF
<1> DEFINE listed == {x \in job[p].left : x[1] = k}
           j == [job[p] EXCEPT !.left = @ \ listed]
<1>1. /\ pc[p] = "cleanup" /\ entryLock[k] = None /\ parts' = parts \ listed
      /\ Set(p, j) /\ pc' = pc
      /\ UNCHANGED <<raw, tree, marker, manifest, artifact, blobs, remote, outLock, entryLock,
                     backup, started, content, keyOf, mixed, torn>>
  BY DEF CleanupKey, locks, bounds, history
<1>2. /\ job[p] \in JobRec /\ (\A l \in Key : entryLock[l] # p) /\ outLock # p
      /\ UseFits(pc[p], job[p].use) /\ (job[p].use # "clear" => job[p].key \in Key)
  BY <1>1, NoHolder DEF Holding
<1>3. j \in JobRec /\ j.key = job[p].key /\ j.use = job[p].use
  BY <1>2 DEF JobRec
<1> HIDE DEF j
<1>4. Shape(p) /\ pc'[p] = "cleanup" /\ job'[p] = j
  BY <1>1, <1>3, SetOnly DEF IInv
<1>5. Quiet(p)
  BY <1>1, <1>4 DEF Quiet, Installing, RawPcs, RawOf
<1>6. OthersParts(p)
  <2>1. ASSUME NEW q \in Proc \ {p}, pc[q] \in Publishing PROVE <<job[q].key, q>> \in parts'
    <3>1. job[q].key \in Key /\ entryLock[job[q].key] = q /\ <<job[q].key, q>> \in parts
      BY <2>1, Holder DEF IInv, PlaceOf, Publishing, Holding
    <3>2. job[q].key # k
      BY <1>1, <3>1, Basics
    <3> QED
      BY <1>1, <3>1, <3>2
  <2> QED
    BY <1>1, <2>1 DEF OthersParts, IInv, StoreTypes
<1>7. PlaceOf(p)'
  BY <1>1, <1>2, <1>3, <1>4, FreePlace DEF Holding
<1>8. EntryOf(p)'
  BY <1>4 DEF EntryOf, Carrying, Publishing, Installing
<1>9. \A l \in Key : KeyEntry(l)'
  BY <1>1 DEF IInv, KeyEntry, Whole, Run
<1>10. /\ manifest' \in [Key -> RunOrNone] /\ artifact' \in [Key -> RunOrNone]
       /\ remote' \in [Key -> RunOrNone] /\ blobs \subseteq blobs' /\ blobs' \subseteq Run
  BY <1>1 DEF IInv, StoreTypes
<1> QED
  BY <1>1, <1>5, <1>6, <1>7, <1>8, <1>9, <1>10, SameLocks, QuietStep

(* So does a clear.                                                        *)
LEMMA ClearPartStep ==
    ASSUME IInv, NEW p \in Proc, NEW k \in Key, NEW q \in Proc, ClearPart(p, k, q)
    PROVE  IInv'
PROOF
<1>1. /\ pc[p] = "sweep" /\ entryLock[k] = None /\ parts' = parts \ {<<k, q>>}
      /\ job[p].use = "clear" /\ job' = job /\ pc' = pc
      /\ UNCHANGED <<raw, tree, marker, manifest, artifact, blobs, remote, outLock, entryLock,
                     backup, started, content, keyOf, mixed, torn>>
  BY DEF ClearPart, locks, bounds, history
<1>2. /\ job[p] \in JobRec /\ (\A l \in Key : entryLock[l] # p) /\ outLock # p
      /\ UseFits(pc[p], job[p].use)
  BY <1>1, NoHolder DEF Holding
<1>3. Set(p, job[p])
  BY <1>1 DEF Set, IInv, ProcTypes
<1>4. Shape(p) /\ pc'[p] = "sweep" /\ job'[p] = job[p]
  BY <1>1, <1>2, <1>3, SetOnly DEF IInv
<1>5. Quiet(p)
  BY <1>1, <1>4 DEF Quiet, Installing, RawPcs, RawOf
<1>6. OthersParts(p)
  <2>1. ASSUME NEW o \in Proc \ {p}, pc[o] \in Publishing PROVE <<job[o].key, o>> \in parts'
    <3>1. job[o].key \in Key /\ entryLock[job[o].key] = o /\ <<job[o].key, o>> \in parts
      BY <2>1, Holder DEF IInv, PlaceOf, Publishing, Holding
    <3>2. job[o].key # k
      BY <1>1, <3>1, Basics
    <3> QED
      BY <1>1, <3>1, <3>2
  <2> QED
    BY <1>1, <2>1 DEF OthersParts, IInv, StoreTypes
<1>7. PlaceOf(p)'
  BY <1>1, <1>2, <1>4, FreePlace DEF Holding
<1>8. EntryOf(p)'
  BY <1>4 DEF EntryOf, Carrying, Publishing, Installing
<1>9. \A l \in Key : KeyEntry(l)'
  BY <1>1 DEF IInv, KeyEntry, Whole, Run
<1>10. /\ manifest' \in [Key -> RunOrNone] /\ artifact' \in [Key -> RunOrNone]
       /\ remote' \in [Key -> RunOrNone] /\ blobs \subseteq blobs' /\ blobs' \subseteq Run
  BY <1>1 DEF IInv, StoreTypes
<1> QED
  BY <1>1, <1>5, <1>6, <1>7, <1>8, <1>9, <1>10, SameLocks, QuietStep

(* Deciding which way to go, and taking the lock to look an entry up.      *)
LEMMA JudgeSteps ==
    ASSUME IInv, NEW p \in Proc,
           (\E fresh \in BOOLEAN : Judge(p, fresh)) \/ Skip(p) \/ CurrentOutput(p) \/ Restore(p)
    PROVE  IInv'
PROOF
<1>1. ASSUME NEW fresh \in BOOLEAN, Judge(p, fresh) PROVE IInv'
  <2>1. /\ pc[p] = "cleanup" /\ job' = job
        /\ UNCHANGED <<raw, tree, marker, disk, entryLock, outLock, backup, started, content,
                       keyOf, mixed, torn>>
    BY <1>1 DEF Judge, locks, bounds, history
  <2>2. PICK l \in {"exec", "skip", "current", "restore"} :
           Goto(p, l) /\ (raw => l \in {"exec", "skip"})
    <3> DEFINE j == job[p]
               off == j.mode = "off"
               l == CASE ~j.looks -> "exec"
                      [] j.looks /\ off -> IF fresh THEN "skip" ELSE "exec"
                      [] j.looks /\ ~off /\ raw ->
                            IF marker = j.key /\ fresh THEN "skip" ELSE "exec"
                      [] OTHER -> IF fresh THEN "current" ELSE "restore"
    <3>1. Goto(p, l)
      BY <1>1 DEF Judge
    <3>2. l \in {"exec", "skip", "current", "restore"} /\ (raw => l \in {"exec", "skip"})
      OBVIOUS
    <3> QED
      BY <3>1, <3>2
  <2>3. Shape(p) /\ pc'[p] = l /\ job'[p] = job[p]
    BY <2>1, <2>2, MovedOnly DEF IInv, Pcs
  <2>4. job[p].use # "clear" /\ job[p].key \in Key
    BY <2>1, NoHolder DEF Holding, UseFits
  <2>5. UseFits(l, job[p].use) /\ l \notin Holding \cup {"sweep2", "run", "store"} /\ l # "idle"
    BY <2>2, <2>4 DEF UseFits, Holding, Publishing, Installing
  <2>6. pc[p] # "idle" /\ pc[p] \notin Holding \cup {"sweep2"}
    BY <2>1 DEF Holding
  <2>7. raw => pc'[p] \in RawPcs \ {"run", "mark"} /\ RawOf(p)'
    BY <2>2, <2>3 DEF RawPcs, RawOf
  <2> QED
    BY <2>1, <2>3, <2>4, <2>5, <2>6, <2>7, QuietMove
<1>2. CASE Skip(p)
  <2>1. /\ pc[p] = "skip" /\ End(p)
        /\ UNCHANGED <<raw, tree, marker, disk, entryLock, outLock, backup, started, content,
                       keyOf, mixed, torn>>
    BY <1>2 DEF Skip, locks, bounds, history
  <2>2. Shape(p) /\ pc'[p] = "idle" /\ job'[p].use = "run"
    BY <2>1, Ended DEF IInv, NoJob
  <2>3. UseFits("idle", "run")
    BY DEF UseFits, Publishing, Installing
  <2>4. pc[p] # "idle" /\ pc[p] \notin Holding \cup {"sweep2"}
        /\ "idle" \notin Holding \cup {"sweep2", "run", "store"}
    BY <2>1 DEF Holding
  <2>5. pc'[p] \in RawPcs \ {"run", "mark"} /\ RawOf(p)'
    BY <2>2 DEF RawPcs, RawOf
  <2> QED
    BY <2>1, <2>2, <2>3, <2>4, <2>5, QuietMove
<1>3. ASSUME pc[p] \in {"current", "restore"}, NEW u \in {"current", "restore"},
             Lock(p), Goto(p, "get"), Set(p, [job[p] EXCEPT !.use = u]),
             UNCHANGED <<raw, tree, marker, disk, outLock, backup, started, content, keyOf,
                         mixed, torn>>
      PROVE  IInv'
  <2>1. /\ job[p] \in JobRec /\ job[p].key \in Key /\ outLock # p /\ ~raw
        /\ pc[p] \notin Holding \cup {"sweep2"} /\ pc[p] # "idle"
    BY <1>3, NoHolder, NotRaw DEF Holding, RawPcs, UseFits
  <2> DEFINE j == [job[p] EXCEPT !.use = u]
  <2>2. j \in JobRec /\ j.key = job[p].key /\ j.use = u
    BY <2>1 DEF JobRec, Uses
  <2> HIDE DEF j
  <2>3. Shape(p) /\ pc'[p] = "get" /\ job'[p] = j
    BY <1>3, <2>2, Moved DEF IInv, Pcs, j
  <2>4. OthersLocks(p) /\ \A k \in Key : entryLock'[k] = p <=> k = job[p].key
    BY <1>3, <2>1, LockEffect
  <2>5. Quiet(p)
    BY <1>3, <2>1, <2>3 DEF Quiet, Installing
  <2>6. PlaceOf(p)'
    <3>1. UseFits("get", u) /\ "get" \in Holding \ (Installing \cup Publishing)
      BY DEF UseFits, Publishing, Installing, Holding
    <3> QED
      BY <1>3, <2>1, <2>2, <2>3, <2>4, <3>1, HeldPlace
  <2>7. EntryOf(p)'
    BY <2>3 DEF EntryOf, Carrying, Publishing, Installing
  <2> QED
    BY <1>3, <2>4, <2>5, <2>6, <2>7, QuietSameStores
<1>4. CASE CurrentOutput(p) /\ marker = job[p].key
  BY <1>3, <1>4 DEF CurrentOutput, bounds, history
<1>5. CASE CurrentOutput(p) /\ marker # job[p].key
  <2>1. /\ pc[p] = "current" /\ Goto(p, "restore") /\ job' = job
        /\ UNCHANGED <<raw, tree, marker, disk, entryLock, outLock, backup, started, content,
                       keyOf, mixed, torn>>
    BY <1>5 DEF CurrentOutput, bounds, history
  <2>2. Shape(p) /\ pc'[p] = "restore" /\ job'[p] = job[p]
    BY <2>1, MovedOnly DEF IInv, Pcs
  <2>3. job[p].use # "clear" /\ job[p].key \in Key /\ ~raw
    BY <2>1, NoHolder, NotRaw DEF Holding, UseFits, RawPcs
  <2>4. UseFits("restore", job[p].use)
    BY <2>3 DEF UseFits, Publishing, Installing
  <2>5. pc[p] # "idle" /\ pc[p] \notin Holding \cup {"sweep2"}
        /\ "restore" \notin Holding \cup {"sweep2", "run", "store"}
    BY <2>1 DEF Holding
  <2> QED
    BY <2>1, <2>2, <2>3, <2>4, <2>5, QuietMove
<1>6. CASE Restore(p)
  BY <1>3, <1>6 DEF Restore, bounds, history
<1> QED
  BY <1>1, <1>2, <1>4, <1>5, <1>6

(* Looking an entry up, here and in the remote store, and removing a bad   *)
(* one.                                                                    *)
LEMMA LookupSteps ==
    ASSUME IInv, NEW p \in Proc,
           GetLocal(p) \/ Expired(p) \/ GetRemote(p) \/ GetNothing(p) \/ Drop(p) \/ DropEnds(p)
    PROVE  IInv'
PROOF
<1> DEFINE k == job[p].key
<1>1. CASE GetLocal(p)
  <2>1. /\ pc[p] = "get" /\ manifest[k] # None /\ Found(p, manifest[k], artifact[k])
        /\ UNCHANGED <<raw, tree, marker, disk, outLock, backup, started, content, keyOf,
                       mixed, torn>>
    BY <1>1 DEF GetLocal, bounds, history
  <2>2. pc[p] \in Holding /\ job[p].use # "store" /\ k \in Key
    BY <2>1, Holder DEF Holding, UseFits
  <2>3. /\ manifest[k] \in RunOrNone /\ artifact[k] \in RunOrNone
        /\ manifest[k] = artifact[k] => Whole(artifact[k], k)
    BY <2>1, <2>2 DEF IInv, StoreTypes, KeyEntry
  <2>4. Quiet(p) /\ OthersLocks(p) /\ PlaceOf(p)' /\ EntryOf(p)'
    BY <2>1, <2>2, <2>3, FoundEffect
  <2> QED
    BY <2>1, <2>4, QuietSameStores
<1>2. ASSUME pc[p] = "get", Miss(p),
             UNCHANGED <<raw, tree, marker, disk, outLock, backup, started, content, keyOf,
                         mixed, torn>>
      PROVE  IInv'
  <2>1. pc[p] \in Holding \ Installing /\ job[p].use \in {"current", "restore"}
    BY <1>2, Holder DEF Holding, Installing, UseFits
  <2>2. Quiet(p) /\ OthersLocks(p) /\ PlaceOf(p)' /\ EntryOf(p)'
    BY <1>2, <2>1, MissEffect
  <2> QED
    BY <1>2, <2>2, QuietSameStores
<1>3. CASE Expired(p) /\ job[p].use = "current"
  BY <1>2, <1>3 DEF Expired, bounds, history
<1>4. CASE Expired(p) /\ job[p].use # "current"
  <2>1. /\ pc[p] = "get" /\ Goto(p, "drop") /\ entryLock' = entryLock /\ job' = job
        /\ UNCHANGED <<raw, tree, marker, disk, outLock, backup, started, content, keyOf,
                       mixed, torn>>
    BY <1>4 DEF Expired, bounds, history
  <2>2. /\ k \in Key /\ job[p].use = "restore" /\ outLock # p /\ ~raw
        /\ \A l \in Key : entryLock[l] = p <=> l = k
    BY <1>4, <2>1, Holder DEF Holding, UseFits, Installing
  <2>3. Shape(p) /\ pc'[p] = "drop" /\ job'[p] = job[p]
    BY <2>1, MovedOnly DEF IInv, Pcs
  <2>4. Quiet(p)
    BY <2>1, <2>2, <2>3 DEF Quiet, Installing
  <2>5. PlaceOf(p)'
    <3>1. UseFits("drop", "restore") /\ "drop" \in Holding \ (Installing \cup Publishing)
      BY DEF UseFits, Publishing, Installing, Holding
    <3> QED
      BY <2>1, <2>2, <2>3, <3>1, HeldPlace
  <2>6. EntryOf(p)'
    BY <2>3 DEF EntryOf, Carrying, Publishing, Installing
  <2> QED
    BY <2>1, <2>4, <2>5, <2>6, SameLocks, QuietSameStores
<1>5. CASE GetRemote(p)
  <2> DEFINE n == remote[k]
             j == [job[p] EXCEPT !.man = n, !.art = n]
  <2>1. /\ pc[p] = "get" /\ n \in blobs /\ parts' = parts \cup {<<k, p>>}
        /\ Goto(p, "publish") /\ Set(p, j) /\ entryLock' = entryLock
        /\ UNCHANGED <<raw, tree, marker, manifest, artifact, blobs, remote, outLock, backup,
                       started, content, keyOf, mixed, torn>>
    BY <1>5 DEF GetRemote, locks, bounds, history
  <2>2. /\ k \in Key /\ job[p] \in JobRec /\ job[p].use # "run" /\ outLock # p /\ ~raw
        /\ \A l \in Key : entryLock[l] = p <=> l = k
        /\ job[p].use # "clear"
    BY <2>1, Holder DEF Holding, UseFits, Installing
  <2>3. n \in Nat /\ n # None /\ Whole(n, k)
    BY <2>1, <2>2, RunsAreNumbers DEF IInv, StoreTypes, KeyEntry
  <2>4. j \in JobRec /\ j.key = k /\ j.use = job[p].use /\ j.man = n /\ j.art = n
    BY <2>2, <2>3 DEF JobRec
  <2> HIDE DEF j
  <2>5. Shape(p) /\ pc'[p] = "publish" /\ job'[p] = j
    BY <2>1, <2>4, Moved DEF IInv, Pcs
  <2>6. Quiet(p)
    BY <2>1, <2>2, <2>5 DEF Quiet, Installing
  <2>7. OthersParts(p)
    BY <2>1, <2>2 DEF OthersParts, IInv, PlaceOf, StoreTypes
  <2>8. PlaceOf(p)'
    <3>1. UseFits("publish", job[p].use) /\ "publish" \in Holding \ Installing
      BY <2>2 DEF UseFits, Publishing, Installing, Holding
    <3>2. <<k, p>> \in parts'
      BY <2>1
    <3> QED
      BY <2>1, <2>2, <2>4, <2>5, <3>1, <3>2, HeldPlace
  <2>9. EntryOf(p)'
    <3>1. job'[p].man = n /\ job'[p].art = n /\ job'[p].key = k /\ pc'[p] = "publish"
      BY <2>4, <2>5
    <3> QED
      BY <2>1, <2>3, <3>1 DEF EntryOf, Whole, Run
  <2>10. /\ manifest' \in [Key -> RunOrNone] /\ artifact' \in [Key -> RunOrNone]
         /\ remote' \in [Key -> RunOrNone] /\ blobs \subseteq blobs' /\ blobs' \subseteq Run
         /\ \A l \in Key : KeyEntry(l)'
    BY <2>1 DEF IInv, StoreTypes, KeyEntry, Whole, Run
  <2> QED
    BY <2>1, <2>6, <2>7, <2>8, <2>9, <2>10, SameLocks, QuietStep
<1>6. CASE GetNothing(p)
  BY <1>2, <1>6 DEF GetNothing, bounds, history
<1>7. CASE Drop(p)
  <2>1. /\ pc[p] = "drop" /\ artifact' = [artifact EXCEPT ![k] = None]
        /\ Goto(p, "drop2") /\ entryLock' = entryLock /\ job' = job
        /\ UNCHANGED <<raw, tree, marker, manifest, parts, blobs, remote, outLock, backup,
                       started, content, keyOf, mixed, torn>>
    BY <1>7 DEF Drop, locks, bounds, history
  <2>2. /\ k \in Key /\ job[p].use = "restore" /\ outLock # p /\ ~raw
        /\ \A l \in Key : entryLock[l] = p <=> l = k
    BY <2>1, Holder DEF Holding, UseFits, Installing
  <2>3. Shape(p) /\ pc'[p] = "drop2" /\ job'[p] = job[p]
    BY <2>1, MovedOnly DEF IInv, Pcs
  <2>4. Quiet(p)
    BY <2>1, <2>2, <2>3 DEF Quiet, Installing
  <2>5. PlaceOf(p)'
    <3>1. UseFits("drop2", "restore") /\ "drop2" \in Holding \ (Installing \cup Publishing)
      BY DEF UseFits, Publishing, Installing, Holding
    <3> QED
      BY <2>1, <2>2, <2>3, <3>1, HeldPlace
  <2>6. EntryOf(p)'
    BY <2>3 DEF EntryOf, Carrying, Publishing, Installing
  <2>7. OthersParts(p)
    BY <2>1 DEF OthersParts, IInv, PlaceOf, StoreTypes
  <2>8. /\ manifest' \in [Key -> RunOrNone] /\ artifact' \in [Key -> RunOrNone]
        /\ remote' \in [Key -> RunOrNone] /\ blobs \subseteq blobs' /\ blobs' \subseteq Run
        /\ \A l \in Key : artifact'[l] = artifact[l] \/ artifact'[l] = None
    BY <2>1, <2>2 DEF IInv, StoreTypes, RunOrNone
  <2>9. \A l \in Key : KeyEntry(l)'
    BY <2>1, <2>8 DEF IInv, KeyEntry, Whole, Run
  <2> QED
    BY <2>1, <2>4, <2>5, <2>6, <2>7, <2>8, <2>9, SameLocks, QuietStep
<1>8. CASE DropEnds(p)
  <2>1. /\ pc[p] = "drop2" /\ manifest' = [manifest EXCEPT ![k] = None] /\ Miss(p)
        /\ UNCHANGED <<raw, tree, marker, artifact, parts, blobs, remote, outLock, backup,
                       started, content, keyOf, mixed, torn>>
    BY <1>8 DEF DropEnds, bounds, history
  <2>2. pc[p] \in Holding \ Installing /\ job[p].use = "restore" /\ k \in Key
    BY <2>1, Holder DEF Holding, Installing, UseFits
  <2>3. Quiet(p) /\ OthersLocks(p) /\ PlaceOf(p)' /\ EntryOf(p)'
    BY <2>1, <2>2, MissEffect
  <2>4. OthersParts(p)
    BY <2>1 DEF OthersParts, IInv, PlaceOf, StoreTypes
  <2>5. /\ manifest' \in [Key -> RunOrNone] /\ artifact' \in [Key -> RunOrNone]
        /\ remote' \in [Key -> RunOrNone] /\ blobs \subseteq blobs' /\ blobs' \subseteq Run
        /\ \A l \in Key : manifest'[l] = manifest[l] \/ manifest'[l] = None
    BY <2>1, <2>2 DEF IInv, StoreTypes, RunOrNone
  <2>6. \A l \in Key : KeyEntry(l)'
    BY <2>1, <2>5 DEF IInv, KeyEntry, Whole, Run
  <2> QED
    BY <2>3, <2>4, <2>5, <2>6, QuietStep
<1> QED
  BY <1>1, <1>3, <1>4, <1>5, <1>6, <1>7, <1>8

(* Publishing an entry and mirroring it.                                   *)
LEMMA PublishSteps ==
    ASSUME IInv, NEW p \in Proc,
           \/ PublishManifest(p) \/ PublishArtifact(p) \/ PromoteFails(p) \/ StoreFails(p)
           \/ MirrorBlobs(p) \/ MirrorResult(p) \/ MirrorFails(p)
           \/ \E over \in SUBSET Key : StoreEnds(p, over)
    PROVE  IInv'
PROOF
<1> DEFINE k == job[p].key
<1>1. /\ pc[p] \in Publishing \cup {"mirror", "mirror2", "unlock"}
      /\ UNCHANGED <<raw, tree, marker, outLock, backup, started, content, keyOf, mixed, torn>>
  BY DEF PublishManifest, PublishArtifact, PromoteFails, StoreFails, MirrorBlobs, MirrorResult,
         MirrorFails, StoreEnds, Publishing, locks, bounds, history
<1>2. /\ k \in Key /\ job[p] \in JobRec /\ outLock # p /\ ~raw /\ pc[p] \in Holding
      /\ job[p].use \in Uses \ {"run", "clear"} /\ pc[p] # "idle" /\ pc[p] \notin Installing
      /\ \A l \in Key : entryLock[l] = p <=> l = k
      /\ UseFits(pc[p], job[p].use)
  BY <1>1, Holder DEF Holding, Installing, Publishing
<1>3. pc[p] \in Carrying =>
         /\ job[p].man = job[p].art /\ Whole(job[p].art, k) /\ job[p].art \in Run
         /\ job[p].art \in RunOrNone
  BY DEF IInv, EntryOf, Whole, RunOrNone
<1>4. ASSUME Shape(p), pc'[p] \in Publishing \cup {"mirror", "mirror2", "unlock"},
             SameJob(job'[p], job[p]), entryLock' = entryLock, UseFits(pc'[p], job[p].use),
             pc'[p] \in Carrying => pc[p] \in Carrying,
             pc'[p] = "mirror2" => job[p].art \in blobs',
             pc'[p] \in Publishing => parts' = parts /\ pc[p] \in Publishing
      PROVE  Quiet(p) /\ OthersLocks(p) /\ PlaceOf(p)' /\ EntryOf(p)'
  <2>1. Quiet(p)
    BY <1>1, <1>2, <1>4 DEF Quiet, Installing, Publishing
  <2>2. OthersLocks(p)
    BY <1>4, SameLocks
  <2>3. PlaceOf(p)'
    <3>1. pc'[p] \in Holding /\ pc'[p] \notin Installing
      BY <1>4 DEF Holding, Installing, Publishing
    <3>2. pc'[p] \in Publishing => <<job'[p].key, p>> \in parts'
      BY <1>4 DEF IInv, PlaceOf, SameJob
    <3> QED
      BY <1>1, <1>2, <1>4, <3>1, <3>2, HeldPlace DEF SameJob
  <2>4. EntryOf(p)'
    <3>1. /\ job'[p].man = job[p].man /\ job'[p].art = job[p].art /\ job'[p].key = k
          /\ pc'[p] \notin {"run", "store"}
      BY <1>4 DEF SameJob, Publishing
    <3> QED
      BY <1>1, <1>3, <1>4, <3>1 DEF EntryOf, Whole, Run
  <2> QED
    BY <2>1, <2>2, <2>3, <2>4
<1>5. ASSUME parts' = parts \/ parts' = parts \ {<<k, p>>} PROVE OthersParts(p)
  BY <1>5 DEF OthersParts, IInv, PlaceOf, StoreTypes
<1>6. ASSUME UNCHANGED <<manifest, artifact, remote, blobs>>
      PROVE  /\ manifest' \in [Key -> RunOrNone] /\ artifact' \in [Key -> RunOrNone]
             /\ remote' \in [Key -> RunOrNone] /\ blobs \subseteq blobs' /\ blobs' \subseteq Run
             /\ \A l \in Key : KeyEntry(l)'
  BY <1>1, <1>6 DEF IInv, StoreTypes, KeyEntry, Whole, Run
<1>7. CASE PublishManifest(p)
  <2>1. /\ pc[p] = "publish" /\ manifest' = [manifest EXCEPT ![k] = job[p].man]
        /\ Goto(p, "publish2") /\ job' = job /\ entryLock' = entryLock
        /\ UNCHANGED <<artifact, parts, blobs, remote>>
    BY <1>7 DEF PublishManifest, locks
  <2>2. Shape(p) /\ pc'[p] = "publish2" /\ SameJob(job'[p], job[p])
    BY <2>1, MovedOnly DEF IInv, Pcs, SameJob
  <2>3. UseFits("publish2", job[p].use)
    BY <1>2 DEF UseFits, Publishing, Installing
  <2>4. Quiet(p) /\ OthersLocks(p) /\ PlaceOf(p)' /\ EntryOf(p)'
    BY <1>4, <2>1, <2>2, <2>3 DEF Publishing, Carrying
  <2>5. /\ manifest' \in [Key -> RunOrNone] /\ artifact' \in [Key -> RunOrNone]
        /\ remote' \in [Key -> RunOrNone] /\ blobs \subseteq blobs' /\ blobs' \subseteq Run
        /\ \A l \in Key : manifest'[l] = IF l = k THEN job[p].art ELSE manifest[l]
    BY <1>2, <1>3, <2>1 DEF IInv, StoreTypes, Carrying, Publishing
  <2>6. Whole(job[p].art, k)
    BY <1>3, <2>1 DEF Carrying, Publishing
  <2>7. \A l \in Key : KeyEntry(l)'
    BY <1>1, <2>1, <2>5, <2>6 DEF IInv, KeyEntry, Whole, Run
  <2> QED
    BY <1>5, <2>1, <2>4, <2>5, <2>7, QuietStep
<1>8. CASE PublishArtifact(p)
  <2>1. /\ pc[p] = "publish2" /\ artifact' = [artifact EXCEPT ![k] = job[p].art]
        /\ parts' = parts \ {<<k, p>>}
        /\ UNCHANGED <<manifest, blobs, remote>>
    BY <1>8 DEF PublishArtifact
  <2>2. Whole(job[p].art, k) /\ job[p].art \in RunOrNone
    BY <1>3, <2>1 DEF Carrying, Publishing
  <2>3. /\ manifest' \in [Key -> RunOrNone] /\ artifact' \in [Key -> RunOrNone]
        /\ remote' \in [Key -> RunOrNone] /\ blobs \subseteq blobs' /\ blobs' \subseteq Run
        /\ \A l \in Key : artifact'[l] = IF l = k THEN job[p].art ELSE artifact[l]
    BY <1>2, <2>1, <2>2 DEF IInv, StoreTypes
  <2>4. \A l \in Key : KeyEntry(l)'
    BY <1>1, <2>1, <2>2, <2>3 DEF IInv, KeyEntry, Whole, Run
  <2>5. Quiet(p) /\ OthersLocks(p) /\ PlaceOf(p)' /\ EntryOf(p)'
    <3>1. CASE job[p].use = "store"
      <4>1. PICK l \in {"mirror", "unlock"} :
               Goto(p, l) /\ job' = Touched(k, job) /\ entryLock' = entryLock
        BY <1>8, <3>1 DEF PublishArtifact
      <4>2. Shape(p) /\ pc'[p] = l /\ SameJob(job'[p], job[p])
        BY <1>2, <4>1, MovedTouch DEF IInv, ProcTypes, Pcs
      <4>3. UseFits(l, "store")
        BY DEF UseFits, Publishing, Installing
      <4> QED
        BY <1>4, <2>1, <3>1, <4>1, <4>2, <4>3 DEF Publishing, Carrying
    <3>2. CASE job[p].use # "store"
      <4>1. Found(p, manifest[k], job[p].art)
        BY <1>8, <3>2 DEF PublishArtifact
      <4>2. manifest[k] \in RunOrNone
        BY <1>2 DEF IInv, StoreTypes
      <4> QED
        BY <1>1, <2>1, <2>2, <3>2, <4>1, <4>2, FoundEffect DEF Publishing
    <3> QED
      BY <3>1, <3>2
  <2> QED
    BY <1>5, <2>1, <2>3, <2>4, <2>5, QuietStep
<1>9. CASE PromoteFails(p)
  <2>1. /\ pc[p] \in Publishing /\ job[p].use # "store" /\ parts' = parts \ {<<k, p>>}
        /\ Found(p, job[p].man, job[p].art)
        /\ UNCHANGED <<manifest, artifact, remote, blobs>>
    BY <1>9 DEF PromoteFails, Publishing
  <2>2. Quiet(p) /\ OthersLocks(p) /\ PlaceOf(p)' /\ EntryOf(p)'
    BY <1>1, <1>3, <2>1, FoundEffect DEF Carrying
  <2> QED
    BY <1>5, <1>6, <2>1, <2>2, QuietStep
<1>10. CASE StoreFails(p)
  <2>1. /\ parts' = parts \ {<<k, p>>} /\ Unlock(p) /\ End(p)
        /\ UNCHANGED <<manifest, artifact, remote, blobs>>
    BY <1>10 DEF StoreFails
  <2>2. Shape(p) /\ pc'[p] = "idle" /\ job'[p].use = "run"
    BY <2>1, Ended DEF IInv, NoJob
  <2>3. OthersLocks(p) /\ \A l \in Key : entryLock'[l] # p
    BY <1>2, <2>1, UnlockEffect
  <2>4. Quiet(p)
    BY <1>1, <1>2, <2>2 DEF Quiet, Installing
  <2>5. PlaceOf(p)'
    <3>1. UseFits("idle", "run")
      BY DEF UseFits, Publishing, Installing
    <3> QED
      BY <1>1, <1>2, <2>2, <2>3, <3>1, FreePlace DEF Holding
  <2>6. EntryOf(p)'
    BY <2>2 DEF EntryOf, Carrying, Publishing, Installing
  <2> QED
    BY <1>5, <1>6, <2>1, <2>3, <2>4, <2>5, <2>6, QuietStep
<1>11. CASE MirrorBlobs(p)
  <2>1. /\ pc[p] = "mirror" /\ blobs' = blobs \cup {job[p].art}
        /\ Goto(p, "mirror2") /\ job' = job /\ entryLock' = entryLock
        /\ UNCHANGED <<manifest, artifact, remote, parts>>
    BY <1>11 DEF MirrorBlobs, locks
  <2>2. Shape(p) /\ pc'[p] = "mirror2" /\ SameJob(job'[p], job[p])
    BY <2>1, MovedOnly DEF IInv, Pcs, SameJob
  <2>3. UseFits("mirror2", job[p].use)
    BY <1>2, <2>1 DEF UseFits, Publishing, Installing
  <2>4. Quiet(p) /\ OthersLocks(p) /\ PlaceOf(p)' /\ EntryOf(p)'
    BY <1>4, <2>1, <2>2, <2>3 DEF Publishing, Carrying
  <2>5. /\ manifest' \in [Key -> RunOrNone] /\ artifact' \in [Key -> RunOrNone]
        /\ remote' \in [Key -> RunOrNone] /\ blobs \subseteq blobs' /\ blobs' \subseteq Run
    BY <1>3, <2>1 DEF IInv, StoreTypes, Carrying
  <2>6. \A l \in Key : KeyEntry(l)'
    BY <1>1, <2>1 DEF IInv, KeyEntry, Whole, Run
  <2> QED
    BY <1>5, <2>1, <2>4, <2>5, <2>6, QuietStep
<1>12. CASE MirrorResult(p)
  <2>1. /\ pc[p] = "mirror2" /\ remote' = [remote EXCEPT ![k] = job[p].art]
        /\ Goto(p, "unlock") /\ job' = job /\ entryLock' = entryLock
        /\ UNCHANGED <<manifest, artifact, blobs, parts>>
    BY <1>12 DEF MirrorResult, locks
  <2>2. Shape(p) /\ pc'[p] = "unlock" /\ SameJob(job'[p], job[p])
    BY <2>1, MovedOnly DEF IInv, Pcs, SameJob
  <2>3. UseFits("unlock", job[p].use)
    BY <1>2, <2>1 DEF UseFits, Publishing, Installing
  <2>4. Quiet(p) /\ OthersLocks(p) /\ PlaceOf(p)' /\ EntryOf(p)'
    BY <1>4, <2>1, <2>2, <2>3 DEF Publishing, Carrying, Installing
  <2>5. /\ Whole(job[p].art, k) /\ job[p].art \in RunOrNone /\ job[p].art \in blobs
    BY <1>3, <2>1 DEF Carrying, IInv, EntryOf
  <2>6. /\ manifest' \in [Key -> RunOrNone] /\ artifact' \in [Key -> RunOrNone]
        /\ remote' \in [Key -> RunOrNone] /\ blobs \subseteq blobs' /\ blobs' \subseteq Run
        /\ \A l \in Key : remote'[l] = IF l = k THEN job[p].art ELSE remote[l]
    BY <1>2, <2>1, <2>5 DEF IInv, StoreTypes
  <2>7. \A l \in Key : KeyEntry(l)'
    BY <1>1, <2>1, <2>5, <2>6 DEF IInv, KeyEntry, Whole, Run
  <2> QED
    BY <1>5, <2>1, <2>4, <2>6, <2>7, QuietStep
<1>13. CASE MirrorFails(p)
  <2>1. /\ pc[p] \in {"mirror", "mirror2"} /\ Goto(p, "unlock") /\ job' = job
        /\ entryLock' = entryLock /\ UNCHANGED <<manifest, artifact, remote, blobs, parts>>
    BY <1>13 DEF MirrorFails, locks, disk
  <2>2. Shape(p) /\ pc'[p] = "unlock" /\ SameJob(job'[p], job[p])
    BY <2>1, MovedOnly DEF IInv, Pcs, SameJob
  <2>3. UseFits("unlock", job[p].use)
    BY <1>2, <2>1 DEF UseFits, Publishing, Installing
  <2>4. Quiet(p) /\ OthersLocks(p) /\ PlaceOf(p)' /\ EntryOf(p)'
    BY <1>4, <2>1, <2>2, <2>3 DEF Publishing, Carrying, Installing
  <2> QED
    BY <1>5, <1>6, <2>1, <2>4, QuietStep
<1>14. ASSUME NEW over \in SUBSET Key, StoreEnds(p, over) PROVE IInv'
  <2> DEFINE j == [job[p] EXCEPT !.man = None, !.art = None, !.left = over]
  <2>1. /\ pc[p] = "unlock" /\ Unlock(p) /\ Goto(p, "sweep") /\ Set(p, j)
        /\ UNCHANGED <<manifest, artifact, remote, blobs, parts>>
    BY <1>14 DEF StoreEnds, disk
  <2>2. j \in JobRec /\ j.key = k /\ j.use = "store"
    BY <1>2, <2>1 DEF JobRec, UseFits
  <2> HIDE DEF j
  <2>3. Shape(p) /\ pc'[p] = "sweep" /\ job'[p] = j
    BY <2>1, <2>2, Moved DEF IInv, Pcs
  <2>4. OthersLocks(p) /\ \A l \in Key : entryLock'[l] # p
    BY <1>2, <2>1, UnlockEffect
  <2>5. Quiet(p)
    BY <1>1, <1>2, <2>3 DEF Quiet, Installing
  <2>6. PlaceOf(p)'
    <3>1. UseFits("sweep", "store")
      BY DEF UseFits, Publishing, Installing
    <3> QED
      BY <1>1, <1>2, <2>2, <2>3, <2>4, <3>1, FreePlace DEF Holding
  <2>7. EntryOf(p)'
    BY <2>3 DEF EntryOf, Carrying, Publishing, Installing
  <2> QED
    BY <1>5, <1>6, <2>1, <2>4, <2>5, <2>6, <2>7, QuietStep
<1> QED
  BY <1>7, <1>8, <1>9, <1>10, <1>11, <1>12, <1>13, <1>14

(* Removing entries, for the limits or for a clear.                        *)
LEMMA SweepSteps ==
    ASSUME IInv, NEW p \in Proc,
           (\E k \in Key : Sweep(p, k) \/ SweepManifest(p, k)) \/ SweepEnds(p)
    PROVE  IInv'
PROOF
<1>1. pc[p] \in {"sweep", "sweep2"}
  BY DEF Sweep, SweepManifest, SweepEnds
<1>2. /\ job[p] \in JobRec /\ PlaceOf(p) /\ outLock # p /\ pc[p] \notin Installing
      /\ job[p].use \in {"store", "clear"} /\ (job[p].use = "store" => job[p].key \in Key)
      /\ raw => job[p].use = "clear"
  BY <1>1 DEF IInv, ProcTypes, PlaceOf, UseFits, Installing, RawWrites, RawOf
<1>3. ASSUME NEW k \in Key, Sweep(p, k) PROVE IInv'
  <2> DEFINE j == [job[p] EXCEPT !.left = @ \ {k}]
  <2>1. /\ pc[p] = "sweep" /\ entryLock[k] = None /\ Set(p, j)
        /\ UNCHANGED <<raw, tree, marker, manifest, parts, blobs, remote, outLock, backup,
                       started, content, keyOf, mixed, torn>>
    BY <1>3 DEF Sweep, bounds, history
  <2>2. j \in JobRec /\ j.key = job[p].key /\ j.use = job[p].use
    BY <1>2 DEF JobRec
  <2> HIDE DEF j
  <2>3. \A l \in Key : entryLock[l] # p
    BY <1>2, <2>1 DEF PlaceOf, Holding
  <2>4. OthersParts(p)
    BY <2>1 DEF OthersParts, IInv, PlaceOf, StoreTypes
  <2>5. UseFits("sweep", job[p].use) /\ UseFits("sweep2", job[p].use)
    BY <1>2 DEF UseFits, Publishing, Installing
  <2>6. CASE UNCHANGED <<artifact, entryLock, pc>>
    <3>1. Shape(p) /\ pc'[p] = "sweep" /\ job'[p] = j
      BY <2>1, <2>2, <2>6, SetOnly DEF IInv
    <3>2. Quiet(p)
      BY <1>2, <2>1, <2>2, <3>1 DEF Quiet, Installing, RawPcs, RawOf
    <3>3. PlaceOf(p)'
      BY <1>2, <2>1, <2>2, <2>3, <2>5, <2>6, <3>1, FreePlace DEF Holding
    <3>4. EntryOf(p)'
      BY <3>1 DEF EntryOf, Carrying, Publishing, Installing
    <3> QED
      BY <2>1, <2>6, <3>2, <3>3, <3>4, SameLocks, QuietSameStores DEF disk
  <2>7. CASE /\ artifact' = [artifact EXCEPT ![k] = None]
             /\ entryLock' = [entryLock EXCEPT ![k] = p]
             /\ Goto(p, "sweep2")
    <3>1. Shape(p) /\ pc'[p] = "sweep2" /\ job'[p] = j
      BY <2>1, <2>2, <2>7, Moved DEF IInv, Pcs
    <3>2. Quiet(p)
      BY <1>2, <2>1, <2>2, <3>1 DEF Quiet, Installing, RawPcs, RawOf
    <3>3. OthersLocks(p) /\ \A l \in Key : entryLock'[l] = p <=> l = k
      BY <2>1, <2>3, <2>7, Basics DEF OthersLocks, IInv, StoreTypes
    <3>4. PlaceOf(p)'
      BY <1>2, <2>1, <2>2, <2>5, <3>1, <3>3 DEF PlaceOf, Holding, Installing, Publishing
    <3>5. EntryOf(p)'
      BY <3>1 DEF EntryOf, Carrying, Publishing, Installing
    <3>6. /\ manifest' \in [Key -> RunOrNone] /\ artifact' \in [Key -> RunOrNone]
          /\ remote' \in [Key -> RunOrNone] /\ blobs \subseteq blobs' /\ blobs' \subseteq Run
          /\ \A l \in Key : artifact'[l] = artifact[l] \/ artifact'[l] = None
      BY <2>1, <2>7 DEF IInv, StoreTypes, RunOrNone
    <3>7. \A l \in Key : KeyEntry(l)'
      BY <2>1, <3>6 DEF IInv, KeyEntry, Whole, Run
    <3> QED
      BY <2>4, <3>2, <3>3, <3>4, <3>5, <3>6, <3>7, QuietStep
  <2> QED
    BY <1>3, <2>6, <2>7 DEF Sweep
<1>4. ASSUME NEW k \in Key, SweepManifest(p, k) PROVE IInv'
  <2>1. /\ pc[p] = "sweep2" /\ entryLock[k] = p /\ manifest' = [manifest EXCEPT ![k] = None]
        /\ entryLock' = [entryLock EXCEPT ![k] = None] /\ Goto(p, "sweep") /\ job' = job
        /\ UNCHANGED <<raw, tree, marker, artifact, parts, blobs, remote, outLock, backup,
                       started, content, keyOf, mixed, torn>>
    BY <1>4 DEF SweepManifest, bounds, history
  <2>2. Shape(p) /\ pc'[p] = "sweep" /\ job'[p] = job[p]
    BY <2>1, MovedOnly DEF IInv, Pcs
  <2>3. Quiet(p)
    BY <1>2, <2>1, <2>2 DEF Quiet, Installing, RawPcs, RawOf
  <2>4. OthersLocks(p) /\ \A l \in Key : entryLock'[l] # p
    BY <1>2, <2>1, Basics DEF OthersLocks, IInv, StoreTypes, PlaceOf
  <2>5. UseFits("sweep", job[p].use)
    BY <1>2 DEF UseFits, Publishing, Installing
  <2>6. PlaceOf(p)'
    BY <1>2, <2>1, <2>2, <2>4, <2>5, FreePlace DEF Holding
  <2>7. EntryOf(p)'
    BY <2>2 DEF EntryOf, Carrying, Publishing, Installing
  <2>8. OthersParts(p)
    BY <2>1 DEF OthersParts, IInv, PlaceOf, StoreTypes
  <2>9. /\ manifest' \in [Key -> RunOrNone] /\ artifact' \in [Key -> RunOrNone]
        /\ remote' \in [Key -> RunOrNone] /\ blobs \subseteq blobs' /\ blobs' \subseteq Run
        /\ \A l \in Key : manifest'[l] = manifest[l] \/ manifest'[l] = None
    BY <2>1 DEF IInv, StoreTypes, RunOrNone
  <2>10. \A l \in Key : KeyEntry(l)'
    BY <2>1, <2>9 DEF IInv, KeyEntry, Whole, Run
  <2> QED
    BY <2>3, <2>4, <2>6, <2>7, <2>8, <2>9, <2>10, QuietStep
<1>5. CASE SweepEnds(p)
  <2>1. /\ pc[p] = "sweep" /\ pc[p] # "idle" /\ pc[p] \notin Holding \cup {"sweep2"}
        /\ UNCHANGED <<raw, tree, outLock, backup, content, keyOf, mixed, torn, started, disk,
                       entryLock>>
    BY <1>5 DEF SweepEnds, Holding, locks, bounds, history
  <2>2. CASE job[p].use = "clear"
    <3>1. End(p) /\ marker' = None
      BY <1>5, <2>2 DEF SweepEnds
    <3>2. Shape(p) /\ pc'[p] = "idle" /\ job'[p].use = "run"
      BY <3>1, Ended DEF IInv, NoJob
    <3>3. UseFits("idle", "run") /\ "idle" \notin Holding \cup {"sweep2", "run", "store"}
      BY DEF UseFits, Publishing, Installing, Holding
    <3>4. pc'[p] \in RawPcs \ {"run", "mark"} /\ RawOf(p)'
      BY <3>2 DEF RawPcs, RawOf
    <3> QED
      BY <2>1, <3>1, <3>2, <3>3, <3>4, QuietMove
  <2>3. CASE job[p].use # "clear"
    <3>1. Goto(p, "mark") /\ marker' = marker /\ job' = job /\ ~raw
      BY <1>2, <1>5, <2>3 DEF SweepEnds
    <3>2. Shape(p) /\ pc'[p] = "mark" /\ job'[p] = job[p]
      BY <3>1, MovedOnly DEF IInv, Pcs
    <3>3. UseFits("mark", job[p].use) /\ "mark" \notin Holding \cup {"sweep2", "run", "store"}
      BY <2>3 DEF UseFits, Publishing, Installing, Holding
    <3> QED
      BY <1>2, <2>1, <2>3, <3>1, <3>2, <3>3, QuietMove
  <2> QED
    BY <2>2, <2>3
<1> QED
  BY <1>3, <1>4, <1>5

-----------------------------------------------------------------------------
(* The end of a command, the state saved after it, and the marker.         *)
LEMMA SaveSteps ==
    ASSUME IInv, NEW p \in Proc, CommandFails(p) \/ SaveChecksum(p) \/ MarkCurrent(p)
    PROVE  IInv'
PROOF
<1>1. /\ pc[p] \in {"run", "saved", "mark"}
      /\ UNCHANGED <<raw, tree, outLock, backup, content, keyOf, mixed, torn, started, disk,
                     entryLock>>
  BY DEF CommandFails, SaveChecksum, MarkCurrent, locks, bounds, history
<1>2. /\ pc[p] # "idle" /\ pc[p] \notin Holding \cup {"sweep2"}
      /\ "idle" \notin Holding \cup {"sweep2", "run", "store"}
      /\ "mark" \notin Holding \cup {"sweep2", "run", "store"}
      /\ "store" \notin Holding \cup {"sweep2", "run"}
  BY <1>1 DEF Holding
<1>3. /\ job[p] \in JobRec /\ (\A k \in Key : entryLock[k] # p) /\ outLock # p
      /\ UseFits(pc[p], job[p].use) /\ job[p].use # "clear" /\ job[p].key \in Key
  BY <1>1, <1>2, NoHolder DEF UseFits
<1>4. ASSUME End(p), marker' = marker PROVE IInv'
  <2>1. Shape(p) /\ pc'[p] = "idle" /\ job'[p].use = "run"
    BY <1>4, Ended DEF IInv, NoJob
  <2>2. UseFits("idle", "run")
    BY DEF UseFits, Publishing, Installing
  <2>3. pc'[p] \in RawPcs \ {"run", "mark"} /\ RawOf(p)'
    BY <2>1 DEF RawPcs, RawOf
  <2> QED
    BY <1>1, <1>2, <1>4, <2>1, <2>2, <2>3, QuietMove
<1>5. CASE CommandFails(p)
  BY <1>4, <1>5 DEF CommandFails
<1>6. CASE SaveChecksum(p)
  <2>1. marker' = marker
    BY <1>6 DEF SaveChecksum
  <2>2. CASE ~Writes(job[p].mode)
    BY <1>4, <1>6, <2>1, <2>2 DEF SaveChecksum
  <2>3. CASE Writes(job[p].mode) /\ job[p].use = "run" /\ ~raw
    <3>1. Goto(p, "store") /\ job' = job
      BY <1>6, <2>3 DEF SaveChecksum
    <3>2. Shape(p) /\ pc'[p] = "store" /\ job'[p] = job[p]
      BY <3>1, MovedOnly DEF IInv, Pcs
    <3>3. pc[p] = "run"
      BY <1>3, <1>6, <2>3 DEF SaveChecksum, UseFits
    <3>4. job[p].run \in Run /\ keyOf[job[p].run] = job[p].key
      BY <3>3 DEF IInv, EntryOf
    <3>5. UseFits("store", "run")
      BY DEF UseFits, Publishing, Installing
    <3> QED
      BY <1>1, <1>2, <1>3, <2>1, <2>3, <3>2, <3>4, <3>5, QuietMove
  <2>4. CASE Writes(job[p].mode) /\ (job[p].use # "run" \/ raw)
    <3>1. Goto(p, "mark") /\ job' = job
      BY <1>6, <2>4 DEF SaveChecksum
    <3>2. Shape(p) /\ pc'[p] = "mark" /\ job'[p] = job[p]
      BY <3>1, MovedOnly DEF IInv, Pcs
    <3>3. UseFits("mark", job[p].use)
      BY <1>3 DEF UseFits, Publishing, Installing
    <3>4. CASE ~raw
      BY <1>1, <1>2, <1>3, <2>1, <3>2, <3>3, <3>4, QuietMove
    <3>5. CASE raw
      <4>1. pc[p] = "run" /\ job[p].left = {}
        BY <1>6, <3>5 DEF SaveChecksum, IInv, RawWrites, RawOf, RawPcs
      <4>2. Calm(p)
        BY <1>1, <1>2, <2>1, <3>2, <4>1 DEF Calm, Installing, IInv, TreeTypes
      <4>3. RawWrites'
        <5>1. \A q \in Proc : RawOf(q)'
          BY <3>2, <3>5 DEF IInv, RawWrites, RawOf, Shape, OthersKeep, SameJob, RawPcs
        <5>2. ASSUME ~mixed, NEW q \in Proc PROVE SoleWriter(q)'
          <6>1. SoleWriter(q) /\ SoleWriter(p)
            BY <3>5, <5>2 DEF IInv, RawWrites
          <6>2. /\ job'[q].left = job[q].left /\ job'[q].run = job[q].run /\ job'[q].key = job[q].key
                /\ q # p => pc'[q] = pc[q]
            BY <3>2 DEF Shape, OthersKeep, SameJob
          <6>3. \A x \in Proc : pc'[x] \in {"run", "mark"} <=> pc[x] \in {"run", "mark"}
            BY <3>2, <4>1 DEF Shape, OthersKeep
          <6> QED
            BY <1>1, <2>1, <4>1, <6>1, <6>2, <6>3 DEF SoleWriter, Run
        <5> QED
          BY <1>1, <2>1, <3>5, <5>1, <5>2 DEF IInv, RawWrites
      <4>4. PlaceOf(p)'
        BY <1>1, <1>2, <1>3, <3>2, <3>3, FreePlace
      <4>5. EntryOf(p)'
        BY <3>2 DEF EntryOf, Carrying, Publishing, Installing
      <4> QED
        BY <1>1, <4>2, <4>3, <4>4, <4>5, SameLocks, CalmSameStores
    <3> QED
      BY <3>4, <3>5
  <2> QED
    BY <2>2, <2>3, <2>4
<1>7. CASE MarkCurrent(p)
  <2>1. pc[p] = "mark" /\ marker' = job[p].key /\ End(p)
    BY <1>7 DEF MarkCurrent
  <2>2. Shape(p) /\ pc'[p] = "idle" /\ job'[p].use = "run"
    BY <2>1, Ended DEF IInv, NoJob
  <2>3. UseFits("idle", "run")
    BY DEF UseFits, Publishing, Installing
  <2>4. Calm(p)
    BY <1>1, <1>2, <1>3, <2>1, <2>2 DEF Calm, Installing
  <2>5. RawWrites'
    <3> SUFFICES ASSUME raw PROVE RawWrites'
      BY <1>1 DEF RawWrites
    <3>1. \A q \in Proc : RawOf(q)'
      BY <2>2 DEF IInv, RawWrites, RawOf, Shape, OthersKeep, SameJob, RawPcs
    <3>2. ASSUME ~mixed
          PROVE  /\ \A q \in Proc : SoleWriter(q)'
                 /\ \A r \in Root : tree[r] # None /\ keyOf[tree[r]] = job[p].key
      <4>1. /\ \A q \in Proc \ {p} : pc[q] \notin {"run", "mark"}
            /\ \A r \in Root : tree[r] \in Run /\ keyOf[tree[r]] = job[p].key
        BY <2>1, <3>2 DEF IInv, RawWrites, SoleWriter
      <4>2. \A q \in Proc : pc'[q] \notin {"run", "mark"}
        BY <2>2, <4>1 DEF Shape, OthersKeep
      <4> QED
        BY <4>1, <4>2, RunsAreNumbers DEF SoleWriter, IInv
    <3> QED
      BY <1>1, <2>1, <3>1, <3>2 DEF RawWrites
  <2>6. PlaceOf(p)'
    BY <1>1, <1>2, <1>3, <2>2, <2>3, FreePlace
  <2>7. EntryOf(p)'
    BY <2>2 DEF EntryOf, Carrying, Publishing, Installing
  <2> QED
    BY <1>1, <2>4, <2>5, <2>6, <2>7, SameLocks, CalmSameStores
<1> QED
  BY <1>5, <1>6, <1>7

(* A run begins: a new number, and for a raw task the marker goes.         *)
LEMMA ExecStep ==
    ASSUME IInv, NEW p \in Proc, Exec(p)
    PROVE  IInv'
PROOF
<1> DEFINE n == Len(keyOf) + 1
           j == [job[p] EXCEPT !.use = "run", !.run = n, !.left = Root]
           clears == raw /\ job[p].mode # "off"
           overlap == \E q \in Proc \ {p} : Active(q)
<1>1. /\ pc[p] = "exec" /\ marker' = (IF clears THEN None ELSE marker)
      /\ mixed' = (overlap \/ ~clears)
      /\ keyOf' = Append(keyOf, job[p].key) /\ content' = Append(content, Absent)
      /\ Goto(p, "run") /\ Set(p, j)
      /\ UNCHANGED <<raw, tree, manifest, artifact, parts, blobs, remote, entryLock, outLock,
                     backup, started, torn>>
  BY DEF Exec, NextRun, disk, locks, bounds
<1>2. /\ job[p] \in JobRec /\ (\A k \in Key : entryLock[k] # p) /\ outLock # p
      /\ job[p].use # "clear" /\ job[p].key \in Key /\ pc[p] \notin Installing
  BY <1>1, NoHolder DEF UseFits, Holding
<1>3. TreeTypes /\ n \in Nat /\ Run = 1..Len(keyOf) /\ Len(keyOf) \in Nat
  BY DEF IInv, TreeTypes, Run
<1>4. /\ j \in JobRec /\ j.key = job[p].key /\ j.use = "run" /\ j.run = n /\ j.left = Root
  BY <1>2, <1>3 DEF JobRec, Uses
<1> HIDE DEF j
<1>5. Shape(p) /\ pc'[p] = "run" /\ job'[p] = j
  BY <1>1, <1>4, Moved DEF IInv, Pcs
<1>6. /\ Run' = Run \cup {n} /\ n \notin Run /\ n \in Run'
      /\ keyOf' \in Seq(Key) /\ keyOf'[n] = job[p].key
      /\ \A m \in Run : keyOf'[m] = keyOf[m]
  BY <1>1, <1>2, <1>3 DEF Run, TreeTypes
<1>7. /\ Len(content') = Len(keyOf') /\ content' \in Seq([Root -> RunOrNone'])
      /\ \A m \in Run : content'[m] = content[m]
  <2>1. content \in Seq([Root -> RunOrNone']) /\ Absent \in [Root -> RunOrNone']
    <3>1. RunOrNone \subseteq RunOrNone' /\ None \in RunOrNone'
      BY <1>6 DEF RunOrNone
    <3>2. [Root -> RunOrNone] \subseteq [Root -> RunOrNone']
      BY <3>1
    <3>3. Absent \in [Root -> RunOrNone']
      BY <3>1 DEF Absent
    <3>4. content \in Seq([Root -> RunOrNone'])
      <4>1. \A i \in 1..Len(content) : content[i] \in [Root -> RunOrNone']
        BY <1>3, <3>2 DEF TreeTypes
      <4>2. content \in Seq([Root -> RunOrNone]) /\ DOMAIN content = 1..Len(content)
            /\ Len(content) \in Nat
        BY <1>3 DEF TreeTypes
      <4> HIDE DEF TreeTypes
      <4>3. content = [i \in 1..Len(content) |-> content[i]]
        BY <4>2
      <4>4. content \in [1..Len(content) -> [Root -> RunOrNone']]
        BY <4>1, <4>3
      <4> QED
        BY <4>2, <4>4
    <3> QED
      BY <3>3, <3>4
  <2>2. Len(content) = Len(keyOf)
    BY <1>3 DEF TreeTypes
  <2> QED
    BY <1>1, <1>3, <2>1, <2>2 DEF TreeTypes
<1>8. RunsKept
  BY <1>6, <1>7 DEF RunsKept
<1>9. TreeTypes'
  <2>1. RunOrNone \subseteq RunOrNone'
    BY <1>6 DEF RunOrNone
  <2>2. marker' \in Key \cup {None} /\ mixed' \in BOOLEAN
    BY <1>1, <1>3 DEF TreeTypes
  <2>3. tree' \in [Root -> RunOrNone'] /\ backup' \in [Proc -> [Root -> RunOrNone']]
    BY <1>1, <1>3, <2>1 DEF TreeTypes
  <2> QED
    BY <1>1, <1>3, <1>6, <1>7, <2>2, <2>3 DEF TreeTypes
<1>10. StoreTypes'
  <2>1. RunOrNone \subseteq RunOrNone' /\ Run \subseteq Run'
    BY <1>6 DEF RunOrNone
  <2> QED
    BY <1>1, <2>1 DEF IInv, StoreTypes
<1>11. ProcTypes'
  BY <1>1, <1>5 DEF IInv, ProcTypes, Shape, OthersKeep
<1>12. \A q \in Proc : PlaceOf(q)'
  <2>1. OthersLocks(p) /\ OthersParts(p)
    BY <1>1, SameLocks DEF OthersParts, IInv, PlaceOf, StoreTypes
  <2>2. \A q \in Proc \ {p} : PlaceOf(q)'
    BY <1>1, <1>5, <2>1, OthersPlaces DEF IInv, Shape
  <2>3. UseFits("run", "run") /\ "run" \notin Holding \cup {"sweep2"}
    BY DEF UseFits, Publishing, Installing, Holding
  <2>4. PlaceOf(p)'
    BY <1>1, <1>2, <1>4, <1>5, <2>3, FreePlace
  <2> QED
    BY <2>2, <2>4
<1>13. \A k \in Key : KeyEntry(k)'
  <2>1. \A m, k : Whole(m, k) => Whole(m, k)'
    BY <1>8 DEF RunsKept, Whole
  <2> QED
    BY <1>1, <2>1 DEF IInv, KeyEntry
<1>14. \A q \in Proc : EntryOf(q)'
  <2>1. \A q \in Proc \ {p} : EntryOf(q)'
    BY <1>1, <1>5, <1>8, OthersEntries DEF IInv, Shape
  <2>2. EntryOf(p)'
    <3>1. job'[p].run = n /\ job'[p].key = job[p].key /\ pc'[p] = "run"
      BY <1>4, <1>5
    <3> QED
      BY <1>6, <3>1 DEF EntryOf, Carrying, Publishing, Installing
  <2> QED
    BY <2>1, <2>2
<1>15. \A t : OneArtifact(t) => OneArtifact(t)'
  BY <1>6, <1>7 DEF OneArtifact, Absent
<1>16. ASSUME NEW q \in Proc PROVE InstallOf(q)'
  <2>1. CASE q = p
    BY <1>1, <1>2, <1>5, <2>1 DEF IInv, InstallOf, Installing
  <2>2. CASE q # p
    <3>1. /\ InstallOf(q) /\ pc'[q] = pc[q] /\ job'[q].left = job[q].left
          /\ job'[q].clean = job[q].clean /\ job'[q].art = job[q].art
      BY <1>5, <2>2 DEF IInv, Shape, OthersKeep, SameJob
    <3>2. PICK b : b = Before(q) /\ b = Before(q)'
      BY <1>1, <3>1 DEF Before
    <3>3. pc[q] = "install" => job[q].art \in Run
      BY DEF IInv, EntryOf, Carrying, Installing, Whole
    <3>4. OneArtifact(Before(q)) => OneArtifact(Before(q))'
      BY <1>15, <3>2
    <3>5. pc[q] = "install" => content'[job'[q].art] = content[job[q].art]
      BY <1>7, <3>1, <3>3
    <3> QED
      BY <1>1, <3>1, <3>4, <3>5 DEF InstallOf
  <2> QED
    BY <2>1, <2>2
<1>17. IdleTree'
  BY <1>1, <1>6, <1>7 DEF IInv, IdleTree, OneArtifact, Absent
<1>18. RawWrites'
  <2> SUFFICES ASSUME raw PROVE RawWrites'
    BY <1>1 DEF RawWrites
  <2>1. \A q \in Proc : RawOf(q)'
    BY <1>5 DEF IInv, RawWrites, RawOf, Shape, OthersKeep, SameJob, RawPcs
  <2>2. ASSUME ~mixed' PROVE marker' = None /\ \A q \in Proc : SoleWriter(q)'
    <3>1. marker' = None /\ ~overlap
      BY <1>1, <2>2
    <3>2. \A q \in Proc \ {p} : pc[q] \notin {"run", "mark"}
      BY <3>1 DEF Active, IInv, PlaceOf, UseFits
    <3>3. \A q \in Proc \ {p} : pc'[q] \notin {"run", "mark"}
      BY <1>5, <3>2 DEF Shape, OthersKeep
    <3>4. SoleWriter(p)'
      BY <1>4, <1>5, <3>1, <3>3 DEF SoleWriter
    <3> QED
      BY <3>1, <3>3, <3>4 DEF SoleWriter
  <2> QED
    BY <2>1, <2>2 DEF RawWrites
<1> QED
  BY <1>9, <1>10, <1>11, <1>12, <1>13, <1>14, <1>16, <1>17, <1>18 DEF IInv

(* The command writes one of its outputs, under whatever restore goes on.  *)
LEMMA WriteStep ==
    ASSUME IInv, NEW p \in Proc, NEW r \in Root, WriteRoot(p, r)
    PROVE  IInv'
PROOF
<1>1. /\ pc[p] = "run" /\ r \in job[p].left /\ tree' = [tree EXCEPT ![r] = job[p].run]
      /\ job' = [q \in Proc |-> [job[q] EXCEPT !.clean = FALSE,
                                   !.left = IF q = p THEN @ \ {r} ELSE @]]
      /\ torn' = TRUE
      /\ UNCHANGED <<raw, marker, manifest, artifact, parts, blobs, remote, entryLock, outLock, pc,
                     backup, started, content, keyOf, mixed>>
  BY DEF WriteRoot, disk, locks, bounds
<1>2. ASSUME NEW q \in Proc
      PROVE  /\ job'[q] \in JobRec /\ job'[q].key = job[q].key /\ job'[q].use = job[q].use
             /\ job'[q].man = job[q].man /\ job'[q].art = job[q].art /\ job'[q].run = job[q].run
             /\ job'[q].left = (IF q = p THEN job[q].left \ {r} ELSE job[q].left)
             /\ job'[q].clean = FALSE
  <2>1. job[q] \in JobRec
    BY DEF IInv, ProcTypes
  <2>2. job'[q] = [job[q] EXCEPT !.clean = FALSE, !.left = IF q = p THEN @ \ {r} ELSE @]
    BY <1>1
  <2> QED
    BY <2>1, <2>2 DEF JobRec
<1>3. job' \in [Proc -> JobRec]
  BY <1>1, <1>2
<1>4. job[p].run \in Run /\ keyOf[job[p].run] = job[p].key /\ Run' = Run
  BY <1>1 DEF IInv, EntryOf, Run
<1>5. ProcTypes'
  BY <1>1, <1>3 DEF IInv, ProcTypes
<1>6. StoreTypes' /\ TreeTypes'
  <2>1. tree' \in [Root -> RunOrNone]
    BY <1>1, <1>4 DEF IInv, TreeTypes, RunOrNone
  <2> QED
    BY <1>1, <1>4, <2>1 DEF IInv, StoreTypes, TreeTypes, RunOrNone
<1>7. ASSUME NEW q \in Proc PROVE PlaceOf(q)'
  <2>1. PlaceOf(q) /\ job'[q].key = job[q].key /\ job'[q].use = job[q].use
    BY <1>2 DEF IInv
  <2>2. UNCHANGED <<pc, entryLock, outLock, parts>>
    BY <1>1
  <2> QED
    BY <2>1, <2>2 DEF PlaceOf
<1>8. \A k \in Key : KeyEntry(k)'
  <2>1. UNCHANGED <<manifest, artifact, remote, blobs, content, keyOf>>
    BY <1>1
  <2>2. \A k \in Key : KeyEntry(k)
    BY DEF IInv
  <2> QED
    BY <2>1, <2>2 DEF KeyEntry, Whole, Run
<1>9. ASSUME NEW q \in Proc PROVE EntryOf(q)'
  <2>1. /\ EntryOf(q) /\ job'[q].key = job[q].key /\ job'[q].man = job[q].man
        /\ job'[q].art = job[q].art /\ job'[q].run = job[q].run
    BY <1>2 DEF IInv
  <2>2. UNCHANGED <<pc, blobs, content, keyOf>>
    BY <1>1
  <2> QED
    BY <2>1, <2>2 DEF EntryOf, Whole, Run
<1>10. \A q \in Proc : InstallOf(q)'
  <2> SUFFICES ASSUME NEW q \in Proc PROVE InstallOf(q)'
    OBVIOUS
  <2>1. pc[q] \in Installing => job'[q].left = job[q].left
    BY <1>1, <1>2 DEF Installing
  <2>2. InstallOf(q) /\ torn' /\ UNCHANGED <<pc, backup>> /\ ~job'[q].clean
    BY <1>1, <1>2 DEF IInv
  <2> QED
    BY <2>1, <2>2 DEF InstallOf, Installing
<1>11. IdleTree'
  BY <1>1 DEF IdleTree
<1>12. RawWrites'
  <2> SUFFICES ASSUME raw PROVE RawWrites'
    BY <1>1 DEF RawWrites
  <2>1. \A q \in Proc : RawOf(q)'
    BY <1>1, <1>2 DEF IInv, RawWrites, RawOf
  <2>2. ASSUME ~mixed PROVE marker = None /\ \A q \in Proc : SoleWriter(q)'
    <3>1. SoleWriter(p)
      BY <2>2 DEF IInv, RawWrites
    <3>2. marker = None /\ \A q \in Proc \ {p} : pc[q] \notin {"run", "mark"}
      BY <1>1, <3>1 DEF SoleWriter
    <3>3. \A x \in Root \ job'[p].left :
             tree'[x] = job[p].run /\ tree'[x] \in Run /\ keyOf[tree'[x]] = job[p].key
      <4>1. tree \in [Root -> RunOrNone]
        BY DEF IInv, TreeTypes
      <4>2. ASSUME NEW x \in Root \ job'[p].left, x # r
            PROVE  tree'[x] = job[p].run /\ tree'[x] \in Run /\ keyOf[tree'[x]] = job[p].key
        <5>1. x \in Root \ job[p].left
          BY <1>2, <4>2
        <5> QED
          BY <1>1, <3>1, <4>1, <4>2, <5>1 DEF SoleWriter
      <4>3. tree'[r] = job[p].run
        BY <1>1, <4>1
      <4> QED
        BY <1>4, <4>2, <4>3
    <3>4. SoleWriter(p)'
      BY <1>1, <1>2, <1>4, <3>2, <3>3 DEF SoleWriter
    <3> QED
      BY <1>1, <3>2, <3>4 DEF SoleWriter
  <2> QED
    BY <1>1, <2>1, <2>2 DEF RawWrites
<1> QED
  BY <1>5, <1>6, <1>7, <1>8, <1>9, <1>10, <1>11, <1>12 DEF IInv

(* store() archives the tree, though a restore may be at work on it.       *)
LEMMA StoreStep ==
    ASSUME IInv, NEW p \in Proc, Store(p)
    PROVE  IInv'
PROOF
<1> DEFINE k == job[p].key
           n == job[p].run
           j == [job[p] EXCEPT !.use = "store", !.man = n, !.art = n]
<1>1. /\ pc[p] = "store"
      /\ UNCHANGED <<raw, tree, marker, manifest, artifact, blobs, remote, outLock, backup,
                     started, keyOf, mixed, torn>>
  BY DEF Store, bounds
<1>2. /\ job[p] \in JobRec /\ (\A l \in Key : entryLock[l] # p) /\ outLock # p /\ ~raw
      /\ k \in Key /\ pc[p] \notin Holding \cup {"sweep2"} /\ pc[p] # "idle"
      /\ pc[p] \notin Installing
  BY <1>1, NoHolder, NotRaw DEF UseFits, Holding, RawPcs
<1>3. n \in Run /\ keyOf[n] = k /\ n \in Nat
  BY <1>1, RunsAreNumbers DEF IInv, EntryOf
<1>4. CASE \E r \in Root : tree[r] = None
  <2>1. End(p) /\ UNCHANGED <<entryLock, parts, content>>
    BY <1>4 DEF Store
  <2>2. Shape(p) /\ pc'[p] = "idle" /\ job'[p].use = "run"
    BY <2>1, Ended DEF IInv, NoJob
  <2>3. UseFits("idle", "run") /\ "idle" \notin Holding \cup {"sweep2", "run", "store"}
    BY DEF UseFits, Publishing, Installing, Holding
  <2> QED
    BY <1>1, <1>2, <2>1, <2>2, <2>3, QuietMove DEF disk
<1>5. CASE \A r \in Root : tree[r] # None
  <2>1. /\ Lock(p) /\ parts' = parts \cup {<<k, p>>} /\ content' = [content EXCEPT ![n] = tree]
        /\ Goto(p, "publish") /\ Set(p, j)
    BY <1>5 DEF Store
  <2>2. j \in JobRec /\ j.key = k /\ j.use = "store" /\ j.man = n /\ j.art = n
    BY <1>2, <1>3 DEF JobRec, Uses
  <2> HIDE DEF j
  <2>3. Shape(p) /\ pc'[p] = "publish" /\ job'[p] = j
    BY <2>1, <2>2, Moved DEF IInv, Pcs
  <2>4. OthersLocks(p) /\ \A l \in Key : entryLock'[l] = p <=> l = k
    BY <1>2, <2>1, LockEffect
  <2>5. OthersParts(p)
    BY <1>2, <2>1 DEF OthersParts, IInv, PlaceOf, StoreTypes
  <2>6. TreeTypes /\ DOMAIN content = Run /\ Run' = Run /\ RunOrNone' = RunOrNone
    BY <1>1, RunsAreNumbers DEF IInv, Run, RunOrNone
  <2>7. /\ content' \in Seq([Root -> RunOrNone]) /\ Len(content') = Len(content)
        /\ \A m \in Run : content'[m] = IF m = n THEN tree ELSE content[m]
    <3>1. content \in Seq([Root -> RunOrNone]) /\ tree \in [Root -> RunOrNone]
          /\ n \in 1..Len(content)
      BY <1>3, <2>6 DEF TreeTypes
    <3> QED
      BY <2>1, <2>6, <3>1
  <2>8. RunsKept
    BY <1>1, <1>5, <2>6, <2>7 DEF RunsKept
  <2>9. TreeTypes'
    BY <1>1, <2>6, <2>7 DEF TreeTypes
  <2>10. StoreTypes'
    BY <1>1, <2>4, <2>5, <2>6 DEF IInv, StoreTypes, OthersLocks, OthersParts
  <2>11. ProcTypes'
    BY <1>1, <1>2, <2>3 DEF IInv, ProcTypes, Shape, OthersKeep
  <2>12. \A q \in Proc : PlaceOf(q)'
    <3>1. \A q \in Proc \ {p} : PlaceOf(q)'
      BY <1>1, <2>3, <2>4, <2>5, OthersPlaces DEF IInv, Shape
    <3>2. UseFits("publish", "store") /\ "publish" \in Holding \ Installing
      BY DEF UseFits, Publishing, Installing, Holding
    <3>3. <<k, p>> \in parts'
      BY <2>1
    <3>4. PlaceOf(p)'
      BY <1>1, <1>2, <2>2, <2>3, <2>4, <3>2, <3>3, HeldPlace
    <3> QED
      BY <3>1, <3>4
  <2>13. \A l \in Key : KeyEntry(l)'
    <3>1. \A m, l : Whole(m, l) => Whole(m, l)'
      BY <2>8 DEF RunsKept, Whole
    <3> QED
      BY <1>1, <3>1 DEF IInv, KeyEntry
  <2>14. \A q \in Proc : EntryOf(q)'
    <3>1. \A q \in Proc \ {p} : EntryOf(q)'
      BY <1>1, <2>3, <2>8, OthersEntries DEF IInv, Shape
    <3>2. job'[p].man = n /\ job'[p].art = n /\ job'[p].key = k /\ pc'[p] = "publish"
      BY <2>2, <2>3
    <3>3. \A r \in Root : content'[n][r] # None
      BY <1>3, <1>5, <2>7
    <3>4. EntryOf(p)'
      BY <1>1, <1>3, <2>6, <3>2, <3>3 DEF EntryOf, Whole
    <3> QED
      BY <3>1, <3>4
  <2>15. ASSUME NEW q \in Proc PROVE InstallOf(q)'
    <3>1. CASE q = p
      BY <1>1, <1>2, <2>3, <3>1 DEF IInv, InstallOf, Installing
    <3>2. CASE q # p
      <4>1. /\ InstallOf(q) /\ pc'[q] = pc[q] /\ job'[q].left = job[q].left
            /\ job'[q].clean = job[q].clean /\ job'[q].art = job[q].art
        BY <2>3, <3>2 DEF IInv, Shape, OthersKeep, SameJob
      <4>2. CASE pc[q] = "install"
        <5>1. job[q].art \in Run /\ job[q].left \subseteq Root
          BY <4>1, <4>2 DEF IInv, EntryOf, Carrying, Installing, Whole, InstallOf
        <5>2. job[q].clean => job[q].left = {} /\ \A r \in Root : tree[r] = content[job[q].art][r]
          BY <1>5, <4>1, <4>2, <5>1 DEF InstallOf
        <5>3. job[q].clean => \A r \in Root : tree[r] = content'[job[q].art][r]
          BY <2>7, <5>1, <5>2
        <5> QED
          BY <1>1, <4>1, <4>2, <5>2, <5>3 DEF InstallOf, Installing
      <4>3. CASE pc[q] = "backup"
        <5>1. ~torn => Before(q)' = tree
          <6> SUFFICES ASSUME ~torn PROVE Before(q)' = tree
            OBVIOUS
          <6>1. job[q].clean /\ job[q].left \subseteq Root
            BY <4>1, <4>3 DEF InstallOf, Installing
          <6>2. job[q].left = Root
            BY <1>5, <4>1, <4>3, <6>1 DEF InstallOf
          <6>3. \A r \in Root : backup[q][r] = None
            BY <4>1, <4>3, <6>2 DEF InstallOf
          <6>4. tree \in [Root -> RunOrNone]
            BY <2>6 DEF TreeTypes
          <6> QED
            BY <1>1, <4>1, <4>3, <6>2, <6>3, <6>4 DEF Before
        <5>2. ~torn => OneArtifact(Before(q))'
          BY <1>3, <2>6, <2>7, <5>1 DEF OneArtifact
        <5> QED
          BY <1>1, <4>1, <4>3, <5>2 DEF InstallOf, Installing
      <4>4. CASE pc[q] \notin Installing
        BY <1>1, <4>1, <4>4 DEF InstallOf, Installing
      <4> QED
        BY <4>2, <4>3, <4>4 DEF Installing
    <3> QED
      BY <3>1, <3>2
  <2>16. IdleTree'
    BY <1>1, <1>3, <2>6, <2>7 DEF IdleTree, OneArtifact
  <2>17. RawWrites'
    BY <1>1, <1>2 DEF RawWrites
  <2> QED
    BY <2>9, <2>10, <2>11, <2>12, <2>13, <2>14, <2>15, <2>16, <2>17 DEF IInv
<1> QED
  BY <1>4, <1>5

-----------------------------------------------------------------------------
(* A step on the directory by the one process that may install there.      *)
LEMMA DirectoryStep ==
    ASSUME IInv, NEW p \in Proc, Shape(p), ~raw, pc[p] # "idle",
           UNCHANGED <<raw, marker, disk, started, content, keyOf, mixed>>,
           OthersLocks(p), \A q \in Proc \ {p} : outLock' = q <=> outLock = q,
           \A q \in Proc \ {p} : pc[q] \notin Installing /\ backup'[q] = backup[q],
           TreeTypes', PlaceOf(p)', EntryOf(p)', InstallOf(p)', IdleTree'
    PROVE  IInv'
PROOF
<1>1. OthersKeep(p)
  BY DEF Shape
<1>2. StoreTypes'
  BY DEF IInv, StoreTypes, OthersLocks, disk, Run, RunOrNone
<1>3. ProcTypes'
  BY <1>1 DEF IInv, ProcTypes, Shape, OthersKeep
<1>4. OthersParts(p) /\ RunsKept /\ blobs \subseteq blobs'
  BY DEF OthersParts, IInv, PlaceOf, StoreTypes, disk, RunsKept, Run
<1>5. \A q \in Proc : PlaceOf(q)'
  BY <1>1, <1>4, OthersPlaces DEF IInv
<1>6. \A q \in Proc : EntryOf(q)'
  BY <1>1, <1>4, OthersEntries DEF IInv
<1>7. \A k \in Key : KeyEntry(k)'
  BY DEF IInv, KeyEntry, Whole, Run, disk
<1>8. ASSUME NEW q \in Proc PROVE InstallOf(q)'
  <2>1. CASE q # p
    <3>1. pc'[q] = pc[q] /\ pc[q] \notin Installing /\ backup'[q] = backup[q] /\ InstallOf(q)
      BY <1>1, <2>1 DEF OthersKeep, IInv
    <3> QED
      BY <3>1 DEF InstallOf, Installing
  <2> QED
    BY <2>1
<1>9. RawWrites'
  BY DEF RawWrites
<1> QED
  BY <1>2, <1>3, <1>5, <1>6, <1>7, <1>8, <1>9 DEF IInv

(* Only the holder of the output lock installs.                            *)
LEMMA SoleInstaller ==
    ASSUME IInv, NEW p \in Proc, outLock = p \/ outLock = None
    PROVE  \A q \in Proc \ {p} : pc[q] \notin Installing
PROOF
<1> SUFFICES ASSUME NEW q \in Proc \ {p} PROVE pc[q] \notin Installing
  OBVIOUS
<1>1. PlaceOf(q)
  BY DEF IInv
<1>2. outLock # q
  BY Basics
<1> QED
  BY <1>1, <1>2 DEF PlaceOf

(* The restore takes the output lock and moves the outputs aside.          *)
LEMMA BackupSteps ==
    ASSUME IInv, NEW p \in Proc, TakeOutputLock(p) \/ \E r \in Root : Backup(p, r)
    PROVE  IInv'
PROOF
<1>1. /\ pc[p] \in {"outlock", "backup"} /\ pc[p] # "idle" /\ pc[p] \in Holding
      /\ UNCHANGED <<raw, marker, disk, started, content, keyOf, mixed, torn, entryLock>>
  BY DEF TakeOutputLock, Backup, Holding, locks, bounds, history
<1>2. /\ job[p] \in JobRec /\ job[p].key \in Key /\ job[p].use = "restore" /\ ~raw
      /\ \A k \in Key : entryLock[k] = p <=> k = job[p].key
      /\ job[p].man = job[p].art /\ Whole(job[p].art, job[p].key)
  BY <1>1, Holder DEF UseFits, Installing, Carrying, IInv, EntryOf
<1>3. OthersLocks(p)
  BY <1>1, SameLocks
<1>4. ASSUME Shape(p), pc'[p] \in Installing, outLock' = p, job'[p].key = job[p].key,
             job'[p].use = job[p].use, job'[p].man = job[p].man, job'[p].art = job[p].art
      PROVE  PlaceOf(p)' /\ EntryOf(p)'
  <2>1. UseFits(pc'[p], "restore") /\ pc'[p] \in Holding /\ pc'[p] \notin Publishing
    BY <1>4 DEF UseFits, Publishing, Installing, Holding
  <2>2. PlaceOf(p)'
    BY <1>1, <1>2, <1>4, <2>1, HeldPlace
  <2>3. EntryOf(p)'
    BY <1>1, <1>2, <1>4 DEF EntryOf, Installing, Whole, Run
  <2> QED
    BY <2>2, <2>3
<1>5. TreeTypes /\ RunOrNone' = RunOrNone /\ Run' = Run /\ None \in RunOrNone
  BY <1>1 DEF IInv, Run, RunOrNone
<1>6. \A t : OneArtifact(t) => OneArtifact(t)'
  BY <1>1, <1>5 DEF OneArtifact, Absent
<1>7. CASE TakeOutputLock(p)
  <2> DEFINE j == [job[p] EXCEPT !.left = Root, !.clean = TRUE]
  <2>1. /\ pc[p] = "outlock" /\ outLock = None /\ outLock' = p /\ Goto(p, "backup") /\ Set(p, j)
        /\ UNCHANGED <<tree, backup>>
    BY <1>7 DEF TakeOutputLock
  <2>2. /\ j \in JobRec /\ j.key = job[p].key /\ j.use = job[p].use /\ j.man = job[p].man
        /\ j.art = job[p].art /\ j.left = Root /\ j.clean = TRUE
    BY <1>2 DEF JobRec
  <2> HIDE DEF j
  <2>3. Shape(p) /\ pc'[p] = "backup" /\ job'[p] = j
    BY <2>1, <2>2, Moved DEF IInv, Pcs
  <2>4. PlaceOf(p)' /\ EntryOf(p)'
    BY <1>4, <2>1, <2>2, <2>3 DEF Installing
  <2>5. TreeTypes'
    BY <1>1, <1>5, <2>1 DEF TreeTypes
  <2>6. backup[p] = Absent /\ tree \in [Root -> RunOrNone]
    BY <1>5, <2>1 DEF IInv, InstallOf, Installing, TreeTypes
  <2>7. Before(p)' = tree
    BY <2>1, <2>2, <2>3, <2>6 DEF Before, Absent
  <2>8. ~torn => OneArtifact(tree)
    BY <2>1 DEF IInv, IdleTree
  <2>9. InstallOf(p)'
    <3>1. ~torn => OneArtifact(Before(p))'
      BY <1>1, <1>5, <2>7, <2>8 DEF OneArtifact, Absent
    <3>2. \A r \in Root : backup'[p][r] = None
      BY <2>1, <2>6 DEF Absent
    <3> QED
      BY <1>1, <2>2, <2>3, <3>1, <3>2, Basics DEF InstallOf, Installing
  <2>10. IdleTree'
    BY <2>1, Basics DEF IdleTree
  <2> QED
    BY <1>1, <1>2, <1>3, <2>1, <2>3, <2>4, <2>5, <2>9, <2>10, SoleInstaller, DirectoryStep, Basics
<1>8. ASSUME NEW r \in Root, Backup(p, r) PROVE IInv'
  <2>1. /\ pc[p] = "backup" /\ First(r, job[p].left)
        /\ backup' = [backup EXCEPT ![p][r] = tree[r]] /\ tree' = [tree EXCEPT ![r] = None]
        /\ outLock' = outLock
    BY <1>8 DEF Backup, locks
  <2>2. outLock = p /\ InstallOf(p) /\ r \in job[p].left /\ job[p].left \subseteq Root
    BY <2>1 DEF IInv, PlaceOf, InstallOf, Installing, First
  <2>3. PICK left \in SUBSET Root :
           /\ Shape(p) /\ job'[p].key = job[p].key /\ job'[p].use = job[p].use
           /\ job'[p].man = job[p].man /\ job'[p].art = job[p].art
           /\ job'[p].clean = job[p].clean /\ job'[p].left = left
           /\ \/ pc'[p] = "install" /\ left = Root /\ job[p].left = {r}
              \/ pc'[p] = "backup" /\ left = job[p].left \ {r} /\ left # {}
    <3>1. CASE job[p].left = {r}
      <4> DEFINE j == [job[p] EXCEPT !.left = Root]
      <4>1. Goto(p, "install") /\ Set(p, j)
        BY <1>8, <3>1 DEF Backup
      <4>2. /\ j \in JobRec /\ j.key = job[p].key /\ j.use = job[p].use /\ j.man = job[p].man
            /\ j.art = job[p].art /\ j.left = Root /\ j.clean = job[p].clean
        BY <1>2 DEF JobRec
      <4> HIDE DEF j
      <4>3. Shape(p) /\ pc'[p] = "install" /\ job'[p] = j
        BY <4>1, <4>2, Moved DEF IInv, Pcs
      <4> QED
        BY <3>1, <4>2, <4>3
    <3>2. CASE job[p].left # {r}
      <4> DEFINE j == [job[p] EXCEPT !.left = @ \ {r}]
      <4>1. Set(p, j) /\ pc' = pc
        BY <1>8, <3>2 DEF Backup
      <4>2. /\ j \in JobRec /\ j.key = job[p].key /\ j.use = job[p].use /\ j.man = job[p].man
            /\ j.art = job[p].art /\ j.left = job[p].left \ {r} /\ j.clean = job[p].clean
        BY <1>2 DEF JobRec
      <4> HIDE DEF j
      <4>3. Shape(p) /\ pc'[p] = "backup" /\ job'[p] = j
        BY <2>1, <4>1, <4>2, SetOnly DEF IInv
      <4>4. job[p].left \ {r} # {} /\ job[p].left \ {r} \in SUBSET Root
        BY <2>2, <3>2
      <4> QED
        BY <4>2, <4>3, <4>4
    <3> QED
      BY <3>1, <3>2
  <2>4. PlaceOf(p)' /\ EntryOf(p)'
    BY <1>4, <2>1, <2>2, <2>3 DEF Installing
  <2>5. tree \in [Root -> RunOrNone] /\ backup \in [Proc -> [Root -> RunOrNone]]
    BY <1>5 DEF TreeTypes
  <2>6. /\ backup' \in [Proc -> [Root -> RunOrNone]] /\ tree' \in [Root -> RunOrNone]
        /\ \A q \in Proc \ {p} : backup'[q] = backup[q]
        /\ \A x \in Root : backup'[p][x] = IF x = r THEN tree[r] ELSE backup[p][x]
        /\ \A x \in Root : tree'[x] = IF x = r THEN None ELSE tree[x]
    BY <1>5, <2>1, <2>5
  <2>7. TreeTypes'
    BY <1>1, <1>5, <2>1, <2>6 DEF TreeTypes
  <2>8. Before(p)' = Before(p)
    <3>1. ASSUME NEW x \in Root PROVE Before(p)'[x] = Before(p)[x]
      <4>1. Before(p)[x] = IF backup[p][x] # None THEN backup[p][x]
                           ELSE IF x \in job[p].left THEN tree[x] ELSE None
        BY <2>1 DEF Before
      <4>2. Before(p)'[x] = IF backup'[p][x] # None THEN backup'[p][x]
                            ELSE IF pc'[p] = "backup" /\ x \in job'[p].left THEN tree'[x] ELSE None
        BY DEF Before
      <4>3. CASE x = r
        BY <2>1, <2>2, <2>3, <2>6, <4>1, <4>2, <4>3 DEF InstallOf
      <4>4. CASE x # r
        BY <2>2, <2>3, <2>6, <4>1, <4>2, <4>4
      <4> QED
        BY <4>3, <4>4
    <3> QED
      BY <3>1 DEF Before
  <2>9. InstallOf(p)'
    <3>1. ~torn => OneArtifact(Before(p))
      BY <2>1, <2>2 DEF InstallOf, Installing
    <3>2. ~torn => OneArtifact(Before(p))'
      BY <1>1, <1>5, <2>8, <3>1 DEF OneArtifact, Absent
    <3>3. pc'[p] = "backup" => left # {} /\ \A x \in left : backup'[p][x] = None
      BY <2>1, <2>2, <2>3, <2>6 DEF InstallOf
    <3>4. job[p].clean => \A x \in Root \ job[p].left : tree[x] = None
      BY <2>1, <2>2 DEF InstallOf
    <3>5. pc'[p] = "backup" /\ job[p].clean => \A x \in Root \ left : tree'[x] = None
      BY <2>3, <2>6, <3>4
    <3>6. pc'[p] = "install" /\ job[p].clean => left = Root /\ \A x \in Root : tree'[x] = None
      BY <2>3, <2>6, <3>4
    <3>7. ~job[p].clean => torn
      BY <2>1, <2>2 DEF InstallOf, Installing
    <3> QED
      BY <1>1, <2>3, <3>2, <3>3, <3>5, <3>6, <3>7 DEF InstallOf, Installing
  <2>10. IdleTree'
    BY <2>1, <2>2, Basics DEF IdleTree
  <2> QED
    BY <1>1, <1>2, <1>3, <2>1, <2>2, <2>3, <2>4, <2>6, <2>7, <2>9, <2>10, SoleInstaller,
       DirectoryStep
<1> QED
  BY <1>7, <1>8

(* The outputs are put in place, and the restore ends.                     *)
LEMMA InstallSteps ==
    ASSUME IInv, NEW p \in Proc, (\E r \in Root : InstallRoot(p, r)) \/ Hit(p)
    PROVE  IInv'
PROOF
<1>1. /\ pc[p] = "install" /\ pc[p] \in Holding /\ pc[p] \in Installing
      /\ UNCHANGED <<raw, marker, disk, started, content, keyOf, mixed>>
  BY DEF InstallRoot, Hit, Holding, Installing, locks, bounds, history
<1>2. /\ job[p] \in JobRec /\ job[p].key \in Key /\ job[p].use = "restore" /\ ~raw
      /\ \A k \in Key : entryLock[k] = p <=> k = job[p].key
      /\ job[p].man = job[p].art /\ Whole(job[p].art, job[p].key)
      /\ outLock = p /\ pc[p] # "idle"
  BY <1>1, Holder DEF UseFits, Installing, Carrying, IInv, EntryOf
<1>3. TreeTypes /\ RunOrNone' = RunOrNone /\ Run' = Run /\ None \in RunOrNone
      /\ InstallOf(p) /\ job[p].left \subseteq Root /\ tree \in [Root -> RunOrNone]
      /\ backup \in [Proc -> [Root -> RunOrNone]]
  BY <1>1 DEF IInv, Run, RunOrNone, InstallOf, TreeTypes
<1>4. content[job[p].art] \in [Root -> RunOrNone] /\ job[p].art \in Run
  BY <1>2, <1>3, RunsAreNumbers DEF TreeTypes, Whole
<1>5. \A q \in Proc \ {p} : pc[q] \notin Installing
  BY <1>2, SoleInstaller
<1>6. ASSUME NEW r \in Root, InstallRoot(p, r) PROVE IInv'
  <2> DEFINE j == [job[p] EXCEPT !.left = @ \ {r}]
  <2>1. /\ r \in job[p].left /\ Set(p, j) /\ tree' = [tree EXCEPT ![r] = content[job[p].art][r]]
        /\ UNCHANGED <<pc, backup, entryLock, outLock, torn>>
    BY <1>6 DEF InstallRoot, First, locks, history
  <2>2. /\ j \in JobRec /\ j.key = job[p].key /\ j.use = job[p].use /\ j.man = job[p].man
        /\ j.art = job[p].art /\ j.left = job[p].left \ {r} /\ j.clean = job[p].clean
    BY <1>2 DEF JobRec
  <2> HIDE DEF j
  <2>3. Shape(p) /\ pc'[p] = "install" /\ job'[p] = j
    BY <1>1, <2>1, <2>2, SetOnly DEF IInv
  <2>4. OthersLocks(p)
    BY <2>1, SameLocks
  <2>5. PlaceOf(p)'
    <3>1. UseFits("install", "restore") /\ "install" \notin Publishing
      BY DEF UseFits, Publishing, Installing
    <3> QED
      BY <1>1, <1>2, <2>1, <2>2, <2>3, <3>1, HeldPlace
  <2>6. EntryOf(p)'
    BY <1>1, <1>2, <2>2, <2>3 DEF EntryOf, Whole, Run
  <2>7. tree' \in [Root -> RunOrNone]
        /\ \A x \in Root : tree'[x] = IF x = r THEN content[job[p].art][x] ELSE tree[x]
    BY <1>3, <1>4, <2>1
  <2>8. TreeTypes'
    BY <1>1, <1>3, <2>1, <2>7 DEF TreeTypes
  <2>9. Before(p)' = Before(p)
    <3>1. \A x \in Root : Before(p)'[x] = Before(p)[x]
      BY <1>1, <2>1, <2>3 DEF Before
    <3> QED
      BY <3>1 DEF Before
  <2>10. InstallOf(p)'
    <3>1. ~torn => OneArtifact(Before(p))
      BY <1>1, <1>3, <2>1 DEF InstallOf
    <3>2. ~torn => OneArtifact(Before(p))'
      BY <1>1, <1>3, <2>9, <3>1 DEF OneArtifact, Absent
    <3>3. job[p].clean => \A x \in Root : tree[x] = IF x \in job[p].left THEN None
                                                    ELSE content[job[p].art][x]
      BY <1>1, <1>3 DEF InstallOf
    <3>4. job[p].clean => \A x \in Root : tree'[x] = IF x \in job[p].left \ {r} THEN None
                                                     ELSE content[job[p].art][x]
      BY <2>7, <3>3
    <3>5. ~job[p].clean => torn
      BY <1>1, <1>3 DEF InstallOf
    <3> QED
      BY <1>1, <1>3, <2>1, <2>2, <2>3, <3>2, <3>4, <3>5 DEF InstallOf, Installing
  <2>11. IdleTree'
    BY <1>2, <2>1, Basics DEF IdleTree
  <2> QED
    BY <1>1, <1>2, <1>5, <2>1, <2>3, <2>4, <2>5, <2>6, <2>8, <2>10, <2>11, DirectoryStep
<1>7. CASE Hit(p)
  <2> DEFINE i == [job EXCEPT ![p].man = None, ![p].art = None]
             j == [job[p] EXCEPT !.man = None, !.art = None]
  <2>1. /\ job[p].left = {} /\ backup' = [backup EXCEPT ![p] = Absent] /\ outLock' = None
        /\ Unlock(p) /\ torn' = (torn /\ ~job[p].clean) /\ Goto(p, "saved")
        /\ job' = Touched(job[p].key, i) /\ tree' = tree
    BY <1>7 DEF Hit
  <2>2. j \in JobRec /\ j.key = job[p].key /\ j.use = job[p].use
    BY <1>2 DEF JobRec
  <2>3. i = [job EXCEPT ![p] = j]
    BY <1>2 DEF IInv, ProcTypes
  <2> HIDE DEF i, j
  <2>4. i \in [Proc -> JobRec] /\ i[p] = j /\ \A q \in Proc \ {p} : i[q] = job[q]
    BY <2>2, <2>3 DEF IInv, ProcTypes
  <2>5. Shape(p) /\ pc'[p] = "saved" /\ job'[p].key = job[p].key /\ job'[p].use = "restore"
    <3>1. Shape(p) /\ pc'[p] = "saved" /\ SameJob(job'[p], i[p])
      BY <1>2, <2>1, <2>4, MovedTouch DEF IInv, Pcs
    <3> QED
      BY <1>2, <2>2, <2>4, <3>1 DEF SameJob
  <2>6. OthersLocks(p) /\ \A k \in Key : entryLock'[k] # p
    BY <1>1, <2>1, UnlockEffect
  <2>7. PlaceOf(p)'
    <3>1. UseFits("saved", "restore") /\ "saved" \notin Holding \cup {"sweep2"}
      BY DEF UseFits, Publishing, Installing, Holding
    <3> QED
      BY <1>2, <2>1, <2>5, <2>6, <3>1, FreePlace, Basics
  <2>8. EntryOf(p)'
    BY <2>5 DEF EntryOf, Carrying, Publishing, Installing
  <2>9. /\ backup' \in [Proc -> [Root -> RunOrNone]] /\ backup'[p] = Absent
        /\ \A q \in Proc \ {p} : backup'[q] = backup[q]
    BY <1>3, <2>1 DEF Absent
  <2>10. TreeTypes'
    BY <1>1, <1>3, <2>1, <2>9 DEF TreeTypes
  <2>11. InstallOf(p)'
    BY <2>5, <2>9 DEF InstallOf, Installing, Absent
  <2>12. IdleTree'
    <3>1. job[p].clean => \A x \in Root : tree[x] = content[job[p].art][x]
      BY <1>1, <1>3, <2>1 DEF InstallOf
    <3>2. job[p].clean => tree = content[job[p].art]
      BY <1>3, <1>4, <3>1
    <3>3. ~job[p].clean => torn
      BY <1>1, <1>3 DEF InstallOf
    <3> QED
      BY <1>1, <1>3, <1>4, <2>1, <3>2, <3>3 DEF IdleTree, OneArtifact
  <2> QED
    BY <1>1, <1>2, <1>5, <2>1, <2>5, <2>6, <2>7, <2>8, <2>9, <2>10, <2>11, <2>12, DirectoryStep,
       Basics
<1> QED
  BY <1>6, <1>7

(* An install that fails is rolled back.                                   *)
LEMMA RollbackStep ==
    ASSUME IInv, NEW p \in Proc, NEW stuck \in SUBSET Root, NEW rest \in SUBSET Root,
           RestoreFails(p, stuck, rest)
    PROVE  IInv'
PROOF
<1>1. /\ pc[p] \in Installing /\ pc[p] \in Holding /\ pc[p] # "idle" /\ job[p].left # {}
      /\ UNCHANGED <<raw, marker, disk, started, content, keyOf, mixed, entryLock, job>>
      /\ backup' = [backup EXCEPT ![p] = Absent] /\ outLock' = None
      /\ torn' = (torn \/ stuck # {} \/ rest # {}) /\ Goto(p, "drop")
      /\ Rollback(p, stuck, rest)
  BY DEF RestoreFails, Holding, Installing
<1>2. /\ job[p].key \in Key /\ job[p].use = "restore" /\ ~raw /\ outLock = p
      /\ \A k \in Key : entryLock[k] = p <=> k = job[p].key
  BY <1>1, Holder DEF UseFits, Installing
<1>3. TreeTypes /\ RunOrNone' = RunOrNone /\ Run' = Run /\ None \in RunOrNone
      /\ InstallOf(p) /\ job[p].left \subseteq Root /\ tree \in [Root -> RunOrNone]
      /\ backup \in [Proc -> [Root -> RunOrNone]]
  BY <1>1 DEF IInv, Run, RunOrNone, InstallOf, TreeTypes
<1>4. Shape(p) /\ pc'[p] = "drop"
  BY <1>1, MovedOnly DEF IInv, Pcs
<1>5. OthersLocks(p)
  BY <1>1, SameLocks
<1>6. PlaceOf(p)'
  <2>1. UseFits("drop", "restore") /\ "drop" \in Holding /\ "drop" \notin Installing \cup Publishing
    BY DEF UseFits, Publishing, Installing, Holding
  <2> QED
    BY <1>1, <1>2, <1>4, <2>1, HeldPlace, Basics
<1>7. EntryOf(p)'
  BY <1>4 DEF EntryOf, Carrying, Publishing, Installing
<1>8. /\ backup' \in [Proc -> [Root -> RunOrNone]] /\ backup'[p] = Absent
      /\ \A q \in Proc \ {p} : backup'[q] = backup[q]
  BY <1>1, <1>3 DEF Absent
<1>9. /\ tree' \in [Root -> RunOrNone]
      /\ \A r \in Root : tree'[r] = IF backup[p][r] # None /\ r \notin stuck THEN backup[p][r]
              ELSE IF pc[p] = "install" /\ r \notin job[p].left /\ r \notin rest THEN None ELSE tree[r]
  BY <1>1, <1>3 DEF Rollback
<1>10. TreeTypes'
  BY <1>1, <1>3, <1>8, <1>9 DEF TreeTypes
<1>11. InstallOf(p)'
  BY <1>4, <1>8 DEF InstallOf, Installing, Absent
<1>12. ASSUME ~torn' PROVE OneArtifact(tree)'
  <2>1. ~torn /\ stuck = {} /\ rest = {} /\ job[p].clean /\ OneArtifact(Before(p))
    BY <1>1, <1>3, <1>12 DEF InstallOf, IInv, ProcTypes, JobRec
  <2>2. \A r \in Root : tree'[r] = Before(p)[r]
    <3>1. CASE pc[p] = "backup"
      BY <1>3, <1>9, <2>1, <3>1 DEF InstallOf, Before
    <3>2. CASE pc[p] = "install"
      BY <1>3, <1>9, <2>1, <3>2 DEF InstallOf, Before
    <3> QED
      BY <1>1, <3>1, <3>2 DEF Installing
  <2>3. tree' = Before(p)
    BY <1>9, <2>2 DEF Before
  <2> QED
    BY <1>1, <1>3, <2>1, <2>3 DEF OneArtifact, Absent
<1>13. IdleTree'
  BY <1>12 DEF IdleTree
<1>14. \A q \in Proc \ {p} : pc[q] \notin Installing
  BY <1>2, SoleInstaller
<1> QED
  BY <1>1, <1>2, <1>4, <1>5, <1>6, <1>7, <1>8, <1>10, <1>11, <1>13, <1>14, DirectoryStep, Basics

(* A process dies.                                                         *)
LEMMA KillStep ==
    ASSUME IInv, NEW p \in Proc, Kill(p)
    PROVE  IInv'
PROOF
<1>1. /\ pc[p] # "idle" /\ End(p)
      /\ UNCHANGED <<raw, tree, marker, disk, started, content, keyOf, mixed>>
      /\ entryLock' = [k \in Key |-> IF entryLock[k] = p THEN None ELSE entryLock[k]]
      /\ outLock' = (IF outLock = p THEN None ELSE outLock)
      /\ backup' = [backup EXCEPT ![p] = Absent]
      /\ torn' = (torn \/ pc[p] \in Installing)
  BY DEF Kill, Installing
<1>2. Shape(p) /\ pc'[p] = "idle" /\ job'[p] = NoJob
  BY <1>1, Ended DEF IInv
<1>3. OthersLocks(p) /\ \A k \in Key : entryLock'[k] # p
  BY <1>1, Basics DEF OthersLocks, IInv, StoreTypes
<1>4. outLock' # p /\ \A q \in Proc \ {p} : outLock' = q <=> outLock = q
  BY <1>1, Basics
<1>5. PlaceOf(p)'
  <2>1. UseFits("idle", NoJob.use) /\ "idle" \notin Holding \cup {"sweep2"}
    BY DEF UseFits, Publishing, Installing, Holding, NoJob
  <2> QED
    BY <1>2, <1>3, <1>4, <2>1, FreePlace
<1>6. EntryOf(p)'
  BY <1>2 DEF EntryOf, Carrying, Publishing, Installing
<1>7. backup \in [Proc -> [Root -> RunOrNone]] /\ TreeTypes /\ torn \in BOOLEAN
      /\ RunOrNone' = RunOrNone /\ Run' = Run /\ None \in RunOrNone /\ InstallOf(p) /\ PlaceOf(p)
  BY <1>1 DEF IInv, TreeTypes, RunOrNone, Run
<1>8. CASE pc[p] \notin Installing
  <2>1. backup[p] = Absent /\ outLock # p
    BY <1>7, <1>8 DEF InstallOf, PlaceOf
  <2>2. backup' = backup /\ torn' = torn /\ outLock' = outLock
    BY <1>1, <1>7, <1>8, <2>1
  <2>3. RawOf(p)'
    BY <1>2 DEF RawOf, RawPcs
  <2>4. Quiet(p)
    BY <1>1, <1>2, <1>8, <2>2, <2>3 DEF Quiet, Installing, RawPcs
  <2> QED
    BY <1>1, <1>3, <1>5, <1>6, <2>4, QuietSameStores
<1>9. CASE pc[p] \in Installing
  <2>1. outLock = p /\ torn' = TRUE /\ ~raw
    BY <1>1, <1>7, <1>9, NotRaw DEF PlaceOf, Installing, RawPcs
  <2>2. /\ backup' \in [Proc -> [Root -> RunOrNone]] /\ backup'[p] = Absent
        /\ \A q \in Proc \ {p} : backup'[q] = backup[q]
    BY <1>1, <1>7 DEF Absent
  <2>3. TreeTypes'
    BY <1>1, <1>7, <2>1, <2>2, Basics DEF TreeTypes
  <2>4. InstallOf(p)'
    BY <1>2, <2>2 DEF InstallOf, Installing, Absent
  <2>5. IdleTree'
    BY <2>1 DEF IdleTree
  <2>6. \A q \in Proc \ {p} : pc[q] \notin Installing
    BY <2>1, SoleInstaller
  <2> QED
    BY <1>1, <1>2, <1>3, <1>4, <1>5, <1>6, <2>1, <2>2, <2>3, <2>4, <2>5, <2>6, DirectoryStep
<1> QED
  BY <1>8, <1>9

-----------------------------------------------------------------------------
(***************************************************************************)
(* The invariant holds at the start and is kept by every step.             *)
(***************************************************************************)
LEMMA InitEstablishes == Init => IInv
PROOF
<1> SUFFICES ASSUME Init PROVE IInv
  OBVIOUS
<1>1. PICK s \in Starts : Start(s.done, s.here, s.there)
  BY DEF Init
<1> DEFINE done == s.done
           here == s.here
           there == s.there
           n == Len(done)
           runOf(k) == IF \E i \in 1..n : done[i] = k THEN CHOOSE i \in 1..n : done[i] = k ELSE None
           at(x) == [k \in Key |-> IF k \in x /\ ~raw THEN runOf(k) ELSE None]
<1>2. done \in Seq(Key) /\ n \in Nat /\ DOMAIN done = 1..n
  BY <1>1, StartsFit
<1>3. /\ keyOf = done
      /\ content = [i \in 1..n |-> [r \in Root |-> IF raw THEN None ELSE i]]
      /\ tree = [r \in Root |-> IF n = 0 THEN None ELSE n]
      /\ marker = (IF n = 0 THEN None ELSE done[n])
      /\ manifest = at(here) /\ artifact = at(here) /\ remote = at(there)
      /\ blobs = {i \in 1..n : done[i] \in there /\ ~raw}
  BY <1>1 DEF Start
<1>4. Run = 1..n /\ RunOrNone = (1..n) \cup {None} /\ None \notin 1..n
  BY <1>2, <1>3, ConstantsFit DEF Run, RunOrNone
<1>5. \A k : runOf(k) = None \/ (runOf(k) \in 1..n /\ done[runOf(k)] = k)
  OBVIOUS
<1> HIDE DEF runOf
<1>6. \A x : /\ at(x) \in [Key -> RunOrNone]
             /\ \A k \in Key : at(x)[k] # None =>
                   k \in x /\ ~raw /\ at(x)[k] \in 1..n /\ done[at(x)[k]] = k
  BY <1>4, <1>5
<1> HIDE DEF at
<1>7. ProcTypes
  <2>1. NoJob \in JobRec /\ "idle" \in Pcs
    BY DEF NoJob, JobRec, Modes, Uses, Pcs
  <2> QED
    BY <2>1 DEF Init, ProcTypes
<1>8. StoreTypes
  BY <1>3, <1>4, <1>6 DEF Init, StoreTypes
<1>9. /\ content \in Seq([Root -> RunOrNone]) /\ Len(content) = n
      /\ tree \in [Root -> RunOrNone] /\ marker \in Key \cup {None}
  <2>1. \A i \in 1..n : content[i] \in [Root -> RunOrNone]
    BY <1>3, <1>4
  <2>2. content \in [1..n -> [Root -> RunOrNone]]
    BY <1>3, <2>1
  <2>3. content \in Seq([Root -> RunOrNone]) /\ Len(content) = n
    BY <1>2, <2>2
  <2>4. n # 0 => n \in 1..n
    BY <1>2
  <2> QED
    BY <1>2, <1>3, <1>4, <2>3, <2>4
<1>10. TreeTypes
  <2>1. backup \in [Proc -> [Root -> RunOrNone]]
    BY <1>4 DEF Init, Absent
  <2>2. raw \in BOOLEAN
    BY ConstantsFit DEF Init
  <2> QED
    BY <1>2, <1>3, <1>9, <2>1, <2>2 DEF Init, TreeTypes
<1>11. ASSUME NEW p \in Proc
       PROVE  PlaceOf(p) /\ EntryOf(p) /\ InstallOf(p) /\ RawOf(p) /\ SoleWriter(p)
  <2>1. pc[p] = "idle" /\ job[p] = NoJob /\ backup[p] = Absent /\ outLock # p
        /\ \A k \in Key : entryLock[k] # p
    BY <1>11, Basics DEF Init
  <2>2. PlaceOf(p)
    BY <2>1 DEF PlaceOf, UseFits, NoJob, Holding, Installing, Publishing
  <2>3. EntryOf(p) /\ InstallOf(p) /\ RawOf(p) /\ SoleWriter(p)
    BY <2>1 DEF EntryOf, InstallOf, RawOf, SoleWriter, Carrying, Publishing, Installing, RawPcs
  <2> QED
    BY <2>2, <2>3
<1>12. ASSUME NEW k \in Key PROVE KeyEntry(k)
  <2>1. ASSUME NEW i \in 1..n, ~raw PROVE \A r \in Root : content[i][r] # None
    BY <1>3, <1>4, <2>1
  <2>2. \A x : at(x)[k] # None => Whole(at(x)[k], k)
    BY <1>3, <1>4, <1>6, <2>1 DEF Whole
  <2>3. remote[k] # None => remote[k] \in blobs
    BY <1>3, <1>6
  <2> QED
    BY <1>3, <2>2, <2>3 DEF KeyEntry
<1>13. IdleTree
  <2>1. ~torn => done = << >>
    BY <1>3 DEF Init
  <2>2. Len(<< >>) = 0
    OBVIOUS
  <2> QED
    BY <1>3, <2>1, <2>2 DEF IdleTree, OneArtifact, Absent
<1>14. RawWrites
  <2>1. ASSUME marker # None, NEW r \in Root PROVE tree[r] # None /\ keyOf[tree[r]] = marker
    <3>1. n # 0 /\ n \in 1..n
      BY <1>2, <1>3, <2>1
    <3> QED
      BY <1>3, <1>4, <2>1, <3>1
  <2> QED
    BY <1>11, <2>1 DEF RawWrites
<1> QED
  BY <1>7, <1>8, <1>10, <1>11, <1>12, <1>13, <1>14 DEF IInv

(* Each step keeps the invariant.                                          *)
LEMMA NextPreserves == IInv /\ [Next]_vars => IInv'
PROOF
<1> SUFFICES ASSUME IInv, [Next]_vars PROVE IInv'
  OBVIOUS
<1>1. ASSUME NEW p \in Proc, Step(p) PROVE IInv'
  BY <1>1, CleanupStep, ClearPartStep, JudgeSteps, LookupSteps, PublishSteps, SweepSteps, SaveSteps, ExecStep,
     WriteStep, StoreStep, BackupSteps, InstallSteps DEF Step
<1>2. ASSUME NEW p \in Proc, Fault(p) PROVE IInv'
  BY <1>2, PublishSteps, RollbackStep, KillStep DEF Fault
<1>3. CASE UNCHANGED vars
  <2>1. UNCHANGED <<raw, tree, marker, manifest, artifact, parts, blobs, remote, entryLock, outLock,
                    pc, job, backup, started, content, keyOf, mixed, torn>>
    BY <1>3 DEF vars, disk, locks, bounds, history
  <2>2. ProcTypes' /\ StoreTypes' /\ TreeTypes'
    BY <2>1 DEF IInv, ProcTypes, StoreTypes, TreeTypes, RunOrNone, Run
  <2>3. \A p \in Proc : PlaceOf(p)' /\ EntryOf(p)'
    BY <2>1 DEF IInv, PlaceOf, EntryOf, Whole, Run
  <2>4. \A k \in Key : KeyEntry(k)'
    BY <2>1 DEF IInv, KeyEntry, Whole, Run
  <2>5. \A p \in Proc : InstallOf(p)'
    BY <2>1 DEF IInv, InstallOf, OneArtifact, Before, Run, Absent
  <2>6. IdleTree' /\ RawWrites'
    BY <2>1 DEF IInv, IdleTree, OneArtifact, RawWrites, RawOf, SoleWriter, Run, Absent
  <2> QED
    BY <2>2, <2>3, <2>4, <2>5, <2>6 DEF IInv
<1> QED
  BY <1>1, <1>2, <1>3, BeginSteps DEF Next, Finished

(* The invariant holds in every state.                                     *)
LEMMA Invariance == Spec => []IInv
PROOF
  BY InitEstablishes, NextPreserves, PTL DEF Spec

-----------------------------------------------------------------------------
(* Type correctness, and the locks: whoever holds the lock of an entry is  *)
(* at a step of task_cache.rs that needs it, and the holder of the output  *)
(* lock is exactly the process that installs.                              *)
THEOREM TypeCorrect == Spec => []TypeOK
PROOF
<1>1. IInv => TypeOK
  <2> SUFFICES ASSUME IInv PROVE TypeOK
    OBVIOUS
  <2>1. \A p \in Proc : outLock = p <=> pc[p] \in {"backup", "install"}
    BY DEF IInv, PlaceOf, Installing
  <2>2. ASSUME NEW k \in Key, entryLock[k] # None
        PROVE  pc[entryLock[k]] \in Holding \cup {"sweep2"}
    <3>1. PICK p \in Proc : p = entryLock[k]
      BY <2>2 DEF IInv, StoreTypes
    <3>2. PlaceOf(p)
      BY DEF IInv
    <3> QED
      BY <3>1, <3>2 DEF PlaceOf
  <2> QED
    BY <2>1, <2>2 DEF TypeOK, IInv, StoreTypes, TreeTypes, Holding
<1> QED
  BY <1>1, Invariance, PTL

(* A restore installs the archive of the very run whose log it replays,    *)
(* whatever died between the two renames of a commit or a removal          *)
(* (verify_artifact_checksum in restore()).                                *)
THEOREM HitsAreWhole == Spec => []HitIsOneRun
PROOF
<1>1. IInv => HitIsOneRun
  <2> SUFFICES ASSUME IInv, NEW p \in Proc, pc[p] \in {"outlock", "backup", "install"}
               PROVE  /\ job[p].art = job[p].man
                      /\ keyOf[job[p].art] = job[p].key
                      /\ \A r \in Root : content[job[p].art][r] # None
    BY DEF HitIsOneRun
  <2>1. EntryOf(p) /\ pc[p] \in Carrying
    BY DEF IInv, Carrying, Installing
  <2> QED
    BY <2>1 DEF EntryOf, Whole
<1> QED
  BY <1>1, Invariance, PTL

(* Restores in one directory never leave a mix of their outputs, unless a  *)
(* command wrote there or a restore was cut short (the output lock).       *)
THEOREM RestoresDoNotMix == Spec => []TreeIsOneArtifact
PROOF
<1>1. IInv => TreeIsOneArtifact
  BY DEF IInv, IdleTree, OneArtifact, TreeIsOneArtifact
<1> QED
  BY <1>1, Invariance, PTL

(* cleanup_abandoned_partial_writes never takes the archive that a live    *)
(* process is about to publish.                                            *)
THEOREM PartsOfTheLivingStay == Spec => []ActivePartIsKept
PROOF
<1>1. IInv => ActivePartIsKept
  BY DEF IInv, PlaceOf, ActivePartIsKept, Publishing
<1> QED
  BY <1>1, Invariance, PTL

(* A remote action result never names blobs the server does not have       *)
(* (HttpTaskCacheStore::commit uploads the blobs first).                   *)
THEOREM RemoteNamesOnlyBlobs == Spec => []RemoteIsComplete
PROOF
<1>1. IInv => RemoteIsComplete
  BY DEF IInv, KeyEntry, Whole, RemoteIsComplete
<1> QED
  BY <1>1, Invariance, PTL

(* A raw task's marker names the key of the outputs in the tree, whatever  *)
(* failed before (clear_current before the run, mark_current after it).    *)
THEOREM RawMarkers == Spec => []RawMarkerIsHonest
PROOF
<1>1. IInv => RawMarkerIsHonest
  BY DEF IInv, RawWrites, RawMarkerIsHonest
<1> QED
  BY <1>1, Invariance, PTL

-----------------------------------------------------------------------------
(* What may make the output v of root r disappear in a step of p.          *)
Excused(p, r, v) ==
    \/ pc[p] = "run" /\ tree'[r] = job[p].run
    \/ pc[p] = "install" /\ pc'[p] = "saved"
    \/ pc[p] = "install" /\ v = content[job[p].art][r]
    \/ pc[p] \in {"backup", "install"} /\ ~job[p].clean

(* What is in the tree, a backup or a kept directory is held.              *)
LEMMA StaysHeld ==
    ASSUME NEW r \in Root, NEW v,
           \/ v = None \/ v = tree'[r]
           \/ \E q \in Proc : v = backup'[q][r]
           \/ <<r, v>> \in kept'
           \/ kept \subseteq kept' /\ \E x \in kept : x[1] = r /\ v = x[2]
    PROVE  v \in Held(r)'
PROOF
<1>1. v \in Held(r)' <=> \/ v = tree'[r] \/ v = None
                         \/ \E q \in Proc : v = backup'[q][r]
                         \/ \E x \in {y \in kept' : y[1] = r} : v = x[2]
  BY DEF Held
<1>2. ASSUME <<r, v>> \in kept' PROVE \E x \in {y \in kept' : y[1] = r} : v = x[2]
  <2>1. <<r, v>>[1] = r /\ v = <<r, v>>[2]
    OBVIOUS
  <2> QED
    BY <1>2, <2>1
<1> QED
  BY <1>1, <1>2

(* And nothing else is.                                                    *)
LEMMA HeldWhere ==
    ASSUME NEW r \in Root, NEW v \in Held(r)
    PROVE  \/ v = None \/ v = tree[r]
           \/ \E q \in Proc : v = backup[q][r]
           \/ \E x \in kept : x[1] = r /\ v = x[2]
PROOF
  BY DEF Held

(* A step loses no output, except one that the property allows to.         *)
LEMMA OutputsKept ==
    ASSUME IInv, [Next]_vars, NEW r \in Root, NEW v \in Held(r)
    PROVE  v \in Held(r)' \/ \E p \in Proc : Excused(p, r, v)
PROOF
<1>1. CASE UNCHANGED <<tree, backup, kept>>
  BY <1>1, HeldWhere, StaysHeld
<1>2. ASSUME NEW p \in Proc, NEW x \in Root, WriteRoot(p, x)
      PROVE  v \in Held(r)' \/ Excused(p, r, v)
  <2>1. /\ pc[p] = "run" /\ tree' = [tree EXCEPT ![x] = job[p].run]
        /\ UNCHANGED <<backup, kept>> /\ tree \in [Root -> RunOrNone]
    BY <1>2 DEF WriteRoot, IInv, TreeTypes
  <2>2. CASE r = x
    BY <2>1, <2>2 DEF Excused
  <2>3. CASE r # x
    BY <2>1, <2>3, HeldWhere, StaysHeld
  <2> QED
    BY <2>2, <2>3
<1>3. ASSUME NEW p \in Proc, NEW x \in Root, Backup(p, x) PROVE v \in Held(r)'
  <2>1. /\ pc[p] = "backup" /\ x \in job[p].left /\ kept' = kept
        /\ backup' = [backup EXCEPT ![p][x] = tree[x]] /\ tree' = [tree EXCEPT ![x] = None]
        /\ tree \in [Root -> RunOrNone] /\ backup \in [Proc -> [Root -> RunOrNone]]
    BY <1>3 DEF Backup, First, IInv, TreeTypes
  <2>2. backup[p][x] = None
    BY <2>1 DEF IInv, InstallOf
  <2>3. /\ \A y \in Root : tree'[y] = IF y = x THEN None ELSE tree[y]
        /\ \A q \in Proc, y \in Root : backup'[q][y] = IF q = p /\ y = x THEN tree[x]
                                                       ELSE backup[q][y]
    BY <2>1
  <2>4. v = tree[r] => v = tree'[r] \/ v = backup'[p][r]
    BY <2>3
  <2>5. ASSUME NEW q \in Proc, v = backup[q][r] PROVE v = None \/ v = backup'[q][r]
    BY <2>2, <2>3, <2>5
  <2> QED
    BY <2>1, <2>4, <2>5, HeldWhere, StaysHeld
<1>4. ASSUME NEW p \in Proc, NEW x \in Root, InstallRoot(p, x)
      PROVE  v \in Held(r)' \/ Excused(p, r, v)
  <2>1. /\ pc[p] = "install" /\ x \in job[p].left /\ UNCHANGED <<backup, kept>>
        /\ tree' = [tree EXCEPT ![x] = content[job[p].art][x]] /\ tree \in [Root -> RunOrNone]
    BY <1>4 DEF InstallRoot, First, IInv, TreeTypes
  <2>2. CASE ~job[p].clean
    BY <2>1, <2>2 DEF Excused
  <2>3. CASE job[p].clean
    <3>1. tree[x] = None
      BY <2>1, <2>3 DEF IInv, InstallOf
    <3>2. v = tree[r] => v = None \/ v = tree'[r]
      BY <2>1, <3>1
    <3>3. \/ v = None \/ v = tree[r]
          \/ \E q \in Proc : v = backup'[q][r]
          \/ kept \subseteq kept' /\ \E y \in kept : y[1] = r /\ v = y[2]
      BY <2>1, HeldWhere
    <3> QED
      BY <3>2, <3>3, StaysHeld
  <2> QED
    BY <2>2, <2>3
<1>5. ASSUME NEW p \in Proc, Hit(p) PROVE Excused(p, r, v)
  BY <1>5 DEF Hit, Goto, Excused, IInv, ProcTypes
<1>6. ASSUME NEW p \in Proc, NEW stuck \in SUBSET Root, NEW rest \in SUBSET Root,
             RestoreFails(p, stuck, rest)
      PROVE  v \in Held(r)' \/ Excused(p, r, v)
  <2>1. /\ pc[p] \in {"backup", "install"} /\ Rollback(p, stuck, rest)
        /\ kept' = kept \cup {<<y, backup[p][y]>> : y \in stuck}
        /\ backup' = [backup EXCEPT ![p] = Absent]
        /\ tree \in [Root -> RunOrNone] /\ backup \in [Proc -> [Root -> RunOrNone]]
        /\ InstallOf(p)
    BY <1>6 DEF RestoreFails, IInv, TreeTypes
  <2>2. tree'[r] = IF backup[p][r] # None /\ r \notin stuck THEN backup[p][r]
                   ELSE IF pc[p] = "install" /\ r \notin job[p].left /\ r \notin rest THEN None ELSE tree[r]
    BY <2>1 DEF Rollback
  <2>3. CASE ~job[p].clean
    BY <2>1, <2>3 DEF Excused
  <2>4. CASE job[p].clean
    <3>1. CASE v = tree[r]
      <4>1. pc[p] = "backup" => v = None \/ v = tree'[r]
        BY <2>1, <2>2, <2>4, <3>1 DEF InstallOf
      <4>2. pc[p] = "install" => v = None \/ v = content[job[p].art][r]
        BY <2>1, <2>4, <3>1 DEF InstallOf
      <4> QED
        BY <2>1, <4>1, <4>2, StaysHeld DEF Excused
    <3>2. ASSUME NEW q \in Proc, v = backup[q][r] PROVE v \in Held(r)'
      <4>1. CASE q # p
        <5>1. v = backup'[q][r]
          BY <2>1, <3>2, <4>1
        <5> QED
          BY <5>1, StaysHeld
      <4>2. CASE q = p /\ v # None
        <5>1. r \in stuck => <<r, v>> \in kept'
          BY <2>1, <3>2, <4>2
        <5>2. r \notin stuck => v = tree'[r]
          BY <2>2, <3>2, <4>2
        <5> QED
          BY <5>1, <5>2, StaysHeld
      <4>3. CASE v = None
        BY <4>3, StaysHeld
      <4> QED
        BY <4>1, <4>2, <4>3
    <3>3. kept \subseteq kept'
      BY <2>1
    <3> QED
      BY <3>1, <3>2, <3>3, HeldWhere, StaysHeld
  <2> QED
    BY <2>3, <2>4, <2>1 DEF IInv, ProcTypes, JobRec
<1>7. ASSUME NEW p \in Proc, Kill(p) PROVE v \in Held(r)'
  <2>1. /\ tree' = tree /\ backup' = [backup EXCEPT ![p] = Absent]
        /\ kept' = kept \cup {<<y, backup[p][y]>> : y \in {z \in Root : backup[p][z] # None}}
        /\ backup \in [Proc -> [Root -> RunOrNone]]
    BY <1>7 DEF Kill, IInv, TreeTypes
  <2>2. ASSUME NEW q \in Proc, v = backup[q][r]
        PROVE  v = None \/ v = backup'[q][r] \/ <<r, v>> \in kept'
    BY <2>1, <2>2
  <2>3. kept \subseteq kept'
    BY <2>1
  <2> QED
    BY <2>1, <2>2, <2>3, HeldWhere, StaysHeld
<1>8. ASSUME NEW p \in Proc, Step(p) PROVE v \in Held(r)' \/ \E q \in Proc : Excused(q, r, v)
  <2>1. UNCHANGED <<tree, backup, kept>>
        \/ Hit(p) \/ \E x \in Root : Backup(p, x) \/ InstallRoot(p, x) \/ WriteRoot(p, x)
    BY <1>8 DEF Step, Judge, Skip, CurrentOutput, Restore, GetLocal, Expired, GetRemote, GetNothing,
       Drop, DropEnds, Store, PublishManifest, PublishArtifact, MirrorBlobs, MirrorResult, StoreEnds,
       CleanupKey, Sweep, SweepManifest, ClearPart, SweepEnds, TakeOutputLock, Exec, CommandFails, SaveChecksum,
       MarkCurrent
  <2> QED
    BY <2>1, <1>1, <1>2, <1>3, <1>4, <1>5
<1>9. ASSUME NEW p \in Proc, Fault(p) PROVE v \in Held(r)' \/ \E q \in Proc : Excused(q, r, v)
  <2>1. UNCHANGED <<tree, backup, kept>>
        \/ Kill(p) \/ \E stuck, rest \in SUBSET Root : RestoreFails(p, stuck, rest)
    BY <1>9 DEF Fault, PromoteFails, StoreFails, MirrorFails
  <2> QED
    BY <2>1, <1>1, <1>6, <1>7
<1>10. CASE UNCHANGED vars
  BY <1>1, <1>10 DEF vars
<1>11. ASSUME NEW p \in Proc, BeginClear(p) \/ \E k \in Key, o \in Offers : Begin(p, k, o[1], o[2])
       PROVE  UNCHANGED <<tree, backup, kept>>
  BY <1>11 DEF BeginClear, Begin
<1> QED
  BY <1>1, <1>8, <1>9, <1>10, <1>11 DEF Next, Finished

(* A restore destroys outputs only once it has replaced all of them: what  *)
(* was there is in place, in the backup directory, or in one left on disk  *)
(* after a failure (install_transactionally, rollback_install).            *)
THEOREM NoOutputIsLost == Spec => OutputsSurvive
PROOF
<1>1. IInv /\ [Next]_vars =>
        [\A r \in Root : \A v \in Held(r) : v \in Held(r)' \/
           \E p \in Proc :
              \/ pc[p] = "run" /\ tree'[r] = job[p].run
              \/ pc[p] = "install" /\ pc'[p] = "saved"
              \/ pc[p] = "install" /\ v = content[job[p].art][r]
              \/ pc[p] \in {"backup", "install"} /\ ~job[p].clean]_vars
  BY OutputsKept DEF Excused
<1> QED
  BY <1>1, Invariance, PTL DEF Spec, OutputsSurvive

=============================================================================
