-------------------------- MODULE KeepOrder_proof --------------------------
(***************************************************************************)
(* Proofs about the keep-order output: no line is lost, printed twice or   *)
(* reordered, the lines of a task that runs once are one block, the live   *)
(* stream is never held by a task that has nothing more to say, and the    *)
(* blocks come out in definition order.                                    *)
(*                                                                         *)
(* KeepOrderState is a value that its operations change one after the      *)
(* other within one step of the run, some of them in a fold over a         *)
(* sequence of tasks. The argument is therefore about such values: Sound   *)
(* relates a state k of the output, in the middle of a step, to what the   *)
(* step does to the rest, a context c. Every operation keeps it, so every  *)
(* fold does, and the invariant IInv of the run is Sound of ko in the      *)
(* context of the state, with what the lives of the tasks have to satisfy. *)
(* The definition order has an invariant OInv of its own, on the order of  *)
(* the slots; only the slots that Inject adds can disturb it.              *)
(*                                                                         *)
(* The library's induction theorems are about operators. The inductions    *)
(* here are about sets of numbers: the least element of the set of         *)
(* counterexamples (NatMin).                                               *)
(***************************************************************************)
EXTENDS KeepOrder, Integers, FiniteSetTheorems, SequenceTheorems, WellFoundedInduction, TLAPS

Line == Task \X Nat

KState == [slots : Seq(Task), buf : [Task -> Seq(Line)], active : Task \cup {None},
           finished : SUBSET Task, injected_by : SUBSET (Task \X Task),
           done : BOOLEAN, out : Seq(Line)]

(***************************************************************************)
(* A context: the terminal before the step, the lines the tasks have       *)
(* produced, the tasks whose block may be broken, the tasks that print no  *)
(* more once they have no slot, those with an occurrence that is to end    *)
(* with its slot retired, those with one that has begun, and whether the   *)
(* results were displayed.                                                 *)
(***************************************************************************)
Context == [pr : Seq(Line), ln : [Task -> Nat], exempt : SUBSET Task, quiet : SUBSET Task,
            held : SUBSET Task, busy : SUBSET Task, done : BOOLEAN]

Slots(k) == ToSet(k.slots)

(* What is on the terminal once the step prints what k has to print.       *)
Full(k, c) == c.pr \o k.out

(* The shape of the state: the live task is the one in the first slot.     *)
Shape(k) ==
    /\ k \in KState
    /\ IsInjective(k.slots)
    /\ k.active # None => k.slots # <<>> /\ Head(k.slots) = k.active

(* Only tasks that have slots wait to be flushed, and never the first.     *)
FrontOK(k) ==
    /\ k.finished \subseteq Slots(k)
    /\ k.slots # <<>> => Head(k.slots) \notin k.finished

(* The lines on the terminal full and in the buffers are those produced.   *)
Increasing(full) ==
    \A i, j \in DOMAIN full : i < j /\ full[i][1] = full[j][1] => full[i][2] < full[j][2]

Shown(full, buf, ln) ==
    \A t \in Task : \A n \in Nat :
        (\E i \in DOMAIN full : full[i] = <<t, n>>) <=> 1 <= n /\ n + Len(buf[t]) <= ln[t]

Buffered(buf, ln) ==
    \A t \in Task :
        /\ Len(buf[t]) <= ln[t]
        /\ \A i \in 1 .. Len(buf[t]) : buf[t][i] = <<t, ln[t] - Len(buf[t]) + i>>

LinesOK(full, buf, ln) == Increasing(full) /\ Shown(full, buf, ln) /\ Buffered(buf, ln)

(* A buffer belongs to a slot, and the live task has printed its own.      *)
BuffersOK(k, ln) ==
    /\ \A t \in Task : k.buf[t] # <<>> => t \in Slots(k)
    /\ k.active # None => k.buf[k.active] = <<>> /\ ln[k.active] > 0

(* A task of which a line is on the terminal is exempt, will print no      *)
(* more, or is live with the end of the terminal to itself.                *)
Ended(k, full, exempt, quiet) ==
    \A i \in DOMAIN full :
        \/ full[i][1] \in exempt
        \/ full[i][1] \in quiet \ Slots(k)
        \/ full[i][1] = k.active /\ \A j \in i .. Len(full) : full[j][1] = full[i][1]

Unbroken(full, exempt) ==
    \A i, j \in DOMAIN full :
        i + 1 < j /\ full[i][1] = full[j][1] /\ full[i + 1][1] # full[i][1]
            => full[i][1] \in exempt

BlocksOK(k, full, exempt, quiet) ==
    /\ Slots(k) \subseteq quiet
    /\ Ended(k, full, exempt, quiet)
    /\ Unbroken(full, exempt)

(* A slot that does not wait to be flushed is that of a task that holds    *)
(* it, X and Y aside, and of one that has begun if something came from it. *)
HeldOK(k, held, busy, X, Y) ==
    \A t \in Slots(k) \ k.finished :
        /\ t \in held \cup X
        /\ k.active = t \/ k.buf[t] # <<>> => t \in busy \cup Y

Sound(k, c, X, Y) ==
    /\ Shape(k)
    /\ c \in Context /\ c.busy \subseteq c.held /\ k.done = c.done
    /\ LinesOK(Full(k, c), k.buf, c.ln)
    /\ BuffersOK(k, c.ln)
    /\ BlocksOK(k, Full(k, c), c.exempt, c.quiet)
    /\ HeldOK(k, c.held, c.busy, X, Y)

(***************************************************************************)
(* The context of a state of the run.                                      *)
(***************************************************************************)
RunsOnce(t) == Cardinality(Parents(t)) = IF Contains(prog.top, t) THEN 0 ELSE 1

Exempt == {t \in Task : t \in stranded \/ ~RunsOnce(t)}

(* The tasks that may print when the lives are l.                          *)
CanPrint(l, stop) ==
    {t \in Task : \E o \in Alive(l, t) : l[o] # "waiting" \/ ~stop}

(* The occurrence waits and the task that injected it has ended: it may be *)
(* forgotten without a word to the output.                                 *)
Orphan(l, o) ==
    /\ l[o] = "waiting"
    /\ \E q \in Occ : q[2] = o[1] /\ l[q] \in {"failed", "over"}

Holders(l) == {t \in Task : \E o \in Alive(l, t) : ~Orphan(l, o)}

Begun(l) == {t \in Task : \E o \in Alive(l, t) : l[o] \in {"running", "failed"}}

Ctx == [pr |-> printed, ln |-> lines, exempt |-> Exempt,
        quiet |-> (Task \ CanPrint(life, stopping)) \cup Slots(ko),
        held |-> Holders(life), busy |-> Begun(life), done |-> ko.done]

(* What the invariant says of the lives. An occurrence that was injected   *)
(* is named by its parent, which began; a task that printed has begun; an  *)
(* anchor that printed has failed.                                         *)
Origins ==
    \A o \in Occ : life[o] # "none" =>
        /\ NamedBy(prog, o[1], o[2])
        /\ o[1] \in Task =>
              \E q \in Occ : q[2] = o[1] /\ life[q] \in {"running", "failed", "over"}

Printers ==
    \A t \in Task : lines[t] > 0 =>
        /\ \E o \in Occ : o[2] = t /\ life[o] # "none"
        /\ t \notin prog.prints => \E o \in Occ : o[2] = t /\ life[o] \in {"failed", "over"}

LivesOK ==
    /\ Origins
    /\ Printers
    /\ ko.done => \A o \in Occ : life[o] \in {"none", "over"}

Types ==
    /\ prog \in Programs
    /\ printed \in Seq(Line)
    /\ life \in [Occ -> {"none", "waiting", "starting", "running", "failed", "over"}]
    /\ entry \in [Task -> Nat]
    /\ known \in [Task -> SUBSET Task]
    /\ lines \in [Task -> 0 .. MaxLines + 1]
    /\ stopping \in BOOLEAN
    /\ ~stopping => \A t \in Task : lines[t] <= MaxLines
    /\ stranded \subseteq Task

IInv ==
    /\ Types
    /\ ko.out = <<>>
    /\ LivesOK
    /\ FrontOK(ko)
    /\ Sound(ko, Ctx, {}, {})

-----------------------------------------------------------------------------
(***************************************************************************)
(* Induction over the natural numbers, by the set of counterexamples, and  *)
(* the folds, each as the sequence of its intermediate states.             *)
(***************************************************************************)

(* A set of natural numbers has a least element.                           *)
LEMMA NatMin ==
    ASSUME NEW T, T \subseteq Nat, T # {}
    PROVE  \E n \in T : \A m \in T : n <= m
<1>1. IsWellFoundedOn(OpToRel(<, Nat), Nat)
  BY NatLessThanWellFounded
<1>2. PICK n \in T : \A y \in T : ~ (<<y, n>> \in OpToRel(<, Nat))
  BY <1>1, WFMin
<1>3. \A y \in T : ~ (y < n)
  BY <1>2 DEF OpToRel
<1> QED
  BY <1>3

(* Induction: a set that has 0 and, below n, the successors of its         *)
(* elements has n.                                                         *)
LEMMA NatInd ==
    ASSUME NEW n \in Nat, NEW T, 0 \in T, \A m \in 0 .. n - 1 : m \in T => m + 1 \in T
    PROVE  n \in T
<1> DEFINE Bad == {m \in 0 .. n : m \notin T}
<1> SUFFICES ASSUME n \notin T PROVE FALSE
  OBVIOUS
<1>1. Bad \subseteq Nat /\ Bad # {}
  OBVIOUS
<1>2. PICK m \in Bad : \A j \in Bad : m <= j
  BY <1>1, NatMin
<1>3. m # 0 /\ m - 1 \in 0 .. n - 1
  BY <1>2
<1>4. m - 1 \in T
  BY <1>2, <1>3
<1>5. (m - 1) + 1 \in T
  BY <1>3, <1>4
<1> QED
  BY <1>2, <1>5

(* Max, the choice of FoldLeft, on a set whose upper bound is in it.       *)
LEMMA MaxTop ==
    ASSUME NEW n \in Nat, NEW s, s \subseteq 1 .. n + 1, n + 1 \in s
    PROVE  Max(s) = n + 1
<1> DEFINE M == CHOOSE x \in s : \A y \in s : x >= y
<1>1. n + 1 \in s /\ \A y \in s : n + 1 >= y
  OBVIOUS
<1>2. M \in s /\ \A y \in s : M >= y
  BY <1>1
<1>3. M >= n + 1 /\ M \in 1 .. n + 1
  BY <1>2
<1>4. M = n + 1
  BY <1>3
<1> QED
  BY <1>4 DEF Max

Retired(f, k, seq, n) ==
    f[0] = k /\ \A i \in 1 .. n : f[i] = Retire(f[i - 1], seq[i])

Inited(f, k, seq, n) ==
    f[0] = k /\ \A i \in 1 .. n : f[i] = InitTask(f[i - 1], seq[i])

Unused(f, k, seq, n) ==
    f[0] = k /\ \A i \in 1 .. n : f[i] = RetireUnusedSlot(f[i - 1], seq[i])

Inserted(f, k, parent, after, seq, n) ==
    f[0] = k /\ \A i \in 1 .. n : f[i] = InsertInjected(f[i - 1], parent, after, seq[i])

(* RetireAll(k, seq) is the end of a chain of states from k, each the one  *)
(* before with the next task of seq retired (FlushFinished, FlushAll).     *)
LEMMA FoldRetire ==
    ASSUME NEW k, NEW n \in Nat, NEW seq, DOMAIN seq = 1 .. n
    PROVE  \E f : Retired(f, k, seq, n) /\ RetireAll(k, seq) = f[n]
<1> DEFINE Body(g, m) == [s \in SUBSET (1 .. m) |->
               IF s = {} THEN k ELSE Retire(g[s \ {Max(s)}], seq[Max(s)])]
           Built == {m \in 0 .. n : \E g : g = Body(g, m)}
<1>1. 0 \in Built
  <2> DEFINE g == [s \in SUBSET (1 .. 0) |-> k]
  <2>1. \A s \in SUBSET (1 .. 0) : s = {}
    OBVIOUS
  <2>2. g = Body(g, 0)
    BY <2>1
  <2> QED
    BY <2>2
<1>2. ASSUME NEW m \in 0 .. n - 1, m \in Built
      PROVE  m + 1 \in Built
  <2>1. PICK g : g = Body(g, m)
    BY <1>2
  <2> DEFINE h == [s \in SUBSET (1 .. m + 1) |->
                     IF m + 1 \in s THEN Retire(g[s \ {m + 1}], seq[m + 1]) ELSE g[s]]
  <2> HIDE DEF Body
  <2>2. ASSUME NEW s \in SUBSET (1 .. m + 1)
        PROVE  h[s] = IF s = {} THEN k ELSE Retire(h[s \ {Max(s)}], seq[Max(s)])
    <3>1. CASE m + 1 \in s
      <4>0. m \in Nat /\ s \subseteq 1 .. m + 1
        OBVIOUS
      <4>1. Max(s) = m + 1
        BY <3>1, <4>0, MaxTop
      <4>2. s \ {m + 1} \in SUBSET (1 .. m + 1) /\ m + 1 \notin s \ {m + 1}
        OBVIOUS
      <4>3. h[s \ {m + 1}] = g[s \ {m + 1}]
        BY <4>2
      <4> QED
        BY <3>1, <4>1, <4>3
    <3>2. CASE m + 1 \notin s
      <4>1. s \in SUBSET (1 .. m)
        BY <3>2
      <4>2. h[s] = g[s]
        BY <3>2
      <4>3. g[s] = IF s = {} THEN k ELSE Retire(g[s \ {Max(s)}], seq[Max(s)])
        BY <2>1, <4>1 DEF Body
      <4>4. s \ {Max(s)} \in SUBSET (1 .. m + 1) /\ m + 1 \notin s \ {Max(s)}
        BY <3>2
      <4>5. h[s \ {Max(s)}] = g[s \ {Max(s)}]
        BY <4>4
      <4> QED
        BY <4>2, <4>3, <4>5
    <3> QED
      BY <3>1, <3>2
  <2>3. h = Body(h, m + 1)
    BY <2>2 DEF Body
  <2>4. m + 1 \in 0 .. n
    OBVIOUS
  <2> QED
    BY <2>3, <2>4
<1>3. n \in Built
  <2> HIDE DEF Built
  <2> QED
    BY <1>1, <1>2, NatInd
<1> DEFINE it == CHOOSE g : g = Body(g, n)
<1>4. it = Body(it, n)
  BY <1>3
<1>5. RetireAll(k, seq) = it[1 .. n]
  BY DEF RetireAll, FoldLeft, MapThenFoldSet
<1> DEFINE f == [i \in 0 .. n |-> it[1 .. i]]
<1> HIDE DEF it
<1>6. f[0] = k
  <2>1. 1 .. 0 = {} /\ 1 .. 0 \in SUBSET (1 .. n)
    OBVIOUS
  <2>2. it[1 .. 0] = k
    BY <1>4, <2>1
  <2> QED
    BY <2>2
<1>7. ASSUME NEW i \in 1 .. n
      PROVE  f[i] = Retire(f[i - 1], seq[i])
  <2>1. 1 .. i \in SUBSET (1 .. n) /\ 1 .. i # {}
    OBVIOUS
  <2>2. Max(1 .. i) = i
    <3>1. i - 1 \in Nat /\ 1 .. i \subseteq 1 .. (i - 1) + 1 /\ (i - 1) + 1 \in 1 .. i
      OBVIOUS
    <3>2. Max(1 .. i) = (i - 1) + 1
      BY <3>1, MaxTop
    <3> QED
      BY <3>2
  <2>3. (1 .. i) \ {i} = 1 .. i - 1
    OBVIOUS
  <2>4. it[1 .. i] = Retire(it[(1 .. i) \ {i}], seq[i])
    BY <1>4, <2>1, <2>2
  <2>5. f[i] = it[1 .. i] /\ f[i - 1] = it[1 .. i - 1]
    OBVIOUS
  <2> QED
    BY <2>3, <2>4, <2>5
<1>8. f[n] = it[1 .. n]
  OBVIOUS
<1> HIDE DEF f
<1>9. Retired(f, k, seq, n)
  BY <1>6, <1>7 DEF Retired
<1> QED
  BY <1>5, <1>8, <1>9
(* The same for InitTask (the slots of the main graph).                    *)
LEMMA FoldInitTask ==
    ASSUME NEW k, NEW n \in Nat, NEW seq, DOMAIN seq = 1 .. n
    PROVE  \E f : Inited(f, k, seq, n) /\ InitTasks(k, seq) = f[n]
<1> DEFINE Body(g, m) == [s \in SUBSET (1 .. m) |->
               IF s = {} THEN k ELSE InitTask(g[s \ {Max(s)}], seq[Max(s)])]
           Built == {m \in 0 .. n : \E g : g = Body(g, m)}
<1>1. 0 \in Built
  <2> DEFINE g == [s \in SUBSET (1 .. 0) |-> k]
  <2>1. \A s \in SUBSET (1 .. 0) : s = {}
    OBVIOUS
  <2>2. g = Body(g, 0)
    BY <2>1
  <2> QED
    BY <2>2
<1>2. ASSUME NEW m \in 0 .. n - 1, m \in Built
      PROVE  m + 1 \in Built
  <2>1. PICK g : g = Body(g, m)
    BY <1>2
  <2> DEFINE h == [s \in SUBSET (1 .. m + 1) |->
                     IF m + 1 \in s THEN InitTask(g[s \ {m + 1}], seq[m + 1]) ELSE g[s]]
  <2> HIDE DEF Body
  <2>2. ASSUME NEW s \in SUBSET (1 .. m + 1)
        PROVE  h[s] = IF s = {} THEN k ELSE InitTask(h[s \ {Max(s)}], seq[Max(s)])
    <3>1. CASE m + 1 \in s
      <4>0. m \in Nat /\ s \subseteq 1 .. m + 1
        OBVIOUS
      <4>1. Max(s) = m + 1
        BY <3>1, <4>0, MaxTop
      <4>2. s \ {m + 1} \in SUBSET (1 .. m + 1) /\ m + 1 \notin s \ {m + 1}
        OBVIOUS
      <4>3. h[s \ {m + 1}] = g[s \ {m + 1}]
        BY <4>2
      <4> QED
        BY <3>1, <4>1, <4>3
    <3>2. CASE m + 1 \notin s
      <4>1. s \in SUBSET (1 .. m)
        BY <3>2
      <4>2. h[s] = g[s]
        BY <3>2
      <4>3. g[s] = IF s = {} THEN k ELSE InitTask(g[s \ {Max(s)}], seq[Max(s)])
        BY <2>1, <4>1 DEF Body
      <4>4. s \ {Max(s)} \in SUBSET (1 .. m + 1) /\ m + 1 \notin s \ {Max(s)}
        BY <3>2
      <4>5. h[s \ {Max(s)}] = g[s \ {Max(s)}]
        BY <4>4
      <4> QED
        BY <4>2, <4>3, <4>5
    <3> QED
      BY <3>1, <3>2
  <2>3. h = Body(h, m + 1)
    BY <2>2 DEF Body
  <2>4. m + 1 \in 0 .. n
    OBVIOUS
  <2> QED
    BY <2>3, <2>4
<1>3. n \in Built
  <2> HIDE DEF Built
  <2> QED
    BY <1>1, <1>2, NatInd
<1> DEFINE it == CHOOSE g : g = Body(g, n)
<1>4. it = Body(it, n)
  BY <1>3
<1>5. InitTasks(k, seq) = it[1 .. n]
  BY DEF InitTasks, FoldLeft, MapThenFoldSet
<1> DEFINE f == [i \in 0 .. n |-> it[1 .. i]]
<1> HIDE DEF it
<1>6. f[0] = k
  <2>1. 1 .. 0 = {} /\ 1 .. 0 \in SUBSET (1 .. n)
    OBVIOUS
  <2>2. it[1 .. 0] = k
    BY <1>4, <2>1
  <2> QED
    BY <2>2
<1>7. ASSUME NEW i \in 1 .. n
      PROVE  f[i] = InitTask(f[i - 1], seq[i])
  <2>1. 1 .. i \in SUBSET (1 .. n) /\ 1 .. i # {}
    OBVIOUS
  <2>2. Max(1 .. i) = i
    <3>1. i - 1 \in Nat /\ 1 .. i \subseteq 1 .. (i - 1) + 1 /\ (i - 1) + 1 \in 1 .. i
      OBVIOUS
    <3>2. Max(1 .. i) = (i - 1) + 1
      BY <3>1, MaxTop
    <3> QED
      BY <3>2
  <2>3. (1 .. i) \ {i} = 1 .. i - 1
    OBVIOUS
  <2>4. it[1 .. i] = InitTask(it[(1 .. i) \ {i}], seq[i])
    BY <1>4, <2>1, <2>2
  <2>5. f[i] = it[1 .. i] /\ f[i - 1] = it[1 .. i - 1]
    OBVIOUS
  <2> QED
    BY <2>3, <2>4, <2>5
<1>8. f[n] = it[1 .. n]
  OBVIOUS
<1> HIDE DEF f
<1>9. Inited(f, k, seq, n)
  BY <1>6, <1>7 DEF Inited
<1> QED
  BY <1>5, <1>8, <1>9
(* The same for RetireUnusedSlot (an abandoned subgraph).                  *)
LEMMA FoldRetireUnusedSlot ==
    ASSUME NEW k, NEW n \in Nat, NEW seq, DOMAIN seq = 1 .. n
    PROVE  \E f : Unused(f, k, seq, n) /\ RetireUnusedSlots(k, seq) = f[n]
<1> DEFINE Body(g, m) == [s \in SUBSET (1 .. m) |->
               IF s = {} THEN k ELSE RetireUnusedSlot(g[s \ {Max(s)}], seq[Max(s)])]
           Built == {m \in 0 .. n : \E g : g = Body(g, m)}
<1>1. 0 \in Built
  <2> DEFINE g == [s \in SUBSET (1 .. 0) |-> k]
  <2>1. \A s \in SUBSET (1 .. 0) : s = {}
    OBVIOUS
  <2>2. g = Body(g, 0)
    BY <2>1
  <2> QED
    BY <2>2
<1>2. ASSUME NEW m \in 0 .. n - 1, m \in Built
      PROVE  m + 1 \in Built
  <2>1. PICK g : g = Body(g, m)
    BY <1>2
  <2> DEFINE h == [s \in SUBSET (1 .. m + 1) |->
                     IF m + 1 \in s THEN RetireUnusedSlot(g[s \ {m + 1}], seq[m + 1]) ELSE g[s]]
  <2> HIDE DEF Body
  <2>2. ASSUME NEW s \in SUBSET (1 .. m + 1)
        PROVE  h[s] = IF s = {} THEN k ELSE RetireUnusedSlot(h[s \ {Max(s)}], seq[Max(s)])
    <3>1. CASE m + 1 \in s
      <4>0. m \in Nat /\ s \subseteq 1 .. m + 1
        OBVIOUS
      <4>1. Max(s) = m + 1
        BY <3>1, <4>0, MaxTop
      <4>2. s \ {m + 1} \in SUBSET (1 .. m + 1) /\ m + 1 \notin s \ {m + 1}
        OBVIOUS
      <4>3. h[s \ {m + 1}] = g[s \ {m + 1}]
        BY <4>2
      <4> QED
        BY <3>1, <4>1, <4>3
    <3>2. CASE m + 1 \notin s
      <4>1. s \in SUBSET (1 .. m)
        BY <3>2
      <4>2. h[s] = g[s]
        BY <3>2
      <4>3. g[s] = IF s = {} THEN k ELSE RetireUnusedSlot(g[s \ {Max(s)}], seq[Max(s)])
        BY <2>1, <4>1 DEF Body
      <4>4. s \ {Max(s)} \in SUBSET (1 .. m + 1) /\ m + 1 \notin s \ {Max(s)}
        BY <3>2
      <4>5. h[s \ {Max(s)}] = g[s \ {Max(s)}]
        BY <4>4
      <4> QED
        BY <4>2, <4>3, <4>5
    <3> QED
      BY <3>1, <3>2
  <2>3. h = Body(h, m + 1)
    BY <2>2 DEF Body
  <2>4. m + 1 \in 0 .. n
    OBVIOUS
  <2> QED
    BY <2>3, <2>4
<1>3. n \in Built
  <2> HIDE DEF Built
  <2> QED
    BY <1>1, <1>2, NatInd
<1> DEFINE it == CHOOSE g : g = Body(g, n)
<1>4. it = Body(it, n)
  BY <1>3
<1>5. RetireUnusedSlots(k, seq) = it[1 .. n]
  BY DEF RetireUnusedSlots, FoldLeft, MapThenFoldSet
<1> DEFINE f == [i \in 0 .. n |-> it[1 .. i]]
<1> HIDE DEF it
<1>6. f[0] = k
  <2>1. 1 .. 0 = {} /\ 1 .. 0 \in SUBSET (1 .. n)
    OBVIOUS
  <2>2. it[1 .. 0] = k
    BY <1>4, <2>1
  <2> QED
    BY <2>2
<1>7. ASSUME NEW i \in 1 .. n
      PROVE  f[i] = RetireUnusedSlot(f[i - 1], seq[i])
  <2>1. 1 .. i \in SUBSET (1 .. n) /\ 1 .. i # {}
    OBVIOUS
  <2>2. Max(1 .. i) = i
    <3>1. i - 1 \in Nat /\ 1 .. i \subseteq 1 .. (i - 1) + 1 /\ (i - 1) + 1 \in 1 .. i
      OBVIOUS
    <3>2. Max(1 .. i) = (i - 1) + 1
      BY <3>1, MaxTop
    <3> QED
      BY <3>2
  <2>3. (1 .. i) \ {i} = 1 .. i - 1
    OBVIOUS
  <2>4. it[1 .. i] = RetireUnusedSlot(it[(1 .. i) \ {i}], seq[i])
    BY <1>4, <2>1, <2>2
  <2>5. f[i] = it[1 .. i] /\ f[i - 1] = it[1 .. i - 1]
    OBVIOUS
  <2> QED
    BY <2>3, <2>4, <2>5
<1>8. f[n] = it[1 .. n]
  OBVIOUS
<1> HIDE DEF f
<1>9. Unused(f, k, seq, n)
  BY <1>6, <1>7 DEF Unused
<1> QED
  BY <1>5, <1>8, <1>9
(* The same for InsertInjected (the tasks of a run entry).                 *)
LEMMA FoldInsertInjected ==
    ASSUME NEW k, NEW parent, NEW after, NEW n \in Nat, NEW seq, DOMAIN seq = 1 .. n
    PROVE  \E f : Inserted(f, k, parent, after, seq, n) /\ InsertFrom(k, parent, after, seq) = f[n]
<1> DEFINE Body(g, m) == [s \in SUBSET (1 .. m) |->
               IF s = {} THEN k ELSE InsertInjected(g[s \ {Max(s)}], parent, after, seq[Max(s)])]
           Built == {m \in 0 .. n : \E g : g = Body(g, m)}
<1>1. 0 \in Built
  <2> DEFINE g == [s \in SUBSET (1 .. 0) |-> k]
  <2>1. \A s \in SUBSET (1 .. 0) : s = {}
    OBVIOUS
  <2>2. g = Body(g, 0)
    BY <2>1
  <2> QED
    BY <2>2
<1>2. ASSUME NEW m \in 0 .. n - 1, m \in Built
      PROVE  m + 1 \in Built
  <2>1. PICK g : g = Body(g, m)
    BY <1>2
  <2> DEFINE h == [s \in SUBSET (1 .. m + 1) |->
                     IF m + 1 \in s THEN InsertInjected(g[s \ {m + 1}], parent, after, seq[m + 1]) ELSE g[s]]
  <2> HIDE DEF Body
  <2>2. ASSUME NEW s \in SUBSET (1 .. m + 1)
        PROVE  h[s] = IF s = {} THEN k ELSE InsertInjected(h[s \ {Max(s)}], parent, after, seq[Max(s)])
    <3>1. CASE m + 1 \in s
      <4>0. m \in Nat /\ s \subseteq 1 .. m + 1
        OBVIOUS
      <4>1. Max(s) = m + 1
        BY <3>1, <4>0, MaxTop
      <4>2. s \ {m + 1} \in SUBSET (1 .. m + 1) /\ m + 1 \notin s \ {m + 1}
        OBVIOUS
      <4>3. h[s \ {m + 1}] = g[s \ {m + 1}]
        BY <4>2
      <4> QED
        BY <3>1, <4>1, <4>3
    <3>2. CASE m + 1 \notin s
      <4>1. s \in SUBSET (1 .. m)
        BY <3>2
      <4>2. h[s] = g[s]
        BY <3>2
      <4>3. g[s] = IF s = {} THEN k ELSE InsertInjected(g[s \ {Max(s)}], parent, after, seq[Max(s)])
        BY <2>1, <4>1 DEF Body
      <4>4. s \ {Max(s)} \in SUBSET (1 .. m + 1) /\ m + 1 \notin s \ {Max(s)}
        BY <3>2
      <4>5. h[s \ {Max(s)}] = g[s \ {Max(s)}]
        BY <4>4
      <4> QED
        BY <4>2, <4>3, <4>5
    <3> QED
      BY <3>1, <3>2
  <2>3. h = Body(h, m + 1)
    BY <2>2 DEF Body
  <2>4. m + 1 \in 0 .. n
    OBVIOUS
  <2> QED
    BY <2>3, <2>4
<1>3. n \in Built
  <2> HIDE DEF Built
  <2> QED
    BY <1>1, <1>2, NatInd
<1> DEFINE it == CHOOSE g : g = Body(g, n)
<1>4. it = Body(it, n)
  BY <1>3
<1>5. InsertFrom(k, parent, after, seq) = it[1 .. n]
  BY DEF InsertFrom, FoldLeft, MapThenFoldSet
<1> DEFINE f == [i \in 0 .. n |-> it[1 .. i]]
<1> HIDE DEF it
<1>6. f[0] = k
  <2>1. 1 .. 0 = {} /\ 1 .. 0 \in SUBSET (1 .. n)
    OBVIOUS
  <2>2. it[1 .. 0] = k
    BY <1>4, <2>1
  <2> QED
    BY <2>2
<1>7. ASSUME NEW i \in 1 .. n
      PROVE  f[i] = InsertInjected(f[i - 1], parent, after, seq[i])
  <2>1. 1 .. i \in SUBSET (1 .. n) /\ 1 .. i # {}
    OBVIOUS
  <2>2. Max(1 .. i) = i
    <3>1. i - 1 \in Nat /\ 1 .. i \subseteq 1 .. (i - 1) + 1 /\ (i - 1) + 1 \in 1 .. i
      OBVIOUS
    <3>2. Max(1 .. i) = (i - 1) + 1
      BY <3>1, MaxTop
    <3> QED
      BY <3>2
  <2>3. (1 .. i) \ {i} = 1 .. i - 1
    OBVIOUS
  <2>4. it[1 .. i] = InsertInjected(it[(1 .. i) \ {i}], parent, after, seq[i])
    BY <1>4, <2>1, <2>2
  <2>5. f[i] = it[1 .. i] /\ f[i - 1] = it[1 .. i - 1]
    OBVIOUS
  <2> QED
    BY <2>3, <2>4, <2>5
<1>8. f[n] = it[1 .. n]
  OBVIOUS
<1> HIDE DEF f
<1>9. Inserted(f, k, parent, after, seq, n)
  BY <1>6, <1>7 DEF Inserted
<1> QED
  BY <1>5, <1>8, <1>9

Kept(S, kept, t) == IF t \in S THEN Append(kept, t) ELSE kept

AmongChain(f, S, seq, n) ==
    f[0] = <<>> /\ \A i \in 1 .. n : f[i] = Kept(S, f[i - 1], seq[i])

(* The same for Among.                                                     *)
LEMMA FoldAmong ==
    ASSUME NEW S, NEW n \in Nat, NEW seq, DOMAIN seq = 1 .. n
    PROVE  \E f : AmongChain(f, S, seq, n) /\ Among(seq, S) = f[n]
<1> DEFINE Body(g, m) == [s \in SUBSET (1 .. m) |->
               IF s = {} THEN <<>> ELSE Kept(S, g[s \ {Max(s)}], seq[Max(s)])]
           Built == {m \in 0 .. n : \E g : g = Body(g, m)}
<1>1. 0 \in Built
  <2> DEFINE g == [s \in SUBSET (1 .. 0) |-> <<>>]
  <2>1. \A s \in SUBSET (1 .. 0) : s = {}
    OBVIOUS
  <2>2. g = Body(g, 0)
    BY <2>1
  <2> QED
    BY <2>2
<1>2. ASSUME NEW m \in 0 .. n - 1, m \in Built
      PROVE  m + 1 \in Built
  <2>1. PICK g : g = Body(g, m)
    BY <1>2
  <2> DEFINE h == [s \in SUBSET (1 .. m + 1) |->
                     IF m + 1 \in s THEN Kept(S, g[s \ {m + 1}], seq[m + 1]) ELSE g[s]]
  <2> HIDE DEF Body
  <2>2. ASSUME NEW s \in SUBSET (1 .. m + 1)
        PROVE  h[s] = IF s = {} THEN <<>> ELSE Kept(S, h[s \ {Max(s)}], seq[Max(s)])
    <3>1. CASE m + 1 \in s
      <4>0. m \in Nat /\ s \subseteq 1 .. m + 1
        OBVIOUS
      <4>1. Max(s) = m + 1
        BY <3>1, <4>0, MaxTop
      <4>2. s \ {m + 1} \in SUBSET (1 .. m + 1) /\ m + 1 \notin s \ {m + 1}
        OBVIOUS
      <4>3. h[s \ {m + 1}] = g[s \ {m + 1}]
        BY <4>2
      <4> QED
        BY <3>1, <4>1, <4>3
    <3>2. CASE m + 1 \notin s
      <4>1. s \in SUBSET (1 .. m)
        BY <3>2
      <4>2. h[s] = g[s]
        BY <3>2
      <4>3. g[s] = IF s = {} THEN <<>> ELSE Kept(S, g[s \ {Max(s)}], seq[Max(s)])
        BY <2>1, <4>1 DEF Body
      <4>4. s \ {Max(s)} \in SUBSET (1 .. m + 1) /\ m + 1 \notin s \ {Max(s)}
        BY <3>2
      <4>5. h[s \ {Max(s)}] = g[s \ {Max(s)}]
        BY <4>4
      <4> QED
        BY <4>2, <4>3, <4>5
    <3> QED
      BY <3>1, <3>2
  <2>3. h = Body(h, m + 1)
    BY <2>2 DEF Body
  <2>4. m + 1 \in 0 .. n
    OBVIOUS
  <2> QED
    BY <2>3, <2>4
<1>3. n \in Built
  <2> HIDE DEF Built
  <2> QED
    BY <1>1, <1>2, NatInd
<1> DEFINE it == CHOOSE g : g = Body(g, n)
<1>4. it = Body(it, n)
  BY <1>3
<1>5. Among(seq, S) = it[1 .. n]
  BY DEF Among, Kept, FoldLeft, MapThenFoldSet
<1> DEFINE f == [i \in 0 .. n |-> it[1 .. i]]
<1> HIDE DEF it
<1>6. f[0] = <<>>
  <2>1. 1 .. 0 = {} /\ 1 .. 0 \in SUBSET (1 .. n)
    OBVIOUS
  <2>2. it[1 .. 0] = <<>>
    BY <1>4, <2>1
  <2> QED
    BY <2>2
<1>7. ASSUME NEW i \in 1 .. n
      PROVE  f[i] = Kept(S, f[i - 1], seq[i])
  <2>1. 1 .. i \in SUBSET (1 .. n) /\ 1 .. i # {}
    OBVIOUS
  <2>2. Max(1 .. i) = i
    <3>1. i - 1 \in Nat /\ 1 .. i \subseteq 1 .. (i - 1) + 1 /\ (i - 1) + 1 \in 1 .. i
      OBVIOUS
    <3>2. Max(1 .. i) = (i - 1) + 1
      BY <3>1, MaxTop
    <3> QED
      BY <3>2
  <2>3. (1 .. i) \ {i} = 1 .. i - 1
    OBVIOUS
  <2>4. it[1 .. i] = Kept(S, it[(1 .. i) \ {i}], seq[i])
    BY <1>4, <2>1, <2>2
  <2>5. f[i] = it[1 .. i] /\ f[i - 1] = it[1 .. i - 1]
    OBVIOUS
  <2> QED
    BY <2>3, <2>4, <2>5
<1>8. f[n] = it[1 .. n]
  OBVIOUS
<1> HIDE DEF f
<1>9. AmongChain(f, S, seq, n)
  BY <1>6, <1>7 DEF AmongChain
<1> QED
  BY <1>5, <1>8, <1>9

(* The elements of a sequence as a set: membership, Append, and \o.        *)
LEMMA InToSet ==
    ASSUME NEW S, NEW seq \in Seq(S), NEW x
    PROVE  /\ Contains(seq, x) <=> x \in ToSet(seq)
           /\ x \in ToSet(seq) <=> \E i \in 1 .. Len(seq) : seq[i] = x
<1>1. DOMAIN seq = 1 .. Len(seq)
  BY LenProperties
<1> QED
  BY <1>1 DEF Contains, ToSet

(* Append adds its element.                                                *)
LEMMA ToSetAppend ==
    ASSUME NEW S, NEW seq \in Seq(S), NEW e \in S
    PROVE  ToSet(Append(seq, e)) = ToSet(seq) \cup {e}
<1> DEFINE a == Append(seq, e)
<1>1. /\ a \in Seq(S) /\ Len(seq) \in Nat /\ Len(a) = Len(seq) + 1
      /\ \A i \in 1 .. Len(seq) : a[i] = seq[i]
      /\ a[Len(seq) + 1] = e
  BY AppendProperties, LenProperties
<1> HIDE DEF a
<1>2. ASSUME NEW x
      PROVE  x \in ToSet(a) <=> x \in ToSet(seq) \/ x = e
  <2>1. x \in ToSet(a) <=> \E i \in 1 .. Len(seq) + 1 : a[i] = x
    BY <1>1, InToSet
  <2>2. x \in ToSet(seq) <=> \E i \in 1 .. Len(seq) : seq[i] = x
    BY InToSet
  <2>3. 1 .. Len(seq) + 1 = (1 .. Len(seq)) \cup {Len(seq) + 1}
    BY <1>1
  <2> QED
    BY <1>1, <2>1, <2>2, <2>3
<1> QED
  BY <1>2 DEF a

(* A concatenation has the elements of both.                               *)
LEMMA ToSetConcat ==
    ASSUME NEW S, NEW s \in Seq(S), NEW t \in Seq(S)
    PROVE  ToSet(s \o t) = ToSet(s) \cup ToSet(t)
<1>1. Range(s \o t) = Range(s) \cup Range(t)
  BY RangeConcatenation
<1> QED
  BY <1>1 DEF Range, ToSet

(* Among keeps, of a sequence of tasks, those of the set, and no other.    *)
LEMMA AmongProperties ==
    ASSUME NEW seq \in Seq(Task), NEW S
    PROVE  /\ Among(seq, S) \in Seq(Task)
           /\ \A x : x \in ToSet(Among(seq, S)) <=> x \in ToSet(seq) /\ x \in S
<1> DEFINE n == Len(seq)
<1>1. n \in Nat /\ DOMAIN seq = 1 .. n /\ \A i \in 1 .. n : seq[i] \in Task
  BY LenProperties, ElementOfSeq
<1>0. \A x : x \in ToSet(seq) <=> \E i \in 1 .. n : seq[i] = x
  BY InToSet
<1> HIDE DEF n
<1>2. PICK f : AmongChain(f, S, seq, n) /\ Among(seq, S) = f[n]
  BY <1>1, FoldAmong
<1> DEFINE P(m) == /\ f[m] \in Seq(Task)
                   /\ \A x : x \in ToSet(f[m]) <=> x \in S /\ \E i \in 1 .. m : seq[i] = x
           Good == {m \in 0 .. n : P(m)}
<1>3. 0 \in Good
  <2>1. f[0] = <<>>
    BY <1>2 DEF AmongChain
  <2>2. <<>> \in Seq(Task) /\ ToSet(<<>>) = {}
    BY DEF ToSet
  <2>3. P(0) /\ 0 \in 0 .. n
    BY <1>1, <2>1, <2>2
  <2> HIDE DEF P
  <2> QED
    BY <2>3
<1>4. ASSUME NEW m \in 0 .. n - 1, m \in Good
      PROVE  m + 1 \in Good
  <2>1. /\ m + 1 \in 1 .. n /\ (m + 1) - 1 = m
        /\ f[m + 1] = IF seq[m + 1] \in S THEN Append(f[m], seq[m + 1]) ELSE f[m]
    BY <1>1, <1>2 DEF AmongChain, Kept
  <2>3. seq[m + 1] \in Task
    BY <1>1, <2>1
  <2>4. f[m] \in Seq(Task) /\ \A x : x \in ToSet(f[m]) <=> x \in S /\ \E i \in 1 .. m : seq[i] = x
    BY <1>4
  <2>5. ToSet(Append(f[m], seq[m + 1])) = ToSet(f[m]) \cup {seq[m + 1]}
    BY <2>3, <2>4, ToSetAppend
  <2>6. f[m + 1] \in Seq(Task)
    BY <2>1, <2>3, <2>4, AppendProperties
  <2>7. ASSUME NEW x
        PROVE  x \in ToSet(f[m + 1]) <=> x \in S /\ \E i \in 1 .. m + 1 : seq[i] = x
    <3>1. (\E i \in 1 .. m + 1 : seq[i] = x) <=> (\E i \in 1 .. m : seq[i] = x) \/ seq[m + 1] = x
      BY <1>1, <2>1
    <3> QED
      BY <2>1, <2>4, <2>5, <3>1
  <2>8. P(m + 1) /\ m + 1 \in 0 .. n
    BY <1>1, <2>1, <2>6, <2>7
  <2> HIDE DEF P
  <2> QED
    BY <2>8
<1>5. n \in Good
  <2> HIDE DEF Good
  <2> QED
    BY <1>1, <1>3, <1>4, NatInd
<1> QED
  BY <1>0, <1>2, <1>5

(* The entries of a task, one after the other, name the tasks each names.  *)
LEMMA FlattenProperties ==
    ASSUME NEW s \in Seq(Seq(Task))
    PROVE  /\ FlattenSeq(s) \in Seq(Task)
           /\ \A x : x \in ToSet(FlattenSeq(s)) <=> \E i \in 1 .. Len(s) : x \in ToSet(s[i])
<1> DEFINE n == Len(s)
<1>1. n \in Nat /\ \A i \in 1 .. n : s[i] \in Seq(Task)
  BY LenProperties, ElementOfSeq
<1>2. CASE n = 0
  <2>1. s = <<>>
    BY <1>2, EmptySeq
  <2>2. FlattenSeq(s) = s
    BY <1>2 DEF FlattenSeq
  <2>3. <<>> \in Seq(Task) /\ ToSet(<<>>) = {} /\ 1 .. 0 = {}
    BY DEF ToSet
  <2> QED
    BY <1>2, <2>1, <2>2, <2>3
<1>3. CASE n # 0
  <2> DEFINE Body(g, m) == [i \in 1 .. m |-> IF i = 1 THEN s[i] ELSE g[i - 1] \o s[i]]
             Built == {m \in 0 .. n : \E g : g = Body(g, m)}
  <2>1. 0 \in Built
    <3> DEFINE g == [i \in 1 .. 0 |-> <<>>]
    <3>1. g = Body(g, 0)
      OBVIOUS
    <3>2. 0 \in 0 .. n
      BY <1>1
    <3> HIDE DEF Body
    <3> QED
      BY <3>1, <3>2
  <2>2. ASSUME NEW m \in 0 .. n - 1, m \in Built
        PROVE  m + 1 \in Built
    <3>1. PICK g : g = Body(g, m)
      BY <2>2
    <3> DEFINE h == [i \in 1 .. m + 1 |->
                       IF i <= m THEN g[i] ELSE IF i = 1 THEN s[i] ELSE g[i - 1] \o s[i]]
    <3>2. m \in Nat /\ m + 1 \in 0 .. n
      BY <1>1
    <3>3. ASSUME NEW i \in 1 .. m + 1
          PROVE  h[i] = IF i = 1 THEN s[i] ELSE h[i - 1] \o s[i]
      <4>1. CASE i = 1
        <5>1. m >= 1 => g[1] = s[1]
          BY <3>1, <3>2
        <5> QED
          BY <4>1, <5>1, <3>2
      <4>2. CASE i # 1
        <5>1. i - 1 \in 1 .. m + 1 /\ i - 1 <= m /\ h[i - 1] = g[i - 1]
          BY <3>2, <4>2
        <5>2. i <= m => g[i] = g[i - 1] \o s[i]
          <6>1. \A j \in 1 .. m : Body(g, m)[j] = IF j = 1 THEN s[j] ELSE g[j - 1] \o s[j]
            OBVIOUS
          <6>2. \A j \in 1 .. m : g[j] = IF j = 1 THEN s[j] ELSE g[j - 1] \o s[j]
            <7> HIDE DEF Body
            <7> QED
              BY <3>1, <6>1
          <6>3. i <= m => i \in 1 .. m
            BY <3>2
          <6> QED
            BY <4>2, <6>2, <6>3
        <5>3. h[i] = IF i <= m THEN g[i] ELSE g[i - 1] \o s[i]
          BY <4>2
        <5> HIDE DEF h
        <5> QED
          BY <4>2, <5>1, <5>2, <5>3
      <4> QED
        BY <4>1, <4>2
    <3>4. h = Body(h, m + 1)
      BY <3>3, Zenon
    <3> HIDE DEF Body, h
    <3> QED
      BY <3>2, <3>4
  <2>3. n \in Built
    <3> HIDE DEF Built, n
    <3> QED
      BY <1>1, <2>1, <2>2, NatInd
  <2> DEFINE F == CHOOSE g : g = Body(g, n)
  <2>4. F = Body(F, n)
    BY <2>3, Zenon
  <2>5. FlattenSeq(s) = F[n]
    BY <1>3 DEF FlattenSeq
  <2> HIDE DEF F
  <2> HIDE DEF n
  <2> DEFINE P(m) == m # 0 => /\ F[m] \in Seq(Task)
                              /\ \A x : x \in ToSet(F[m]) <=> \E i \in 1 .. m : x \in ToSet(s[i])
             Good == {m \in 0 .. n : P(m)}
  <2>6. 0 \in Good
    BY <1>1
  <2>7. ASSUME NEW m \in 0 .. n - 1, m \in Good
        PROVE  m + 1 \in Good
    <3>1. m \in Nat /\ m + 1 \in 1 .. n /\ m + 1 \in 0 .. n
      BY <1>1
    <3>2. F[m + 1] = IF m + 1 = 1 THEN s[m + 1] ELSE F[m] \o s[m + 1]
      <4>1. (m + 1) - 1 = m
        BY <3>1
      <4>2. F[m + 1] = IF m + 1 = 1 THEN s[m + 1] ELSE F[(m + 1) - 1] \o s[m + 1]
        BY <2>4, <3>1
      <4> QED
        BY <4>1, <4>2
    <3>3. s[m + 1] \in Seq(Task)
      BY <1>1, <3>1
    <3>4. P(m)
      BY <2>7
    <3>5. P(m + 1)
      <4>1. CASE m = 0
        BY <3>1, <3>2, <3>3, <4>1
      <4>2. CASE m # 0
        <5>0. m + 1 # 1
          BY <3>1, <4>2
        <5>1. F[m] \in Seq(Task) /\ F[m + 1] = F[m] \o s[m + 1]
          BY <3>2, <3>4, <4>2, <5>0
        <5>2. F[m + 1] \in Seq(Task)
          BY <3>3, <5>1, ConcatProperties
        <5>3. ToSet(F[m + 1]) = ToSet(F[m]) \cup ToSet(s[m + 1])
          BY <3>3, <5>1, ToSetConcat
        <5>4. ASSUME NEW x
              PROVE  x \in ToSet(F[m + 1]) <=> \E i \in 1 .. m + 1 : x \in ToSet(s[i])
          <6>1. (\E i \in 1 .. m + 1 : x \in ToSet(s[i]))
                  <=> (\E i \in 1 .. m : x \in ToSet(s[i])) \/ x \in ToSet(s[m + 1])
            BY <3>1
          <6>2. x \in ToSet(F[m]) <=> \E i \in 1 .. m : x \in ToSet(s[i])
            BY <3>4, <4>2
          <6> QED
            BY <5>3, <6>1, <6>2
        <5> QED
          BY <5>2, <5>4
      <4> QED
        BY <4>1, <4>2
    <3> HIDE DEF P
    <3> QED
      BY <3>1, <3>5
  <2>8. n \in Good
    <3> HIDE DEF Good
    <3> QED
      BY <1>1, <2>6, <2>7, NatInd
  <2> QED
    BY <1>3, <2>5, <2>8 DEF n
<1> QED
  BY <1>2, <1>3

-----------------------------------------------------------------------------
(***************************************************************************)
(* The lines on the terminal and in the buffers.                           *)
(***************************************************************************)

(* A line is the pair of its task and its number.                          *)
LEMMA LineParts ==
    ASSUME NEW x \in Line
    PROVE  x[1] \in Task /\ x[2] \in Nat /\ x = <<x[1], x[2]>>
BY DEF Line

(* Printing the buffer of a task, and emptying it, keeps the lines right.  *)
LEMMA EmitLines ==
    ASSUME NEW full \in Seq(Line), NEW buf \in [Task -> Seq(Line)], NEW ln \in [Task -> Nat],
           LinesOK(full, buf, ln), NEW t \in Task
    PROVE  LinesOK(full \o buf[t], [buf EXCEPT ![t] = <<>>], ln)
<1> DEFINE b == buf[t]
           N == Len(full)
           M == Len(b)
           new == full \o b
           buf2 == [buf EXCEPT ![t] = <<>>]
<1>1. /\ new \in Seq(Line) /\ N \in Nat /\ M \in Nat /\ Len(new) = N + M
      /\ DOMAIN full = 1 .. N /\ DOMAIN new = 1 .. N + M /\ b \in Seq(Line)
      /\ \A i \in 1 .. N : new[i] = full[i] /\ full[i] \in Line
  BY LenProperties, ElementOfSeq, ConcatProperties
<1>2. \A i \in N + 1 .. N + M : i - N \in 1 .. M /\ new[i] = b[i - N]
  <2>1. \A i \in 1 .. N + M : new[i] = IF i <= N THEN full[i] ELSE b[i - N]
    BY <1>1, ConcatProperties
  <2> HIDE DEF new, N, M
  <2> QED
    BY <1>1, <2>1
<1>3. ln[t] \in Nat /\ M <= ln[t] /\ \A i \in 1 .. M : b[i] = <<t, ln[t] - M + i>>
  BY DEF LinesOK, Buffered
<1>4. \A i \in N + 1 .. N + M : new[i][1] = t /\ new[i][2] = ln[t] - M + (i - N)
  <2> HIDE DEF new, N, M, b
  <2> QED
    BY <1>2, <1>3
<1>5. \A u \in Task : \A n \in Nat :
          (\E i \in 1 .. N : full[i] = <<u, n>>) <=> 1 <= n /\ n + Len(buf[u]) <= ln[u]
  BY <1>1 DEF LinesOK, Shown
<1>6. \A i \in 1 .. N : full[i][1] = t => full[i][2] \in Nat /\ full[i][2] + M <= ln[t]
  <2> SUFFICES ASSUME NEW i \in 1 .. N, full[i][1] = t
               PROVE  full[i][2] \in Nat /\ full[i][2] + M <= ln[t]
    OBVIOUS
  <2>1. full[i][2] \in Nat /\ full[i] = <<t, full[i][2]>>
    BY <1>1, LineParts
  <2> QED
    BY <1>5, <2>1
<1>7. Increasing(new)
  <2> SUFFICES ASSUME NEW i \in 1 .. N + M, NEW j \in 1 .. N + M, i < j, new[i][1] = new[j][1]
               PROVE  new[i][2] < new[j][2]
    BY <1>1 DEF Increasing
  <2>1. CASE j <= N
    <3>1. i \in DOMAIN full /\ j \in DOMAIN full /\ new[i] = full[i] /\ new[j] = full[j]
      BY <1>1, <2>1
    <3> HIDE DEF new, N, M
    <3> QED
      BY <3>1 DEF LinesOK, Increasing
  <2>2. CASE i <= N /\ ~(j <= N)
    <3>1. i \in 1 .. N /\ j \in N + 1 .. N + M
      BY <1>1, <2>2
    <3>2. new[i] = full[i] /\ full[i][1] = t /\ new[j][2] = ln[t] - M + (j - N)
      BY <1>1, <1>4, <3>1
    <3>3. full[i][2] \in Nat /\ full[i][2] + M <= ln[t]
      BY <1>6, <3>1, <3>2
    <3> HIDE DEF new, N, M
    <3> QED
      BY <1>1, <1>3, <3>1, <3>2, <3>3
  <2>3. CASE ~(i <= N)
    <3>1. i \in N + 1 .. N + M /\ j \in N + 1 .. N + M
      BY <1>1, <2>3
    <3> HIDE DEF new, N, M
    <3> QED
      BY <1>1, <1>3, <1>4, <3>1
  <2> QED
    BY <1>1, <2>1, <2>2, <2>3
<1>8. Shown(new, buf2, ln)
  <2> SUFFICES ASSUME NEW u \in Task, NEW n \in Nat
               PROVE  (\E i \in 1 .. N + M : new[i] = <<u, n>>) <=> 1 <= n /\ n + Len(buf2[u]) <= ln[u]
    BY <1>1 DEF Shown
  <2>0. (\E i \in 1 .. N + M : new[i] = <<u, n>>) <=>
            (\E i \in 1 .. N : full[i] = <<u, n>>) \/ (\E i \in 1 .. M : b[i] = <<u, n>>)
    <3>1. ASSUME NEW i \in 1 .. N + M, new[i] = <<u, n>>
          PROVE  (\E m \in 1 .. N : full[m] = <<u, n>>) \/ (\E m \in 1 .. M : b[m] = <<u, n>>)
      <4>1. CASE i <= N
        <5>1. i \in 1 .. N
          BY <1>1, <4>1
        <5> QED
          BY <1>1, <3>1, <5>1
      <4>2. CASE ~(i <= N)
        <5>1. i \in N + 1 .. N + M
          BY <1>1, <4>2
        <5> HIDE DEF new, N, M, b
        <5> QED
          BY <1>2, <3>1, <5>1
      <4> QED
        BY <4>1, <4>2
    <3>2. ASSUME NEW i \in 1 .. N, full[i] = <<u, n>>
          PROVE  \E m \in 1 .. N + M : new[m] = <<u, n>>
      <4>1. i \in 1 .. N + M
        BY <1>1
      <4> QED
        BY <1>1, <3>2, <4>1
    <3>3. ASSUME NEW i \in 1 .. M, b[i] = <<u, n>>
          PROVE  \E m \in 1 .. N + M : new[m] = <<u, n>>
      <4> HIDE DEF new, N, M, b
      <4>1. N + i \in 1 .. N + M /\ N + i \in N + 1 .. N + M /\ (N + i) - N = i
        BY <1>1
      <4>2. new[N + i] = b[i]
        BY <1>2, <4>1
      <4> QED
        BY <3>3, <4>1, <4>2
    <3> QED
      BY <3>1, <3>2, <3>3
  <2>1. CASE u # t
    <3>1. buf2[u] = buf[u]
      BY <2>1
    <3>2. ~ \E i \in 1 .. M : b[i] = <<u, n>>
      BY <1>3, <2>1
    <3> QED
      BY <1>5, <2>0, <3>1, <3>2
  <2>2. CASE u = t
    <3>1. buf2[u] = <<>> /\ Len(buf2[u]) = 0
      BY <2>2
    <3>2. (\E i \in 1 .. M : b[i] = <<t, n>>) <=> n \in ln[t] - M + 1 .. ln[t]
      <4>1. ASSUME NEW i \in 1 .. M, b[i] = <<t, n>>
            PROVE  n \in ln[t] - M + 1 .. ln[t]
        <5>1. n = ln[t] - M + i
          BY <1>3, <4>1
        <5> HIDE DEF M, b
        <5> QED
          BY <1>1, <1>3, <5>1
      <4>2. ASSUME n \in ln[t] - M + 1 .. ln[t]
            PROVE  \E i \in 1 .. M : b[i] = <<t, n>>
        <5> DEFINE i == n - (ln[t] - M)
        <5> HIDE DEF M, b
        <5>1. i \in 1 .. M /\ ln[t] - M + i = n
          BY <1>1, <1>3, <4>2
        <5> HIDE DEF i
        <5> QED
          BY <1>3, <5>1
      <4> QED
        BY <4>1, <4>2
    <3>3. (\E i \in 1 .. N : full[i] = <<t, n>>) <=> 1 <= n /\ n + M <= ln[t]
      BY <1>5
    <3>4. (1 <= n /\ n + M <= ln[t]) \/ n \in ln[t] - M + 1 .. ln[t] <=> 1 <= n /\ n + 0 <= ln[t]
      <4> HIDE DEF M
      <4> QED
        BY <1>1, <1>3
    <3> HIDE DEF M, N, b, new, buf2
    <3> QED
      BY <2>0, <2>2, <3>1, <3>2, <3>3, <3>4
  <2> QED
    BY <2>1, <2>2
<1>9. Buffered(buf2, ln)
  <2> SUFFICES ASSUME NEW u \in Task
               PROVE  /\ Len(buf2[u]) <= ln[u]
                      /\ \A i \in 1 .. Len(buf2[u]) : buf2[u][i] = <<u, ln[u] - Len(buf2[u]) + i>>
    BY DEF Buffered
  <2>1. CASE u = t
    <3>1. Len(buf2[u]) = 0 /\ 1 .. 0 = {} /\ ln[u] \in Nat
      BY <2>1
    <3> HIDE DEF buf2
    <3> QED
      BY <3>1
  <2>2. CASE u # t
    <3>1. buf2[u] = buf[u]
      BY <2>2
    <3> QED
      BY <3>1 DEF LinesOK, Buffered
  <2> QED
    BY <2>1, <2>2
<1> HIDE DEF new, buf2
<1>10. LinesOK(new, buf2, ln)
  BY <1>7, <1>8, <1>9 DEF LinesOK
<1> QED
  BY <1>10 DEF new, buf2

(* A new line kept in the buffer of its task.                              *)
LEMMA BufferLine ==
    ASSUME NEW full \in Seq(Line), NEW buf \in [Task -> Seq(Line)], NEW ln \in [Task -> Nat],
           LinesOK(full, buf, ln), NEW t \in Task
    PROVE  LinesOK(full, [buf EXCEPT ![t] = Append(@, <<t, ln[t] + 1>>)], [ln EXCEPT ![t] = @ + 1])
<1> DEFINE x == <<t, ln[t] + 1>>
           M == Len(buf[t])
           buf2 == [buf EXCEPT ![t] = Append(@, x)]
           ln2 == [ln EXCEPT ![t] = @ + 1]
<1>1. x \in Line /\ ln[t] \in Nat
  BY DEF Line
<1>2. /\ buf2[t] = Append(buf[t], x) /\ ln2[t] = ln[t] + 1
      /\ \A u \in Task \ {t} : buf2[u] = buf[u] /\ ln2[u] = ln[u]
  OBVIOUS
<1>3. /\ M \in Nat /\ Len(buf2[t]) = M + 1
      /\ \A i \in 1 .. M : buf2[t][i] = buf[t][i]
      /\ buf2[t][M + 1] = x
  BY <1>1, <1>2, LenProperties, AppendProperties
<1>4. M <= ln[t] /\ \A i \in 1 .. M : buf[t][i] = <<t, ln[t] - M + i>>
  BY DEF LinesOK, Buffered
<1> HIDE DEF buf2, ln2, M
<1>5. Increasing(full)
  BY DEF LinesOK
<1>6. Shown(full, buf2, ln2)
  <2> SUFFICES ASSUME NEW u \in Task, NEW n \in Nat
               PROVE  (\E i \in DOMAIN full : full[i] = <<u, n>>) <=> 1 <= n /\ n + Len(buf2[u]) <= ln2[u]
    BY DEF Shown
  <2>1. (\E i \in DOMAIN full : full[i] = <<u, n>>) <=> 1 <= n /\ n + Len(buf[u]) <= ln[u]
    BY DEF LinesOK, Shown
  <2>2. n + Len(buf[u]) <= ln[u] <=> n + Len(buf2[u]) <= ln2[u]
    <3>1. CASE u = t
      <4>1. n + M <= ln[t] <=> n + (M + 1) <= ln[t] + 1
        BY <1>1, <1>3
      <4> QED
        BY <1>2, <1>3, <3>1, <4>1 DEF M
    <3>2. CASE u # t
      BY <1>2, <3>2
    <3> QED
      BY <3>1, <3>2
  <2> QED
    BY <2>1, <2>2
<1>7. Buffered(buf2, ln2)
  <2> SUFFICES ASSUME NEW u \in Task
               PROVE  /\ Len(buf2[u]) <= ln2[u]
                      /\ \A i \in 1 .. Len(buf2[u]) : buf2[u][i] = <<u, ln2[u] - Len(buf2[u]) + i>>
    BY DEF Buffered
  <2>1. CASE u = t
    <3>1. M + 1 <= ln[t] + 1
      BY <1>1, <1>3, <1>4
    <3>2. ASSUME NEW i \in 1 .. M + 1
          PROVE  buf2[t][i] = <<t, (ln[t] + 1) - (M + 1) + i>>
      <4>1. CASE i \in 1 .. M
        <5>1. ln[t] - M + i = (ln[t] + 1) - (M + 1) + i
          BY <1>1, <1>3
        <5> QED
          BY <1>3, <1>4, <4>1, <5>1
      <4>2. CASE i \notin 1 .. M
        <5>1. i = M + 1 /\ ln[t] + 1 = (ln[t] + 1) - (M + 1) + i
          BY <1>1, <1>3, <4>2
        <5> QED
          BY <1>3, <5>1
      <4> QED
        BY <4>1, <4>2
    <3> QED
      BY <1>2, <1>3, <2>1, <3>1, <3>2
  <2>2. CASE u # t
    <3>1. buf2[u] = buf[u] /\ ln2[u] = ln[u]
      BY <1>2, <2>2
    <3> QED
      BY <3>1 DEF LinesOK, Buffered
  <2> QED
    BY <2>1, <2>2
<1>8. LinesOK(full, buf2, ln2)
  BY <1>5, <1>6, <1>7 DEF LinesOK
<1> QED
  BY <1>8 DEF buf2, ln2

(* A new line printed at once, when its task has nothing buffered.         *)
LEMMA PrintedLine ==
    ASSUME NEW full \in Seq(Line), NEW buf \in [Task -> Seq(Line)], NEW ln \in [Task -> Nat],
           LinesOK(full, buf, ln), NEW t \in Task, buf[t] = <<>>
    PROVE  LinesOK(Append(full, <<t, ln[t] + 1>>), buf, [ln EXCEPT ![t] = @ + 1])
<1> DEFINE x == <<t, ln[t] + 1>>
           buf1 == [buf EXCEPT ![t] = Append(@, x)]
           buf2 == [buf1 EXCEPT ![t] = <<>>]
           ln2 == [ln EXCEPT ![t] = @ + 1]
<1>1. x \in Line /\ ln2 \in [Task -> Nat]
  BY DEF Line
<1>2. buf1 \in [Task -> Seq(Line)] /\ buf1[t] = <<x>>
  BY <1>1
<1>3. LinesOK(full, buf1, ln2)
  BY BufferLine
<1>4. LinesOK(full \o buf1[t], buf2, ln2)
  <2> HIDE DEF buf1, ln2
  <2> QED
    BY <1>1, <1>2, <1>3, EmitLines
<1>5. buf2 = buf
  OBVIOUS
<1>6. full \o <<x>> = Append(full, x)
  BY <1>1, AppendIsConcat
<1> HIDE DEF buf1, buf2, ln2
<1>7. LinesOK(Append(full, x), buf, ln2)
  BY <1>2, <1>4, <1>5, <1>6
<1> QED
  BY <1>7 DEF ln2

-----------------------------------------------------------------------------
(***************************************************************************)
(* The slots: taking one out, putting one in.                              *)
(***************************************************************************)

(* A slot taken out: the others keep their order.                          *)
LEMMA RemoveAtProperties ==
    ASSUME NEW s \in Seq(Task), IsInjective(s), NEW i \in 1 .. Len(s)
    PROVE  /\ RemoveAt(s, i) \in Seq(Task)
           /\ Len(RemoveAt(s, i)) = Len(s) - 1
           /\ \A j \in 1 .. Len(s) - 1 : RemoveAt(s, i)[j] = IF j < i THEN s[j] ELSE s[j + 1]
           /\ IsInjective(RemoveAt(s, i))
           /\ ToSet(RemoveAt(s, i)) = ToSet(s) \ {s[i]}
<1> DEFINE n == Len(s)
           a == SubSeq(s, 1, i - 1)
           b == SubSeq(s, i + 1, n)
           r == RemoveAt(s, i)
<1>1. n \in Nat /\ DOMAIN s = 1 .. n /\ \A j \in 1 .. n : s[j] \in Task
  BY LenProperties, ElementOfSeq
<1>2. \A x, y \in 1 .. n : s[x] = s[y] => x = y
  BY <1>1 DEF IsInjective
<1> HIDE DEF n
<1>3. /\ a \in Seq(Task) /\ Len(a) = i - 1
      /\ \A j \in 1 .. i - 1 : a[j] = s[j]
  <2>1. i \in 1 .. n /\ 1 \in Int /\ i - 1 \in Int /\ \A j \in 1 .. i - 1 : s[j] \in Task
    BY <1>1 DEF n
  <2>2. /\ a \in Seq(Task) /\ Len(a) = IF 1 <= i - 1 THEN (i - 1) - 1 + 1 ELSE 0
        /\ \A j \in 1 .. (i - 1) - 1 + 1 : a[j] = s[1 + j - 1]
    BY <2>1, SubSeqProperties
  <2>3. \A j \in 1 .. i - 1 : j \in 1 .. (i - 1) - 1 + 1 /\ 1 + j - 1 = j
    BY <2>1
  <2>4. (IF 1 <= i - 1 THEN (i - 1) - 1 + 1 ELSE 0) = i - 1
    BY <1>1, <2>1
  <2> QED
    BY <2>2, <2>3, <2>4
<1>4. /\ b \in Seq(Task) /\ Len(b) = n - i
      /\ \A j \in 1 .. n - i : b[j] = s[i + j]
  <2>1. i \in 1 .. n /\ i + 1 \in Int /\ n \in Int /\ \A j \in i + 1 .. n : s[j] \in Task
    BY <1>1 DEF n
  <2>2. /\ b \in Seq(Task) /\ Len(b) = IF i + 1 <= n THEN n - (i + 1) + 1 ELSE 0
        /\ \A j \in 1 .. n - (i + 1) + 1 : b[j] = s[(i + 1) + j - 1]
    BY <2>1, SubSeqProperties
  <2>3. \A j \in 1 .. n - i : j \in 1 .. n - (i + 1) + 1 /\ (i + 1) + j - 1 = i + j
    BY <1>1, <2>1
  <2>4. (IF i + 1 <= n THEN n - (i + 1) + 1 ELSE 0) = n - i
    BY <1>1, <2>1
  <2> QED
    BY <2>2, <2>3, <2>4
<1>5. r = a \o b
  BY DEF RemoveAt, n
<1> HIDE DEF a, b, r
<1>6. i \in 1 .. n
  BY DEF n
<1>7. /\ r \in Seq(Task) /\ Len(r) = n - 1 /\ DOMAIN r = 1 .. n - 1
      /\ \A j \in 1 .. n - 1 : r[j] = IF j < i THEN s[j] ELSE s[j + 1]
  <2>1. /\ r \in Seq(Task) /\ Len(r) = (i - 1) + (n - i)
        /\ \A j \in 1 .. (i - 1) + (n - i) : r[j] = IF j <= i - 1 THEN a[j] ELSE b[j - (i - 1)]
    BY <1>3, <1>4, <1>5, ConcatProperties
  <2>2. (i - 1) + (n - i) = n - 1
    BY <1>1, <1>6
  <2>3. ASSUME NEW j \in 1 .. n - 1
        PROVE  r[j] = IF j < i THEN s[j] ELSE s[j + 1]
    <3>1. CASE j < i
      <4>1. j <= i - 1 /\ j \in 1 .. i - 1
        BY <1>1, <1>6, <3>1
      <4> QED
        BY <1>3, <2>1, <2>2, <3>1, <4>1
    <3>2. CASE ~(j < i)
      <4>1. ~(j <= i - 1) /\ j - (i - 1) \in 1 .. n - i /\ i + (j - (i - 1)) = j + 1
        BY <1>1, <1>6, <3>2
      <4> QED
        BY <1>4, <2>1, <2>2, <3>2, <4>1
    <3> QED
      BY <3>1, <3>2
  <2>4. DOMAIN r = 1 .. Len(r)
    BY <2>1, LenProperties
  <2> QED
    BY <2>1, <2>2, <2>3, <2>4
<1>8. IsInjective(r)
  <2> SUFFICES ASSUME NEW x \in 1 .. n - 1, NEW y \in 1 .. n - 1, r[x] = r[y]
               PROVE  x = y
    BY <1>7 DEF IsInjective
  <2> DEFINE up(j) == IF j < i THEN j ELSE j + 1
  <2>1. up(x) \in 1 .. n /\ up(y) \in 1 .. n
    BY <1>1, <1>6
  <2>2. r[x] = s[up(x)] /\ r[y] = s[up(y)]
    BY <1>7
  <2>3. up(x) = up(y)
    <3> HIDE DEF up
    <3> QED
      BY <1>2, <2>1, <2>2
  <2> QED
    BY <1>1, <1>6, <2>3
<1>9. ASSUME NEW x
      PROVE  x \in ToSet(r) <=> x \in ToSet(s) /\ x # s[i]
  <2>1. x \in ToSet(r) <=> \E j \in 1 .. n - 1 : r[j] = x
    BY <1>7, InToSet
  <2>2. x \in ToSet(s) <=> \E j \in 1 .. n : s[j] = x
    BY InToSet DEF n
  <2>3. ASSUME NEW j \in 1 .. n - 1, r[j] = x
        PROVE  \E m \in 1 .. n : s[m] = x /\ m # i
    <3>1. CASE j < i
      <4>1. j \in 1 .. n /\ j # i
        BY <1>1, <1>6, <3>1
      <4> QED
        BY <1>7, <2>3, <3>1, <4>1
    <3>2. CASE ~(j < i)
      <4>1. j + 1 \in 1 .. n /\ j + 1 # i
        BY <1>1, <1>6, <3>2
      <4> QED
        BY <1>7, <2>3, <3>2, <4>1
    <3> QED
      BY <3>1, <3>2
  <2>4. ASSUME NEW m \in 1 .. n, s[m] = x, m # i
        PROVE  \E j \in 1 .. n - 1 : r[j] = x
    <3>1. CASE m < i
      <4>1. m \in 1 .. n - 1
        BY <1>1, <1>6, <3>1
      <4> QED
        BY <1>7, <2>4, <3>1, <4>1
    <3>2. CASE ~(m < i)
      <4>1. m - 1 \in 1 .. n - 1 /\ ~(m - 1 < i) /\ (m - 1) + 1 = m
        BY <1>1, <1>6, <2>4, <3>2
      <4> QED
        BY <1>7, <2>4, <4>1
    <3> QED
      BY <3>1, <3>2
  <2> QED
    BY <1>2, <1>6, <2>1, <2>2, <2>3, <2>4
<1>10. ToSet(r) = ToSet(s) \ {s[i]}
  BY <1>9
<1> QED
  BY <1>7, <1>8, <1>10 DEF r, n

(* A slot put in: the others keep their order.                             *)
LEMMA InsertAtProperties ==
    ASSUME NEW s \in Seq(Task), IsInjective(s), NEW i \in 1 .. Len(s) + 1, NEW e \in Task,
           e \notin ToSet(s)
    PROVE  /\ InsertAt(s, i, e) \in Seq(Task)
           /\ Len(InsertAt(s, i, e)) = Len(s) + 1
           /\ \A j \in 1 .. Len(s) + 1 : InsertAt(s, i, e)[j] =
                 IF j < i THEN s[j] ELSE IF j = i THEN e ELSE s[j - 1]
           /\ IsInjective(InsertAt(s, i, e))
           /\ ToSet(InsertAt(s, i, e)) = ToSet(s) \cup {e}
<1> DEFINE n == Len(s)
           a == SubSeq(s, 1, i - 1)
           b == SubSeq(s, i, n)
           r == InsertAt(s, i, e)
<1>1. n \in Nat /\ DOMAIN s = 1 .. n /\ \A j \in 1 .. n : s[j] \in Task
  BY LenProperties, ElementOfSeq
<1>2. \A x, y \in 1 .. n : s[x] = s[y] => x = y
  BY <1>1 DEF IsInjective
<1>0. \A j \in 1 .. n : s[j] # e
  BY InToSet
<1> HIDE DEF n
<1>6. i \in 1 .. n + 1
  BY DEF n
<1>3. /\ a \in Seq(Task) /\ Len(a) = i - 1
      /\ \A j \in 1 .. i - 1 : a[j] = s[j]
  <2>1. 1 \in Int /\ i - 1 \in Int /\ \A j \in 1 .. i - 1 : s[j] \in Task
    BY <1>1, <1>6
  <2>2. /\ a \in Seq(Task) /\ Len(a) = IF 1 <= i - 1 THEN (i - 1) - 1 + 1 ELSE 0
        /\ \A j \in 1 .. (i - 1) - 1 + 1 : a[j] = s[1 + j - 1]
    BY <2>1, SubSeqProperties
  <2>3. \A j \in 1 .. i - 1 : j \in 1 .. (i - 1) - 1 + 1 /\ 1 + j - 1 = j
    BY <1>6
  <2>4. (IF 1 <= i - 1 THEN (i - 1) - 1 + 1 ELSE 0) = i - 1
    BY <1>1, <1>6
  <2> QED
    BY <2>2, <2>3, <2>4
<1>4. /\ b \in Seq(Task) /\ Len(b) = n + 1 - i
      /\ \A j \in 1 .. n + 1 - i : b[j] = s[i + j - 1]
  <2>1. i \in Int /\ n \in Int /\ \A j \in i .. n : s[j] \in Task
    BY <1>1, <1>6
  <2>2. /\ b \in Seq(Task) /\ Len(b) = IF i <= n THEN n - i + 1 ELSE 0
        /\ \A j \in 1 .. n - i + 1 : b[j] = s[i + j - 1]
    BY <2>1, SubSeqProperties
  <2>3. \A j \in 1 .. n + 1 - i : j \in 1 .. n - i + 1
    BY <1>1, <1>6
  <2>4. (IF i <= n THEN n - i + 1 ELSE 0) = n + 1 - i
    BY <1>1, <1>6
  <2> QED
    BY <2>2, <2>3, <2>4
<1> DEFINE one == <<e>>
           ae == a \o one
<1>5. r = ae \o b
  BY DEF InsertAt, n
<1> HIDE DEF a, b, r
<1>11. /\ ae \in Seq(Task) /\ Len(ae) = i
       /\ \A j \in 1 .. i - 1 : ae[j] = s[j]
       /\ ae[i] = e
  <2>1. one \in Seq(Task) /\ Len(one) = 1 /\ one[1] = e
    OBVIOUS
  <2> HIDE DEF one
  <2>2. /\ ae \in Seq(Task) /\ Len(ae) = (i - 1) + 1
        /\ \A j \in 1 .. (i - 1) + 1 : ae[j] = IF j <= i - 1 THEN a[j] ELSE one[j - (i - 1)]
    <3>1. /\ ae \in Seq(Task) /\ Len(ae) = Len(a) + Len(one)
          /\ \A j \in 1 .. Len(a) + Len(one) : ae[j] = IF j <= Len(a) THEN a[j] ELSE one[j - Len(a)]
      BY <1>3, <2>1, ConcatProperties
    <3> HIDE DEF ae
    <3> QED
      BY <1>3, <2>1, <3>1
  <2> HIDE DEF ae
  <2>3. (i - 1) + 1 = i /\ i - (i - 1) = 1 /\ ~(i <= i - 1) /\ i \in 1 .. i
    BY <1>6
  <2>4. \A j \in 1 .. i - 1 : j \in 1 .. i /\ j <= i - 1
    BY <1>6
  <2> QED
    BY <1>3, <2>1, <2>2, <2>3, <2>4
<1> HIDE DEF ae
<1>7. /\ r \in Seq(Task) /\ Len(r) = n + 1 /\ DOMAIN r = 1 .. n + 1
      /\ \A j \in 1 .. n + 1 : r[j] = IF j < i THEN s[j] ELSE IF j = i THEN e ELSE s[j - 1]
  <2>1. /\ r \in Seq(Task) /\ Len(r) = i + (n + 1 - i)
        /\ \A j \in 1 .. i + (n + 1 - i) : r[j] = IF j <= i THEN ae[j] ELSE b[j - i]
    <3>1. /\ r \in Seq(Task) /\ Len(r) = Len(ae) + Len(b)
          /\ \A j \in 1 .. Len(ae) + Len(b) : r[j] = IF j <= Len(ae) THEN ae[j] ELSE b[j - Len(ae)]
      BY <1>4, <1>5, <1>11, ConcatProperties
    <3> QED
      BY <1>4, <1>11, <3>1
  <2>2. i + (n + 1 - i) = n + 1
    BY <1>1, <1>6
  <2>3. ASSUME NEW j \in 1 .. n + 1
        PROVE  r[j] = IF j < i THEN s[j] ELSE IF j = i THEN e ELSE s[j - 1]
    <3>1. CASE j < i
      <4>1. j <= i /\ j \in 1 .. i - 1
        BY <1>1, <1>6, <3>1
      <4> QED
        BY <1>11, <2>1, <2>2, <3>1, <4>1
    <3>2. CASE j = i
      <4>1. j <= i /\ ~(j < i)
        BY <1>1, <1>6, <3>2
      <4> QED
        BY <1>11, <2>1, <2>2, <3>2, <4>1
    <3>3. CASE ~(j < i) /\ j # i
      <4>1. ~(j <= i) /\ j - i \in 1 .. n + 1 - i /\ i + (j - i) - 1 = j - 1
        BY <1>1, <1>6, <3>3
      <4> QED
        BY <1>4, <2>1, <2>2, <3>3, <4>1
    <3> QED
      BY <3>1, <3>2, <3>3
  <2>4. DOMAIN r = 1 .. Len(r)
    BY <2>1, LenProperties
  <2> QED
    BY <2>1, <2>2, <2>3, <2>4
<1>8. IsInjective(r)
  <2> SUFFICES ASSUME NEW x \in 1 .. n + 1, NEW y \in 1 .. n + 1, r[x] = r[y]
               PROVE  x = y
    BY <1>7 DEF IsInjective
  <2> DEFINE down(j) == IF j < i THEN j ELSE j - 1
  <2>1. /\ x # i => down(x) \in 1 .. n /\ r[x] = s[down(x)]
        /\ y # i => down(y) \in 1 .. n /\ r[y] = s[down(y)]
    BY <1>1, <1>6, <1>7
  <2>2. (x = i => r[x] = e) /\ (y = i => r[y] = e)
    BY <1>6, <1>7
  <2>3. CASE x # i /\ y # i
    <3>1. down(x) = down(y)
      <4> HIDE DEF down
      <4> QED
        BY <1>2, <2>1, <2>3
    <3> QED
      BY <1>1, <1>6, <2>3, <3>1
  <2>4. CASE x = i \/ y = i
    <3> HIDE DEF down
    <3> QED
      BY <1>0, <2>1, <2>2, <2>4
  <2> QED
    BY <2>3, <2>4
<1>9. ASSUME NEW x
      PROVE  x \in ToSet(r) <=> x \in ToSet(s) \/ x = e
  <2>1. x \in ToSet(r) <=> \E j \in 1 .. n + 1 : r[j] = x
    BY <1>7, InToSet
  <2>2. x \in ToSet(s) <=> \E j \in 1 .. n : s[j] = x
    BY InToSet DEF n
  <2>3. ASSUME NEW j \in 1 .. n + 1, r[j] = x, x # e
        PROVE  \E m \in 1 .. n : s[m] = x
    <3>1. CASE j < i
      <4>1. j \in 1 .. n
        BY <1>1, <1>6, <3>1
      <4> QED
        BY <1>7, <2>3, <3>1, <4>1
    <3>2. CASE ~(j < i)
      <4>1. j # i
        BY <1>7, <2>3, <3>2
      <4>2. j - 1 \in 1 .. n
        BY <1>1, <1>6, <3>2, <4>1
      <4> QED
        BY <1>7, <2>3, <3>2, <4>1, <4>2
    <3> QED
      BY <3>1, <3>2
  <2>4. ASSUME NEW m \in 1 .. n, s[m] = x
        PROVE  \E j \in 1 .. n + 1 : r[j] = x
    <3>1. CASE m < i
      <4>1. m \in 1 .. n + 1
        BY <1>1, <1>6, <3>1
      <4> QED
        BY <1>7, <2>4, <3>1, <4>1
    <3>2. CASE ~(m < i)
      <4>1. m + 1 \in 1 .. n + 1 /\ ~(m + 1 < i) /\ m + 1 # i /\ (m + 1) - 1 = m
        BY <1>1, <1>6, <3>2
      <4> QED
        BY <1>7, <2>4, <4>1
    <3> QED
      BY <3>1, <3>2
  <2>5. i \in 1 .. n + 1 /\ r[i] = e
    BY <1>6, <1>7
  <2> QED
    BY <2>1, <2>2, <2>3, <2>4, <2>5
<1>10. ToSet(r) = ToSet(s) \cup {e}
  BY <1>9
<1> QED
  BY <1>7, <1>8, <1>10 DEF r, n

-----------------------------------------------------------------------------
(***************************************************************************)
(* The blocks on the terminal.                                             *)
(***************************************************************************)

IsBlock(b, t) == b \in Seq(Line) /\ \A i \in 1 .. Len(b) : b[i][1] = t

(* The terminal full with a block of the task t printed after it.          *)
LEMMA BlockAfter ==
    ASSUME NEW full \in Seq(Line), NEW t, NEW b, IsBlock(b, t)
    PROVE  /\ full \o b \in Seq(Line)
           /\ Len(full) \in Nat /\ Len(full \o b) \in Nat /\ Len(full) <= Len(full \o b)
           /\ DOMAIN full = 1 .. Len(full) /\ DOMAIN (full \o b) = 1 .. Len(full \o b)
           /\ \A i \in 1 .. Len(full) : (full \o b)[i] = full[i]
           /\ \A i \in 1 .. Len(full \o b) : i > Len(full) => (full \o b)[i][1] = t
<1> DEFINE N == Len(full)
           M == Len(b)
           new == full \o b
<1>1. b \in Seq(Line) /\ \A i \in 1 .. M : b[i][1] = t
  BY DEF IsBlock
<1>2. /\ new \in Seq(Line) /\ N \in Nat /\ M \in Nat /\ Len(new) = N + M
      /\ DOMAIN full = 1 .. N /\ DOMAIN new = 1 .. Len(new)
      /\ \A i \in 1 .. N + M : new[i] = IF i <= N THEN full[i] ELSE b[i - N]
  BY <1>1, LenProperties, ConcatProperties
<1> HIDE DEF N, M, new
<1>3. ASSUME NEW i \in 1 .. N + M, i > N
      PROVE  new[i][1] = t
  <2>1. i - N \in 1 .. M /\ ~(i <= N)
    BY <1>2, <1>3
  <2> QED
    BY <1>1, <1>2, <2>1
<1>4. \A i \in 1 .. N : new[i] = full[i]
  <2> SUFFICES ASSUME NEW i \in 1 .. N PROVE new[i] = full[i]
    OBVIOUS
  <2>1. i \in 1 .. N + M /\ i <= N
    BY <1>2
  <2> QED
    BY <1>2, <2>1
<1>5. N <= Len(new) /\ Len(new) \in Nat
  BY <1>2
<1> QED
  BY <1>2, <1>3, <1>4, <1>5 DEF N, M, new

(* The lines of the task t on the terminal, if any, are exempt or its end. *)
LastIs(full, t, exempt) ==
    \A i \in DOMAIN full : full[i][1] = t =>
        t \in exempt \/ \A j \in i .. Len(full) : full[j][1] = t

(* A block printed after the end of the lines of its task breaks no block. *)
LEMMA EmitUnbroken ==
    ASSUME NEW full \in Seq(Line), NEW t, NEW b, IsBlock(b, t), NEW exempt,
           Unbroken(full, exempt), LastIs(full, t, exempt)
    PROVE  Unbroken(full \o b, exempt)
<1> DEFINE N == Len(full)
           new == full \o b
<1>1. /\ N \in Nat /\ Len(new) \in Nat /\ N <= Len(new)
      /\ DOMAIN full = 1 .. N /\ DOMAIN new = 1 .. Len(new)
      /\ \A i \in 1 .. N : new[i] = full[i]
      /\ \A i \in 1 .. Len(new) : i > N => new[i][1] = t
  BY BlockAfter
<1> HIDE DEF N, new
<1> SUFFICES ASSUME NEW i \in 1 .. Len(new), NEW j \in 1 .. Len(new), i + 1 < j,
                    new[i][1] = new[j][1], new[i + 1][1] # new[i][1]
             PROVE  new[i][1] \in exempt
  BY <1>1 DEF Unbroken, new
<1>2. i + 1 \in 1 .. Len(new)
  BY <1>1
<1>3. CASE j <= N
  <2>1. i \in 1 .. N /\ j \in 1 .. N /\ i + 1 \in 1 .. N
    BY <1>1, <1>3
  <2> QED
    BY <1>1, <2>1 DEF Unbroken
<1>4. CASE j > N
  <2>1. new[i][1] = t
    BY <1>1, <1>4
  <2>2. i <= N
    BY <1>1, <1>2, <2>1
  <2>3. i \in 1 .. N /\ full[i][1] = t /\ i + 1 <= N
    BY <1>1, <1>2, <2>1, <2>2
  <2>4. t \in exempt \/ full[i + 1][1] = t
    BY <1>1, <2>3 DEF LastIs, N
  <2> QED
    BY <1>1, <1>2, <2>1, <2>3, <2>4
<1> QED
  BY <1>1, <1>3, <1>4

(* A block of t printed when t is or becomes the live task.                *)
LEMMA EmitLive ==
    ASSUME NEW full \in Seq(Line), NEW t \in Task, NEW b, IsBlock(b, t), NEW exempt, NEW quiet,
           NEW k, NEW r, Ended(k, full, exempt, quiet), k.active = None \/ k.active = t,
           r.active = t, r.slots = k.slots
    PROVE  Ended(r, full \o b, exempt, quiet)
<1> DEFINE N == Len(full)
           new == full \o b
<1>1. /\ N \in Nat /\ Len(new) \in Nat /\ N <= Len(new)
      /\ DOMAIN full = 1 .. N /\ DOMAIN new = 1 .. Len(new)
      /\ \A i \in 1 .. N : new[i] = full[i]
      /\ \A i \in 1 .. Len(new) : i > N => new[i][1] = t
  BY BlockAfter
<1>0. \A i \in 1 .. N : full[i][1] \in Task
  BY ElementOfSeq, LineParts
<1> HIDE DEF new
<1> SUFFICES ASSUME NEW i \in 1 .. Len(new)
             PROVE  \/ new[i][1] \in exempt
                    \/ new[i][1] \in quiet \ Slots(r)
                    \/ new[i][1] = r.active /\ \A j \in i .. Len(new) : new[j][1] = new[i][1]
  BY <1>1 DEF Ended, new
<1>2. Slots(r) = Slots(k)
  BY DEF Slots
<1>3. CASE i <= N
  <2>1. i \in 1 .. N /\ new[i] = full[i]
    BY <1>1, <1>3
  <2>2. \/ full[i][1] \in exempt
        \/ full[i][1] \in quiet \ Slots(k)
        \/ full[i][1] = k.active /\ \A j \in i .. N : full[j][1] = full[i][1]
    BY <1>1, <2>1 DEF Ended
  <2>3. CASE full[i][1] = k.active /\ \A j \in i .. N : full[j][1] = full[i][1]
    <3>1. full[i][1] = t
      BY <1>0, <2>1, <2>3, TopAssumption DEF None
    <3> SUFFICES ASSUME NEW j \in i .. Len(new) PROVE new[j][1] = t
      BY <2>1, <3>1
    <3>2. CASE j <= N
      <4>1. j \in i .. N /\ j \in 1 .. N
        BY <1>1, <2>1, <3>2
      <4> QED
        BY <1>1, <2>3, <3>1, <4>1
    <3>3. CASE j > N
      <4>1. j \in 1 .. Len(new)
        BY <1>1
      <4> QED
        BY <1>1, <3>3, <4>1
    <3> QED
      BY <1>1, <3>2, <3>3
  <2> QED
    BY <1>2, <2>1, <2>2, <2>3
<1>4. CASE i > N
  <2>1. \A j \in i .. Len(new) : j \in 1 .. Len(new) /\ j > N
    BY <1>1, <1>4
  <2> QED
    BY <1>1, <1>4, <2>1
<1> QED
  BY <1>1, <1>3, <1>4

(* The buffer of a task is a block of it.                                  *)
LEMMA BufferIsBlock ==
    ASSUME NEW buf \in [Task -> Seq(Line)], NEW ln, Buffered(buf, ln), NEW t \in Task
    PROVE  IsBlock(buf[t], t)
BY DEF Buffered, IsBlock

-----------------------------------------------------------------------------
(***************************************************************************)
(* The operations of KeepOrderState.                                       *)
(***************************************************************************)

(* The parts of a state.                                                   *)
LEMMA KParts ==
    ASSUME NEW k \in KState
    PROVE  /\ k.slots \in Seq(Task) /\ k.buf \in [Task -> Seq(Line)]
           /\ k.active \in Task \cup {None} /\ k.finished \subseteq Task
           /\ k.injected_by \subseteq Task \X Task /\ k.done \in BOOLEAN /\ k.out \in Seq(Line)
BY DEF KState

(* The slot of a task, by its index.                                       *)
LEMMA SlotIndex ==
    ASSUME NEW k \in KState, NEW t
    PROVE  /\ HasSlot(k, t) <=> t \in Slots(k)
           /\ HasSlot(k, t) => IndexOf(k, t) \in 1 .. Len(k.slots) /\ k.slots[IndexOf(k, t)] = t
           /\ t \in Slots(k) => t \in Task /\ Len(k.slots) > 0
<1>1. k.slots \in Seq(Task) /\ Len(k.slots) \in Nat /\ DOMAIN k.slots = 1 .. Len(k.slots)
  BY KParts, LenProperties
<1>2. HasSlot(k, t) <=> t \in Slots(k)
  BY <1>1, InToSet DEF HasSlot, Slots
<1>3. t \in Slots(k) <=> \E i \in 1 .. Len(k.slots) : k.slots[i] = t
  BY <1>1, InToSet DEF Slots
<1>4. HasSlot(k, t) => IndexOf(k, t) \in 1 .. Len(k.slots) /\ k.slots[IndexOf(k, t)] = t
  BY <1>1, <1>2, <1>3 DEF IndexOf
<1>5. t \in Slots(k) => t \in Task /\ Len(k.slots) > 0
  BY <1>1, <1>3, ElementOfSeq
<1> QED
  BY <1>2, <1>4, <1>5

(* The first slot.                                                         *)
LEMMA FirstSlot ==
    ASSUME NEW s \in Seq(Task)
    PROVE  /\ s # <<>> <=> Len(s) > 0
           /\ s # <<>> => Head(s) = s[1] /\ Head(s) \in Task /\ Head(s) \in ToSet(s)
<1>1. Len(s) \in Nat /\ (s # <<>> => Len(s) > 0)
  BY LenProperties, EmptySeq
<1>2. Len(<<>>) = 0
  OBVIOUS
<1>3. s # <<>> <=> Len(s) > 0
  BY <1>1, <1>2
<1>4. s # <<>> => Head(s) = s[1] /\ 1 \in 1 .. Len(s) /\ s[1] \in Task
  BY <1>1, ElementOfSeq
<1> QED
  BY <1>3, <1>4, InToSet

(* What Retire does to each part of the state.                             *)
LEMMA RetireParts ==
    ASSUME NEW k \in KState, IsInjective(k.slots), NEW t \in Task, HasSlot(k, t)
    PROVE  /\ Retire(k, t) \in KState
           /\ Retire(k, t).slots = RemoveAt(k.slots, IndexOf(k, t))
           /\ IsInjective(Retire(k, t).slots)
           /\ Slots(Retire(k, t)) = Slots(k) \ {t}
           /\ Retire(k, t).buf = [k.buf EXCEPT ![t] = <<>>]
           /\ Retire(k, t).out = k.out \o k.buf[t]
           /\ Retire(k, t).active = k.active
           /\ Retire(k, t).finished = k.finished
           /\ Retire(k, t).done = k.done
<1> DEFINE i == IndexOf(k, t)
           r == Retire(k, t)
<1>1. i \in 1 .. Len(k.slots) /\ k.slots[i] = t /\ k.slots \in Seq(Task)
  BY SlotIndex, KParts
<1> HIDE DEF i
<1>2. /\ RemoveAt(k.slots, i) \in Seq(Task) /\ IsInjective(RemoveAt(k.slots, i))
      /\ ToSet(RemoveAt(k.slots, i)) = ToSet(k.slots) \ {t}
  BY <1>1, RemoveAtProperties
<1>3. k.out \o k.buf[t] \in Seq(Line) /\ [k.buf EXCEPT ![t] = <<>>] \in [Task -> Seq(Line)]
  BY KParts, ConcatProperties
<1>4. /\ r.slots = RemoveAt(k.slots, i) /\ r.buf = [k.buf EXCEPT ![t] = <<>>]
      /\ r.out = k.out \o k.buf[t] /\ r.active = k.active /\ r.finished = k.finished
      /\ r.done = k.done /\ r.injected_by = k.injected_by
  BY DEF Retire, KState, i
<1>5. r \in KState
  <2> DEFINE s2 == RemoveAt(k.slots, i)
             b2 == [k.buf EXCEPT ![t] = <<>>]
             o2 == k.out \o k.buf[t]
  <2>1. r = [k EXCEPT !.out = o2, !.buf = b2, !.slots = s2]
    BY DEF Retire, KState, i
  <2>2. s2 \in Seq(Task) /\ b2 \in [Task -> Seq(Line)] /\ o2 \in Seq(Line)
    BY <1>2, <1>3
  <2> HIDE DEF r, s2, b2, o2
  <2> QED
    BY <2>1, <2>2 DEF KState
<1>6. Slots(r) = Slots(k) \ {t}
  BY <1>2, <1>4 DEF Slots
<1> QED
  BY <1>2, <1>4, <1>5, <1>6 DEF i

(* The terminal, when an operation prints b.                               *)
LEMMA FullEmit ==
    ASSUME NEW k \in KState, NEW c \in Context, NEW b \in Seq(Line),
           NEW r, r.out = k.out \o b
    PROVE  /\ Full(k, c) \in Seq(Line)
           /\ Full(r, c) = Full(k, c) \o b
<1> DEFINE p == c.pr
           o == k.out
<1>1. c.pr \in Seq(Line) /\ k.out \in Seq(Line)
  BY KParts DEF Context
<1>2. Full(k, c) = p \o o /\ Full(r, c) = p \o (o \o b) /\ p \in Seq(Line) /\ o \in Seq(Line)
  BY <1>1 DEF Full
<1> HIDE DEF p, o
<1>3. (p \o o) \o b = p \o (o \o b)
  BY <1>2, ConcatAssociative
<1>4. p \o o \in Seq(Line)
  BY <1>2, ConcatProperties
<1> QED
  BY <1>2, <1>3, <1>4

(* A task whose slot goes, when no other task is live, ends its block.     *)
LEMMA RetireBlocks ==
    ASSUME NEW full \in Seq(Line), NEW t \in Task, NEW b, IsBlock(b, t), NEW exempt, NEW quiet,
           NEW k, NEW r, BlocksOK(k, full, exempt, quiet), k.active = None \/ k.active = t,
           t \in Slots(k), Slots(r) = Slots(k) \ {t}
    PROVE  BlocksOK(r, full \o b, exempt, quiet)
<1> DEFINE N == Len(full)
           new == full \o b
<1>1. /\ N \in Nat /\ Len(new) \in Nat /\ N <= Len(new)
      /\ DOMAIN full = 1 .. N /\ DOMAIN new = 1 .. Len(new)
      /\ \A i \in 1 .. N : new[i] = full[i]
      /\ \A i \in 1 .. Len(new) : i > N => new[i][1] = t
  BY BlockAfter
<1>2. \A i \in 1 .. N : full[i][1] \in Task
  BY ElementOfSeq, LineParts
<1>3. \A i \in 1 .. N :
          \/ full[i][1] \in exempt
          \/ full[i][1] \in quiet \ Slots(k)
          \/ full[i][1] = t /\ \A j \in i .. N : full[j][1] = t
  <2> HIDE DEF N
  <2> TAKE i \in 1 .. N
  <2>1. \/ full[i][1] \in exempt
        \/ full[i][1] \in quiet \ Slots(k)
        \/ full[i][1] = k.active /\ \A j \in i .. N : full[j][1] = full[i][1]
    BY <1>1 DEF BlocksOK, Ended, N
  <2>2. full[i][1] \in Task /\ None \notin Task
    BY <1>2, TopAssumption DEF None
  <2>3. ASSUME full[i][1] = k.active, \A j \in i .. N : full[j][1] = full[i][1]
        PROVE  full[i][1] = t /\ \A j \in i .. N : full[j][1] = t
    <3>1. full[i][1] = t
      BY <2>2, <2>3
    <3> QED
      BY <2>3, <3>1
  <2> QED
    BY <2>1, <2>3
<1>4. Unbroken(new, exempt)
  <2>1. LastIs(full, t, exempt)
    BY <1>1, <1>3 DEF LastIs
  <2>2. Unbroken(full, exempt)
    BY DEF BlocksOK
  <2> QED
    BY <2>1, <2>2, EmitUnbroken
<1> HIDE DEF new, N
<1>5. Ended(r, new, exempt, quiet)
  <2> SUFFICES ASSUME NEW i \in 1 .. Len(new)
               PROVE  new[i][1] \in exempt \/ new[i][1] \in quiet \ Slots(r)
    BY <1>1 DEF Ended
  <2>1. CASE i <= N
    <3>1. i \in 1 .. N
      BY <1>1, <2>1
    <3> QED
      BY <1>1, <1>3, <3>1 DEF BlocksOK
  <2>2. CASE i > N
    <3>1. new[i][1] = t /\ t \in quiet /\ t \notin Slots(r)
      BY <1>1, <2>2 DEF BlocksOK
    <3> QED
      BY <3>1
  <2> QED
    BY <1>1, <2>1, <2>2
<1>6. Slots(r) \subseteq quiet
  BY DEF BlocksOK
<1> QED
  BY <1>4, <1>5, <1>6 DEF BlocksOK, new

(* Retiring a slot when no other task is live.                             *)
LEMMA RetireSound ==
    ASSUME NEW k0, NEW c, NEW X, NEW Y, Sound(k0, c, X, Y), NEW t \in Task, HasSlot(k0, t),
           k0.active = None \/ k0.active = t, NEW k, k = [k0 EXCEPT !.active = None]
    PROVE  /\ Sound(Retire(k, t), c, X \ {t}, Y \ {t})
           /\ Retire(k, t).active = None /\ Retire(k, t).finished = k0.finished
           /\ Slots(Retire(k, t)) = Slots(k0) \ {t}
<1>0. k0 \in KState
  BY DEF Sound, Shape
<1>20. /\ k.slots = k0.slots /\ k.buf = k0.buf /\ k.active = None /\ k.out = k0.out
       /\ k.done = k0.done /\ k.finished = k0.finished /\ k \in KState
  BY <1>0 DEF KState
<1>21. Slots(k) = Slots(k0) /\ Full(k, c) = Full(k0, c) /\ HasSlot(k, t)
  BY <1>20 DEF Slots, Full, HasSlot
<1> DEFINE r == Retire(k, t)
           b == k.buf[t]
<1>1. /\ k \in KState /\ IsInjective(k.slots)
      /\ c \in Context /\ c.busy \subseteq c.held /\ k.done = c.done
  BY <1>20 DEF Sound, Shape
<1>2. k.buf \in [Task -> Seq(Line)] /\ c.ln \in [Task -> Nat] /\ b \in Seq(Line)
  BY <1>1, KParts DEF Context
<1>3. /\ r \in KState /\ IsInjective(r.slots) /\ Slots(r) = Slots(k) \ {t}
      /\ r.buf = [k.buf EXCEPT ![t] = <<>>] /\ r.out = k.out \o b
      /\ r.active = None /\ r.finished = k.finished /\ r.done = k.done
  BY <1>1, <1>20, <1>21, RetireParts
<1>4. t \in Slots(k)
  BY <1>1, <1>21, SlotIndex
<1> HIDE DEF r
<1>5. Full(k, c) \in Seq(Line) /\ Full(r, c) = Full(k, c) \o b
  <2>1. b \in Seq(Line) /\ r.out = k.out \o b
    BY <1>2, <1>3
  <2> HIDE DEF b
  <2> QED
    BY <1>1, <2>1, FullEmit
<1>6. /\ LinesOK(Full(k, c), k.buf, c.ln) /\ BuffersOK(k0, c.ln)
      /\ BlocksOK(k0, Full(k, c), c.exempt, c.quiet) /\ HeldOK(k0, c.held, c.busy, X, Y)
  BY <1>20, <1>21 DEF Sound
<1>7. LinesOK(Full(r, c), r.buf, c.ln)
  <2>1. LinesOK(Full(k, c) \o k.buf[t], [k.buf EXCEPT ![t] = <<>>], c.ln)
    BY <1>2, <1>5, <1>6, EmitLines
  <2> QED
    BY <1>3, <1>5, <2>1
<1>8. IsBlock(b, t)
  BY <1>2, <1>6, BufferIsBlock DEF LinesOK
<1>9. BlocksOK(r, Full(r, c), c.exempt, c.quiet)
  <2>1. t \in Slots(k0) /\ Slots(r) = Slots(k0) \ {t}
    BY <1>3, <1>4, <1>21
  <2> HIDE DEF b
  <2>2. BlocksOK(r, Full(k, c) \o b, c.exempt, c.quiet)
    BY <1>5, <1>6, <1>8, <2>1, RetireBlocks
  <2> QED
    BY <1>5, <2>2
<1>10. BuffersOK(r, c.ln)
  <2>1. \A u \in Task : r.buf[u] # <<>> => u # t /\ k.buf[u] # <<>>
    BY <1>2, <1>3
  <2> QED
    BY <1>3, <1>6, <1>20, <1>21, <2>1 DEF BuffersOK
<1>11. HeldOK(r, c.held, c.busy, X \ {t}, Y \ {t})
  <2> SUFFICES ASSUME NEW u \in Slots(r) \ r.finished
               PROVE  /\ u \in c.held \cup (X \ {t})
                      /\ r.active = u \/ r.buf[u] # <<>> => u \in c.busy \cup (Y \ {t})
    BY DEF HeldOK
  <2>1. u \in Slots(k) \ k.finished /\ u # t /\ u \in Task
    BY <1>1, <1>3, SlotIndex
  <2>2. r.active # u /\ r.buf[u] = k.buf[u]
    BY <1>2, <1>3, <2>1, TopAssumption DEF None
  <2> QED
    BY <1>6, <1>20, <1>21, <2>1, <2>2 DEF HeldOK
<1>12. Shape(r)
  BY <1>3 DEF Shape
<1>13. Sound(r, c, X \ {t}, Y \ {t})
  BY <1>1, <1>3, <1>7, <1>9, <1>10, <1>11, <1>12 DEF Sound
<1> QED
  BY <1>3, <1>13, <1>20, <1>21 DEF r

(* The task in the first slot becomes the live one.                        *)
LEMMA ActivateSound ==
    ASSUME NEW k, NEW c, NEW X, NEW Y, Sound(k, c, X, Y), k.active = None,
           k.slots # <<>>, k.buf[Head(k.slots)] # <<>>, FrontOK(k)
    PROVE  /\ Sound(Activate(k, Head(k.slots)), c, X, Y)
           /\ FrontOK(Activate(k, Head(k.slots)))
<1> DEFINE t == Head(k.slots)
           r == Activate(k, t)
           b == k.buf[t]
<1>1. /\ k \in KState /\ IsInjective(k.slots)
      /\ c \in Context /\ c.busy \subseteq c.held /\ k.done = c.done
  BY DEF Sound, Shape
<1>2. /\ k.buf \in [Task -> Seq(Line)] /\ c.ln \in [Task -> Nat]
      /\ t \in Task /\ t \in Slots(k) /\ t \notin k.finished /\ b \in Seq(Line)
  BY <1>1, KParts, FirstSlot DEF Context, Slots, FrontOK
<1>3. /\ r.active = t /\ r.slots = k.slots /\ r.buf = [k.buf EXCEPT ![t] = <<>>]
      /\ r.out = k.out \o b /\ r.finished = k.finished /\ r.done = k.done
  BY <1>1 DEF Activate, KState
<1>4. r \in KState
  <2> DEFINE b2 == [k.buf EXCEPT ![t] = <<>>]
             o2 == k.out \o b
  <2>1. r = [k EXCEPT !.active = t, !.out = o2, !.buf = b2]
    BY <1>1 DEF Activate, KState
  <2>2. b2 \in [Task -> Seq(Line)] /\ o2 \in Seq(Line)
    BY <1>1, <1>2, KParts, ConcatProperties
  <2> HIDE DEF r, b2, o2, t
  <2> QED
    BY <1>1, <1>2, <2>1, <2>2 DEF KState
<1> HIDE DEF r
<1>5. Full(k, c) \in Seq(Line) /\ Full(r, c) = Full(k, c) \o b
  <2>1. b \in Seq(Line) /\ r.out = k.out \o b
    BY <1>2, <1>3
  <2> HIDE DEF b
  <2> QED
    BY <1>1, <2>1, FullEmit
<1>6. LinesOK(Full(k, c), k.buf, c.ln) /\ BuffersOK(k, c.ln)
      /\ BlocksOK(k, Full(k, c), c.exempt, c.quiet) /\ HeldOK(k, c.held, c.busy, X, Y)
  BY DEF Sound
<1> HIDE DEF t
<1>7. LinesOK(Full(r, c), r.buf, c.ln)
  <2>1. LinesOK(Full(k, c) \o k.buf[t], [k.buf EXCEPT ![t] = <<>>], c.ln)
    BY <1>2, <1>5, <1>6, EmitLines
  <2> QED
    BY <1>3, <1>5, <2>1
<1>8. IsBlock(b, t)
  BY <1>2, <1>6, BufferIsBlock DEF LinesOK
<1>9. BlocksOK(r, Full(r, c), c.exempt, c.quiet)
  <2>1. LastIs(Full(k, c), t, c.exempt)
    BY <1>2, <1>6, TopAssumption DEF LastIs, BlocksOK, Ended, None
  <2>2. Unbroken(Full(r, c), c.exempt)
    <3> HIDE DEF b
    <3> QED
      BY <1>5, <1>6, <1>8, <2>1, EmitUnbroken DEF BlocksOK
  <2>3. Ended(r, Full(r, c), c.exempt, c.quiet)
    <3>1. Ended(k, Full(k, c), c.exempt, c.quiet)
      BY <1>6 DEF BlocksOK
    <3> HIDE DEF b
    <3> QED
      BY <1>2, <1>3, <1>5, <1>8, <3>1, EmitLive
  <2>4. Slots(r) \subseteq c.quiet
    BY <1>3, <1>6 DEF BlocksOK, Slots
  <2> QED
    BY <2>2, <2>3, <2>4 DEF BlocksOK
<1>10. BuffersOK(r, c.ln)
  <2>1. \A u \in Task : r.buf[u] # <<>> => k.buf[u] # <<>>
    BY <1>2, <1>3
  <2>2. Len(b) <= c.ln[t] /\ Len(b) > 0 /\ Len(b) \in Nat /\ c.ln[t] \in Nat
    <3>1. Len(b) <= c.ln[t] /\ c.ln[t] \in Nat
      BY <1>2, <1>6 DEF LinesOK, Buffered
    <3>2. b # <<>>
      BY DEF t
    <3>3. Len(b) \in Nat /\ Len(b) > 0
      BY <1>2, <3>2, EmptySeq
    <3> QED
      BY <3>1, <3>3
  <2>3. r.buf[t] = <<>> /\ c.ln[t] > 0
    BY <1>2, <1>3, <2>2
  <2>4. \A u \in Task : r.buf[u] # <<>> => u \in Slots(r)
    BY <1>3, <1>6, <2>1 DEF BuffersOK, Slots
  <2> QED
    BY <1>3, <2>3, <2>4 DEF BuffersOK
<1>11. HeldOK(r, c.held, c.busy, X, Y)
  <2> SUFFICES ASSUME NEW u \in Slots(r) \ r.finished
               PROVE  /\ u \in c.held \cup X
                      /\ r.active = u \/ r.buf[u] # <<>> => u \in c.busy \cup Y
    BY DEF HeldOK
  <2>1. u \in Slots(k) \ k.finished /\ u \in Task
    BY <1>1, <1>3, SlotIndex DEF Slots
  <2>2. r.active = u \/ r.buf[u] # <<>> => k.buf[u] # <<>>
    BY <1>2, <1>3, <2>1 DEF t
  <2> QED
    BY <1>6, <2>1, <2>2 DEF HeldOK
<1>12. Shape(r)
  BY <1>1, <1>3, <1>4 DEF Shape, t
<1>13. Sound(r, c, X, Y)
  BY <1>1, <1>3, <1>7, <1>9, <1>10, <1>11, <1>12 DEF Sound
<1>14. FrontOK(r)
  BY <1>3 DEF FrontOK, Slots
<1> QED
  BY <1>13, <1>14 DEF r, t

(* The exceptions may only grow.                                           *)
LEMMA SoundMonotone ==
    ASSUME NEW k, NEW c, NEW X, NEW Y, NEW X2, NEW Y2, Sound(k, c, X, Y),
           X \subseteq X2, Y \subseteq Y2
    PROVE  Sound(k, c, X2, Y2)
<1>1. HeldOK(k, c.held, c.busy, X2, Y2)
  BY DEF Sound, HeldOK
<1> QED
  BY <1>1 DEF Sound

(* The finished tasks that FlushFinished takes are the first m slots, up   *)
(* to one that is not finished.                                            *)
LEMMA FlushedPrefix ==
    ASSUME NEW k \in KState
    PROVE  \E m \in 0 .. Len(k.slots) :
              /\ FlushFinished(k) =
                    [RetireAll(k, SubSeq(k.slots, 1, m)) EXCEPT !.finished = @ \ ToSet(SubSeq(k.slots, 1, m))]
              /\ \A i \in 1 .. m : k.slots[i] \in k.finished
              /\ m < Len(k.slots) => k.slots[m + 1] \notin k.finished
<1> DEFINE n == Len(k.slots)
           I == {i \in 1 .. n : k.slots[i] \notin k.finished}
           front == IF I # {} THEN Min(I) ELSE 0
           m == IF front = 0 THEN n ELSE front - 1
           P(x) == FlushFinished(k) =
                    [RetireAll(k, SubSeq(k.slots, 1, x)) EXCEPT !.finished = @ \ ToSet(SubSeq(k.slots, 1, x))]
<1>1. n \in Nat
  BY KParts, LenProperties
<1>2. P(m)
  BY DEF FlushFinished, SelectInSeq
<1> HIDE DEF n, P
<1>3. CASE I = {}
  <2>1. m = n
    BY <1>3
  <2>2. \A i \in 1 .. n : k.slots[i] \in k.finished
    BY <1>3
  <2>3. n \in 0 .. n /\ ~(n < n)
    BY <1>1
  <2> QED
    BY <1>2, <2>1, <2>2, <2>3 DEF n, P
<1>4. CASE I # {}
  <2>1. I \subseteq Nat
    BY <1>1
  <2> DEFINE M == CHOOSE x \in I : \A y \in I : x =< y
  <2>2. PICK x \in I : \A y \in I : x <= y
    BY <1>4, <2>1, NatMin
  <2>3. M \in I /\ \A y \in I : M <= y
    <3> HIDE DEF I
    <3> QED
      BY <2>2
  <2>4. Min(I) = M
    BY DEF Min
  <2> HIDE DEF M
  <2>5. M \in 1 .. n /\ k.slots[M] \notin k.finished
    BY <2>3
  <2>6. m = M - 1 /\ M - 1 \in 0 .. n /\ (M - 1) + 1 = M
    BY <1>1, <1>4, <2>4, <2>5
  <2>7. \A i \in 1 .. M - 1 : k.slots[i] \in k.finished
    <3> SUFFICES ASSUME NEW i \in 1 .. M - 1, k.slots[i] \notin k.finished PROVE FALSE
      OBVIOUS
    <3>1. i \in 1 .. n /\ ~(M <= i)
      BY <1>1, <2>5
    <3>2. i \in I
      BY <3>1
    <3> QED
      BY <2>3, <3>1, <3>2
  <2>8. P(M - 1)
    BY <1>2, <2>6
  <2> QED
    BY <2>5, <2>6, <2>7, <2>8 DEF n, P
<1> QED
  BY <1>3, <1>4

(* Flushing the finished tasks at the front, when no task is live.         *)
LEMMA FlushSound ==
    ASSUME NEW k, NEW c, NEW X, NEW Y, Sound(k, c, X, Y), k.active = None,
           k.finished \subseteq Slots(k)
    PROVE  /\ Sound(FlushFinished(k), c, X, Y)
           /\ FlushFinished(k).active = None
           /\ FrontOK(FlushFinished(k))
           /\ k.slots = <<>> => FlushFinished(k).slots = <<>> /\ FlushFinished(k).out = k.out
<1> DEFINE n == Len(k.slots)
<1>1. /\ k \in KState /\ IsInjective(k.slots) /\ k.slots \in Seq(Task) /\ n \in Nat
      /\ DOMAIN k.slots = 1 .. n /\ \A i \in 1 .. n : k.slots[i] \in Task
  <2>1. k \in KState /\ IsInjective(k.slots)
    BY DEF Sound, Shape
  <2> QED
    BY <2>1, KParts, LenProperties, ElementOfSeq
<1>2. PICK m \in 0 .. n :
              /\ FlushFinished(k) =
                    [RetireAll(k, SubSeq(k.slots, 1, m)) EXCEPT !.finished = @ \ ToSet(SubSeq(k.slots, 1, m))]
              /\ \A i \in 1 .. m : k.slots[i] \in k.finished
              /\ m < n => k.slots[m + 1] \notin k.finished
  BY <1>1, FlushedPrefix
<1> DEFINE fl == SubSeq(k.slots, 1, m)
<1> HIDE DEF n
<1>3. /\ m \in Nat /\ m <= n /\ fl \in Seq(Task) /\ Len(fl) = m /\ DOMAIN fl = 1 .. m
      /\ \A i \in 1 .. m : fl[i] = k.slots[i]
  <2>1. m \in Nat /\ m <= n /\ 1 \in Int /\ m \in Int /\ \A i \in 1 .. m : k.slots[i] \in Task
    BY <1>1
  <2>2. /\ fl \in Seq(Task) /\ Len(fl) = IF 1 <= m THEN m - 1 + 1 ELSE 0
        /\ \A i \in 1 .. m - 1 + 1 : fl[i] = k.slots[1 + i - 1]
    BY <2>1, SubSeqProperties
  <2> HIDE DEF fl
  <2>3. m - 1 + 1 = m /\ (IF 1 <= m THEN m - 1 + 1 ELSE 0) = m /\ \A i \in 1 .. m : 1 + i - 1 = i
    BY <2>1
  <2>4. Len(fl) = m
    BY <2>2, <2>3
  <2>5. DOMAIN fl = 1 .. m
    BY <2>2, <2>4, LenProperties
  <2>6. \A i \in 1 .. m : fl[i] = k.slots[i]
    BY <2>2, <2>3
  <2> QED
    BY <2>1, <2>2, <2>4, <2>5, <2>6
<1> HIDE DEF fl
<1>4. PICK f : Retired(f, k, fl, m) /\ RetireAll(k, fl) = f[m]
  BY <1>3, FoldRetire
<1> DEFINE P(i) == /\ Sound(f[i], c, X, Y) /\ f[i].active = None /\ f[i].finished = k.finished
                   /\ Len(f[i].slots) = n - i
                   /\ \A j \in 1 .. n - i : f[i].slots[j] = k.slots[i + j]
                   /\ i = 0 => f[i].out = k.out
           Good == {i \in 0 .. m : P(i)}
<1>5. 0 \in Good
  <2>1. f[0] = k
    BY <1>4 DEF Retired
  <2>2. \A j \in 1 .. n - 0 : k.slots[j] = k.slots[0 + j]
    BY <1>1
  <2>3. P(0)
    BY <1>1, <2>1, <2>2 DEF n
  <2> HIDE DEF P
  <2> QED
    BY <1>3, <2>3
<1>6. ASSUME NEW i \in 0 .. m - 1, i \in Good
      PROVE  i + 1 \in Good
  <2> DEFINE g == f[i]
             t == k.slots[i + 1]
  <2>1. /\ Sound(g, c, X, Y) /\ g.active = None /\ g.finished = k.finished
        /\ Len(g.slots) = n - i /\ \A j \in 1 .. n - i : g.slots[j] = k.slots[i + j]
    BY <1>6
  <2>2. i \in Nat /\ i + 1 \in 1 .. m /\ i + 1 \in 0 .. m /\ (i + 1) - 1 = i /\ i + 1 \in 1 .. n
    BY <1>1, <1>3
  <2>3. f[i + 1] = Retire(g, t) /\ t \in Task
    BY <1>1, <1>3, <1>4, <2>2 DEF Retired
  <2> HIDE DEF g, t
  <2>4. g \in KState /\ IsInjective(g.slots) /\ g.slots \in Seq(Task)
    BY <2>1, KParts DEF Sound, Shape
  <2>5. 1 \in 1 .. n - i /\ g.slots[1] = t
    BY <1>1, <2>1, <2>2 DEF t
  <2>6. HasSlot(g, t)
    BY <2>1, <2>5 DEF HasSlot, Contains
  <2>7. IndexOf(g, t) = 1
    <3>1. IndexOf(g, t) \in 1 .. Len(g.slots) /\ g.slots[IndexOf(g, t)] = t
      BY <2>4, <2>6, SlotIndex
    <3>2. DOMAIN g.slots = 1 .. Len(g.slots)
      BY <2>4, LenProperties
    <3> QED
      BY <2>1, <2>4, <2>5, <3>1, <3>2 DEF IsInjective
  <2>8. /\ Retire(g, t).slots = RemoveAt(g.slots, 1)
        /\ Retire(g, t).active = None /\ Retire(g, t).finished = k.finished
    BY <2>1, <2>3, <2>4, <2>6, <2>7, RetireParts
  <2>9. /\ Len(RemoveAt(g.slots, 1)) = (n - i) - 1
        /\ \A j \in 1 .. (n - i) - 1 : RemoveAt(g.slots, 1)[j] = IF j < 1 THEN g.slots[j] ELSE g.slots[j + 1]
    <3> DEFINE q == g.slots
    <3>1. q \in Seq(Task) /\ IsInjective(q) /\ 1 \in 1 .. Len(q) /\ Len(q) = n - i
      BY <2>1, <2>4, <2>5
    <3> HIDE DEF q
    <3>2. /\ Len(RemoveAt(q, 1)) = Len(q) - 1
          /\ \A j \in 1 .. Len(q) - 1 : RemoveAt(q, 1)[j] = IF j < 1 THEN q[j] ELSE q[j + 1]
      BY <3>1, RemoveAtProperties
    <3> QED
      BY <3>1, <3>2 DEF q
  <2>10. /\ Len(RemoveAt(g.slots, 1)) = n - (i + 1)
         /\ \A j \in 1 .. n - (i + 1) : RemoveAt(g.slots, 1)[j] = k.slots[(i + 1) + j]
    <3>1. (n - i) - 1 = n - (i + 1)
      BY <1>1, <2>2
    <3> SUFFICES ASSUME NEW j \in 1 .. n - (i + 1)
                 PROVE  RemoveAt(g.slots, 1)[j] = k.slots[(i + 1) + j]
      BY <2>9, <3>1
    <3>2. ~(j < 1) /\ j + 1 \in 1 .. n - i /\ i + (j + 1) = (i + 1) + j
      BY <1>1, <2>2
    <3> QED
      BY <2>1, <2>9, <3>1, <3>2
  <2>11. Sound(Retire(g, t), c, X, Y)
    <3>0. g = [g EXCEPT !.active = None]
      BY <2>1, <2>4 DEF KState
    <3>1. Sound(Retire(g, t), c, X \ {t}, Y \ {t})
      BY <2>1, <2>3, <2>6, <3>0, RetireSound
    <3> QED
      BY <3>1, SoundMonotone
  <2>12. P(i + 1)
    <3>1. i + 1 # 0
      BY <2>2
    <3> QED
      BY <2>3, <2>8, <2>10, <2>11, <3>1
  <2> HIDE DEF P
  <2> QED
    BY <2>2, <2>12
<1>7. P(m)
  <2>1. m \in Good
    <3> HIDE DEF Good
    <3> QED
      BY <1>3, <1>5, <1>6, NatInd
  <2> HIDE DEF P
  <2> QED
    BY <2>1
<1> DEFINE g == f[m]
           r == [g EXCEPT !.finished = @ \ ToSet(fl)]
<1>8. FlushFinished(k) = r
  BY <1>2, <1>4 DEF fl
<1>9. /\ Sound(g, c, X, Y) /\ g.active = None /\ g.finished = k.finished
      /\ Len(g.slots) = n - m /\ \A j \in 1 .. n - m : g.slots[j] = k.slots[m + j]
      /\ m = 0 => g.out = k.out
  BY <1>7
<1> HIDE DEF g
<1>10. g \in KState
  BY <1>9 DEF Sound, Shape
<1>11. /\ r.slots = g.slots /\ r.buf = g.buf /\ r.active = None /\ r.out = g.out
       /\ r.done = g.done /\ r.finished = k.finished \ ToSet(fl) /\ r \in KState
  BY <1>9, <1>10 DEF KState
<1> HIDE DEF r
<1>12. Slots(r) = Slots(g) /\ Full(r, c) = Full(g, c)
  BY <1>11 DEF Slots, Full
<1>13. \A x : x \in Slots(g) <=> \E j \in 1 .. n - m : k.slots[m + j] = x
  <2>1. g.slots \in Seq(Task)
    BY <1>10, KParts
  <2> QED
    <3>1. \A x : x \in ToSet(g.slots) <=> \E j \in 1 .. Len(g.slots) : g.slots[j] = x
      BY <2>1, InToSet
    <3>2. \A x : (\E j \in 1 .. n - m : g.slots[j] = x) <=> \E j \in 1 .. n - m : k.slots[m + j] = x
      BY <1>9
    <3> QED
      BY <1>9, <3>1, <3>2 DEF Slots
<1>14. \A x : x \in ToSet(fl) <=> \E j \in 1 .. m : k.slots[j] = x
  BY <1>3, InToSet
<1>15. \A x : x \in Slots(g) => x \notin ToSet(fl)
  <2> SUFFICES ASSUME NEW j \in 1 .. n - m, NEW i \in 1 .. m, k.slots[m + j] = k.slots[i] PROVE FALSE
    BY <1>13, <1>14
  <2>1. m + j \in 1 .. n /\ i \in 1 .. n /\ m + j # i
    BY <1>1, <1>3
  <2>2. \A x, y \in 1 .. n : k.slots[x] = k.slots[y] => x = y
    BY <1>1 DEF IsInjective
  <2> QED
    BY <2>1, <2>2
<1>16. \A x : x \in Slots(k) => x \in Slots(g) \/ x \in ToSet(fl)
  <2> SUFFICES ASSUME NEW i \in 1 .. n
               PROVE  k.slots[i] \in Slots(g) \/ k.slots[i] \in ToSet(fl)
    BY <1>1, InToSet DEF Slots, n
  <2>1. CASE i <= m
    <3>1. i \in 1 .. m
      BY <1>3, <2>1
    <3> QED
      BY <1>14, <3>1
  <2>2. CASE ~(i <= m)
    <3>1. i - m \in 1 .. n - m /\ m + (i - m) = i
      BY <1>1, <1>3, <2>2
    <3> QED
      BY <1>13, <3>1
  <2> QED
    BY <2>1, <2>2
<1>17. FrontOK(r)
  <2>1. r.finished \subseteq Slots(r)
    BY <1>11, <1>12, <1>16
  <2>2. ASSUME r.slots # <<>> PROVE Head(r.slots) \notin r.finished
    <3>1. r.slots \in Seq(Task)
      BY <1>10, <1>11, KParts
    <3>2. Len(r.slots) > 0 /\ Head(r.slots) = r.slots[1]
      BY <2>2, <3>1, FirstSlot
    <3>3. m < n /\ 1 \in 1 .. n - m
      BY <1>1, <1>3, <1>9, <1>11, <3>2
    <3>4. Head(r.slots) = k.slots[m + 1]
      BY <1>9, <1>11, <3>2, <3>3
    <3> QED
      BY <1>2, <1>11, <3>3, <3>4
  <2> QED
    BY <2>1, <2>2 DEF FrontOK
<1>18. Sound(r, c, X, Y)
  <2>1. Shape(r)
    BY <1>9, <1>11 DEF Sound, Shape
  <2>2. HeldOK(r, c.held, c.busy, X, Y)
    <3>1. HeldOK(g, c.held, c.busy, X, Y)
      BY <1>9 DEF Sound
    <3>2. \A x \in Slots(r) \ r.finished : x \in Slots(g) \ g.finished
      BY <1>9, <1>11, <1>12, <1>15
    <3> QED
      BY <1>9, <1>11, <3>1, <3>2 DEF HeldOK
  <2>3. /\ c \in Context /\ c.busy \subseteq c.held /\ g.done = c.done
        /\ LinesOK(Full(g, c), g.buf, c.ln) /\ BuffersOK(g, c.ln)
        /\ BlocksOK(g, Full(g, c), c.exempt, c.quiet)
    BY <1>9 DEF Sound
  <2>4. BuffersOK(r, c.ln)
    BY <1>9, <1>11, <1>12, <2>3 DEF BuffersOK
  <2>5. BlocksOK(r, Full(r, c), c.exempt, c.quiet)
    BY <1>9, <1>11, <1>12, <2>3 DEF BlocksOK, Ended
  <2> QED
    BY <1>11, <1>12, <2>1, <2>2, <2>3, <2>4, <2>5 DEF Sound
<1>19. k.slots = <<>> => r.slots = <<>> /\ r.out = k.out
  <2> SUFFICES ASSUME k.slots = <<>> PROVE r.slots = <<>> /\ r.out = k.out
    OBVIOUS
  <2>1. n = 0 /\ m = 0
    BY <1>1, <1>3 DEF n
  <2>2. g.slots \in Seq(Task) /\ Len(g.slots) = 0
    BY <1>9, <1>10, <2>1, KParts
  <2> QED
    BY <1>9, <1>11, <2>1, <2>2, FirstSlot
<1> QED
  BY <1>8, <1>11, <1>17, <1>18, <1>19

(* The end of a task: its slot goes, with the finished ones behind it, and *)
(* the next task is promoted; or it waits, finished, for its turn.         *)
LEMMA FinishedSound ==
    ASSUME NEW k, NEW c, NEW X, NEW Y, Sound(k, c, X, Y), FrontOK(k), NEW t \in Task
    PROVE  /\ Sound(OnTaskFinished(k, t), c, X \ {t}, Y \ {t})
           /\ FrontOK(OnTaskFinished(k, t))
<1>1. k \in KState /\ IsInjective(k.slots) /\ k.slots \in Seq(Task)
  BY KParts DEF Sound, Shape
<1>2. CASE ~HasSlot(k, t)
  <2>1. OnTaskFinished(k, t) = k
    BY <1>2 DEF OnTaskFinished
  <2>2. t \notin Slots(k)
    BY <1>1, <1>2, SlotIndex
  <2>3. HeldOK(k, c.held, c.busy, X \ {t}, Y \ {t})
    BY <2>2 DEF Sound, HeldOK
  <2> QED
    BY <2>1, <2>3 DEF Sound
<1>3. CASE HasSlot(k, t) /\ IsActive(k, t)
  <2> DEFINE k1 == [k EXCEPT !.active = None]
             k2 == Retire(k1, t)
             k3 == FlushFinished(k2)
  <2>1. OnTaskFinished(k, t) = PromoteNext(k3)
    BY <1>3 DEF OnTaskFinished
  <2>2. t \in Slots(k) /\ k.slots # <<>> /\ Head(k.slots) = t /\ (k.active = None \/ k.active = t)
    <3>1. t \in Slots(k) /\ Len(k.slots) > 0
      BY <1>1, <1>3, SlotIndex
    <3>2. k.slots # <<>>
      BY <1>1, <3>1, FirstSlot
    <3> QED
      BY <1>3, <3>1, <3>2 DEF IsActive, Sound, Shape
  <2>3. /\ Sound(k2, c, X \ {t}, Y \ {t}) /\ k2.active = None
        /\ k2.finished = k.finished /\ Slots(k2) = Slots(k) \ {t}
    <3> HIDE DEF k1
    <3>1. k1 = [k EXCEPT !.active = None]
      BY DEF k1
    <3> HIDE DEF k2, k3
    <3>2. /\ Sound(Retire(k1, t), c, X \ {t}, Y \ {t}) /\ Retire(k1, t).active = None
          /\ Retire(k1, t).finished = k.finished /\ Slots(Retire(k1, t)) = Slots(k) \ {t}
      <4>1. HasSlot(k, t) /\ (k.active = None \/ k.active = t)
        BY <1>3, <2>2
      <4> QED
        BY <3>1, <4>1, RetireSound
    <3> QED
      BY <3>2 DEF k2
  <2>4. k2.finished \subseteq Slots(k2)
    BY <2>2, <2>3 DEF FrontOK
  <2> HIDE DEF k2
  <2>5. Sound(k3, c, X \ {t}, Y \ {t}) /\ k3.active = None /\ FrontOK(k3)
    BY <2>3, <2>4, FlushSound
  <2> HIDE DEF k3
  <2>6. CASE k3.slots # <<>> /\ k3.buf[Head(k3.slots)] # <<>>
    <3>1. PromoteNext(k3) = Activate(k3, Head(k3.slots))
      BY <2>6 DEF PromoteNext
    <3> QED
      BY <2>1, <2>5, <2>6, <3>1, ActivateSound
  <2>7. CASE ~(k3.slots # <<>> /\ k3.buf[Head(k3.slots)] # <<>>)
    <3>1. PromoteNext(k3) = k3
      BY <2>7 DEF PromoteNext
    <3> QED
      BY <2>1, <2>5, <3>1
  <2> QED
    BY <2>6, <2>7
<1>4. CASE HasSlot(k, t) /\ ~IsActive(k, t)
  <2> DEFINE r == [k EXCEPT !.finished = @ \cup {t}]
  <2>1. OnTaskFinished(k, t) = r
    BY <1>4 DEF OnTaskFinished
  <2>2. /\ r.slots = k.slots /\ r.buf = k.buf /\ r.active = k.active /\ r.out = k.out
        /\ r.done = k.done /\ r.finished = k.finished \cup {t} /\ r \in KState
    BY <1>1 DEF KState
  <2> HIDE DEF r
  <2>3. Slots(r) = Slots(k) /\ Full(r, c) = Full(k, c) /\ t \in Slots(k)
    BY <1>1, <1>4, <2>2, SlotIndex DEF Slots, Full
  <2>4. k.slots # <<>> => Head(k.slots) # t
    BY <1>4 DEF IsActive, Sound, Shape
  <2>5. FrontOK(r)
    BY <2>2, <2>3, <2>4 DEF FrontOK
  <2>6. HeldOK(r, c.held, c.busy, X \ {t}, Y \ {t})
    <3>1. HeldOK(k, c.held, c.busy, X, Y)
      BY DEF Sound
    <3>2. \A u \in Slots(r) \ r.finished : u \in Slots(k) \ k.finished /\ u # t
      BY <2>2, <2>3
    <3> QED
      BY <2>2, <3>1, <3>2 DEF HeldOK
  <2>7. Shape(r)
    BY <2>2 DEF Sound, Shape
  <2>8. BuffersOK(r, c.ln)
    BY <2>2, <2>3 DEF Sound, BuffersOK
  <2>9. BlocksOK(r, Full(r, c), c.exempt, c.quiet)
    BY <2>2, <2>3 DEF Sound, BlocksOK, Ended
  <2>10. LinesOK(Full(r, c), r.buf, c.ln) /\ c \in Context /\ c.busy \subseteq c.held /\ r.done = c.done
    BY <2>2, <2>3 DEF Sound
  <2> QED
    BY <2>1, <2>5, <2>6, <2>7, <2>8, <2>9, <2>10 DEF Sound
<1> QED
  BY <1>2, <1>3, <1>4

(* A slot given up: unless the task has printed, it is retired.            *)
LEMMA UnusedSound ==
    ASSUME NEW k, NEW c, NEW X, Sound(k, c, X, {}), FrontOK(k), NEW t \in Task
    PROVE  /\ Sound(RetireUnusedSlot(k, t), c, X \ {t}, {})
           /\ FrontOK(RetireUnusedSlot(k, t))
<1>1. CASE k.active # t /\ HasSlot(k, t) /\ k.buf[t] = <<>>
  <2>1. RetireUnusedSlot(k, t) = OnTaskFinished(k, t)
    BY <1>1 DEF RetireUnusedSlot
  <2>2. Sound(OnTaskFinished(k, t), c, X \ {t}, {} \ {t}) /\ FrontOK(OnTaskFinished(k, t))
    BY FinishedSound
  <2>3. {} \ {t} = {}
    OBVIOUS
  <2> QED
    BY <2>1, <2>2, <2>3
<1>2. CASE ~(k.active # t /\ HasSlot(k, t) /\ k.buf[t] = <<>>)
  <2>1. RetireUnusedSlot(k, t) = k
    BY <1>2 DEF RetireUnusedSlot
  <2>2. HeldOK(k, c.held, c.busy, X \ {t}, {})
    <3> SUFFICES ASSUME NEW u \in Slots(k) \ k.finished
                 PROVE  /\ u \in c.held \cup (X \ {t})
                        /\ k.active = u \/ k.buf[u] # <<>> => u \in c.busy \cup {}
      BY DEF HeldOK
    <3>1. /\ u \in c.held \cup X
          /\ k.active = u \/ k.buf[u] # <<>> => u \in c.busy
      BY DEF Sound, HeldOK
    <3>2. CASE u = t
      <4>1. HasSlot(k, t)
        BY <3>2, SlotIndex DEF Sound, Shape
      <4>2. k.active = u \/ k.buf[u] # <<>>
        BY <1>2, <3>2, <4>1
      <4> QED
        BY <3>1, <4>2 DEF Sound
    <3> QED
      BY <3>1, <3>2
  <2> QED
    BY <2>1, <2>2 DEF Sound
<1> QED
  BY <1>1, <1>2

(* The slots of a sequence of tasks given up: none of those is left to     *)
(* hold its slot.                                                          *)
LEMMA AllUnusedSound ==
    ASSUME NEW k, NEW c, NEW tasks \in Seq(Task), Sound(k, c, ToSet(tasks), {}), FrontOK(k)
    PROVE  /\ Sound(RetireUnusedSlots(k, tasks), c, {}, {})
           /\ FrontOK(RetireUnusedSlots(k, tasks))
<1> DEFINE n == Len(tasks)
<1>1. n \in Nat /\ DOMAIN tasks = 1 .. n /\ \A i \in 1 .. n : tasks[i] \in Task
  BY LenProperties, ElementOfSeq
<1>2. \A x : x \in ToSet(tasks) <=> \E i \in 1 .. n : tasks[i] = x
  BY InToSet
<1> HIDE DEF n
<1>3. PICK f : Unused(f, k, tasks, n) /\ RetireUnusedSlots(k, tasks) = f[n]
  BY <1>1, FoldRetireUnusedSlot
<1> DEFINE Todo(i) == {tasks[j] : j \in i + 1 .. n}
           P(i) == Sound(f[i], c, Todo(i), {}) /\ FrontOK(f[i])
           Good == {i \in 0 .. n : P(i)}
<1>4. 0 \in Good
  <2>1. f[0] = k
    BY <1>3 DEF Unused
  <2>2. ToSet(tasks) \subseteq Todo(0)
    <3>1. 0 + 1 .. n = 1 .. n
      BY <1>1
    <3> QED
      BY <1>2, <3>1
  <2> HIDE DEF Todo
  <2>3. P(0)
    BY <2>1, <2>2, SoundMonotone
  <2> HIDE DEF P
  <2> QED
    BY <1>1, <2>3
<1>5. ASSUME NEW i \in 0 .. n - 1, i \in Good
      PROVE  i + 1 \in Good
  <2>1. i \in Nat /\ i + 1 \in 1 .. n /\ i + 1 \in 0 .. n /\ (i + 1) - 1 = i
    BY <1>1
  <2>2. f[i + 1] = RetireUnusedSlot(f[i], tasks[i + 1]) /\ tasks[i + 1] \in Task
    BY <1>1, <1>3, <2>1 DEF Unused
  <2>3. Todo(i) \ {tasks[i + 1]} \subseteq Todo(i + 1)
    <3> SUFFICES ASSUME NEW j \in i + 1 .. n, tasks[j] # tasks[i + 1]
                 PROVE  tasks[j] \in Todo(i + 1)
      OBVIOUS
    <3>1. j \in (i + 1) + 1 .. n
      BY <1>1, <2>1
    <3> QED
      BY <3>1
  <2>4. P(i)
    BY <1>5
  <2> HIDE DEF Todo
  <2>5. Sound(f[i + 1], c, Todo(i) \ {tasks[i + 1]}, {}) /\ FrontOK(f[i + 1])
    BY <2>2, <2>4, UnusedSound
  <2>6. Sound(f[i + 1], c, Todo(i + 1), {})
    BY <2>3, <2>5, SoundMonotone
  <2>7. P(i + 1)
    BY <2>5, <2>6
  <2> HIDE DEF P
  <2> QED
    BY <2>1, <2>7
<1>6. P(n)
  <2>1. n \in Good
    <3> HIDE DEF Good
    <3> QED
      BY <1>1, <1>4, <1>5, NatInd
  <2> HIDE DEF P
  <2> QED
    BY <2>1
<1>7. Todo(n) \subseteq {}
  BY <1>1
<1> HIDE DEF Todo
<1>8. Sound(f[n], c, {}, {})
  BY <1>6, <1>7, SoundMonotone
<1> QED
  BY <1>3, <1>6, <1>8

-----------------------------------------------------------------------------
(***************************************************************************)
(* The operations that give slots, and a line.                             *)
(***************************************************************************)

(* The task may be given a slot: it has an occurrence to hold it, and none *)
(* of its lines is on the terminal, unless its block may be broken.        *)
Room(c, t) ==
    /\ t \in c.quiet
    /\ t \in c.held
    /\ t \in c.exempt \/ \A i \in DOMAIN c.pr : c.pr[i][1] # t

(* A slot for a task that had none, in front only when no task is live.    *)
LEMMA SlotAdded ==
    ASSUME NEW k, NEW c, NEW X, NEW Y, Sound(k, c, X, Y), FrontOK(k), k.out = <<>>,
           NEW t \in Task, Room(c, t), t \notin Slots(k),
           NEW r \in KState, r.buf = k.buf, r.active = k.active, r.finished = k.finished,
           r.done = k.done, r.out = k.out, Slots(r) = Slots(k) \cup {t},
           IsInjective(r.slots), r.slots # <<>>,
           \/ k.active = None /\ Head(r.slots) = t
           \/ k.slots # <<>> /\ Head(r.slots) = Head(k.slots)
    PROVE  Sound(r, c, X, Y) /\ FrontOK(r)
<1>1. /\ Shape(k) /\ k \in KState /\ c \in Context /\ c.busy \subseteq c.held /\ k.done = c.done
      /\ LinesOK(Full(k, c), k.buf, c.ln) /\ BuffersOK(k, c.ln)
      /\ BlocksOK(k, Full(k, c), c.exempt, c.quiet) /\ HeldOK(k, c.held, c.busy, X, Y)
  BY DEF Sound, Shape
<1>2. Full(r, c) = Full(k, c) /\ Full(k, c) = c.pr
  <2>1. c.pr \in Seq(Line)
    BY <1>1 DEF Context
  <2> QED
    BY <2>1, ConcatEmptySeq DEF Full
<1>3. FrontOK(r)
  BY DEF FrontOK
<1>4. Shape(r)
  BY <1>1 DEF Shape
<1>5. BuffersOK(r, c.ln)
  BY <1>1 DEF BuffersOK
<1>6. BlocksOK(r, Full(r, c), c.exempt, c.quiet)
  <2>1. Ended(r, c.pr, c.exempt, c.quiet)
    BY <1>1, <1>2 DEF BlocksOK, Ended, Room
  <2> QED
    BY <1>1, <1>2, <2>1 DEF BlocksOK, Room
<1>7. HeldOK(r, c.held, c.busy, X, Y)
  <2>1. k.active # t
    <3>1. k.active # None => k.active \in Slots(k)
      BY <1>1, KParts, FirstSlot DEF Shape, Slots
    <3> QED
      BY <3>1, TopAssumption DEF None
  <2>2. k.buf[t] = <<>>
    BY <1>1 DEF BuffersOK
  <2> QED
    BY <1>1, <2>1, <2>2 DEF HeldOK, Room
<1> QED
  BY <1>1, <1>2, <1>3, <1>4, <1>5, <1>6, <1>7 DEF Sound

(* init_task: a slot at the end.                                           *)
LEMMA InitSound ==
    ASSUME NEW k, NEW c, NEW X, NEW Y, Sound(k, c, X, Y), FrontOK(k), k.out = <<>>,
           NEW t \in Task, Room(c, t) \/ HasSlot(k, t)
    PROVE  /\ Sound(InitTask(k, t), c, X, Y) /\ FrontOK(InitTask(k, t))
           /\ InitTask(k, t).out = <<>> /\ InitTask(k, t).active = k.active
           /\ InitTask(k, t).done = k.done
           /\ Slots(InitTask(k, t)) = Slots(k) \cup {t}
<1> DEFINE r == [k EXCEPT !.slots = Append(@, t)]
           s == k.slots
           a == Append(s, t)
<1>1. k \in KState /\ s \in Seq(Task) /\ IsInjective(s) /\ (HasSlot(k, t) <=> t \in Slots(k))
  BY KParts, SlotIndex DEF Sound, Shape
<1>2. CASE HasSlot(k, t)
  BY <1>1, <1>2 DEF InitTask
<1>3. CASE ~HasSlot(k, t)
  <2>1. InitTask(k, t) = r
    BY <1>3 DEF InitTask
  <2>2. /\ a \in Seq(Task) /\ Len(a) = Len(s) + 1 /\ Len(s) \in Nat /\ DOMAIN a = 1 .. Len(s) + 1
        /\ DOMAIN s = 1 .. Len(s)
        /\ \A i \in 1 .. Len(s) : a[i] = s[i]
        /\ a[Len(s) + 1] = t
    BY <1>1, AppendProperties, LenProperties
  <2>3. /\ r \in KState /\ r.buf = k.buf /\ r.active = k.active /\ r.finished = k.finished
        /\ r.done = k.done /\ r.out = k.out /\ r.slots = a
    <3> HIDE DEF a
    <3>1. r = [k EXCEPT !.slots = a]
      BY <1>1 DEF KState, a
    <3> QED
      BY <1>1, <2>2, <3>1 DEF KState
  <2>4. Slots(r) = Slots(k) \cup {t}
    BY <1>1, <2>3, ToSetAppend DEF Slots
  <2>5. IsInjective(a)
    <3>1. \A i \in 1 .. Len(s) : s[i] # t
      BY <1>1, <1>3, InToSet DEF Slots
    <3>2. \A i, j \in 1 .. Len(s) : s[i] = s[j] => i = j
      BY <1>1, <2>2 DEF IsInjective
    <3> SUFFICES ASSUME NEW i \in 1 .. Len(s) + 1, NEW j \in 1 .. Len(s) + 1, a[i] = a[j]
                 PROVE  i = j
      BY <2>2 DEF IsInjective
    <3>3. \A x \in 1 .. Len(s) + 1 : x \in 1 .. Len(s) \/ x = Len(s) + 1
      BY <2>2
    <3> HIDE DEF a, s
    <3>4. CASE i = Len(s) + 1
      BY <2>2, <3>1, <3>3, <3>4
    <3>5. CASE i \in 1 .. Len(s)
      BY <2>2, <3>1, <3>2, <3>3, <3>5
    <3> QED
      BY <3>3, <3>4, <3>5
  <2>6. a # <<>> /\ Head(a) = a[1]
    <3>1. Len(a) > 0
      BY <2>2
    <3> HIDE DEF a
    <3> QED
      BY <2>2, <3>1, FirstSlot
  <2>7. CASE s = <<>>
    <3>1. Len(s) = 0 /\ Head(a) = t
      BY <2>2, <2>6, <2>7
    <3>2. k.active = None
      BY <2>7 DEF Sound, Shape
    <3> HIDE DEF r, a
    <3> QED
      BY <1>1, <1>3, <2>1, <2>3, <2>4, <2>5, <2>6, <3>1, <3>2, SlotAdded
  <2>8. CASE s # <<>>
    <3>1. Head(s) = s[1] /\ Len(s) > 0
      BY <1>1, <2>8, FirstSlot
    <3>2. 1 \in 1 .. Len(s)
      BY <2>2, <3>1
    <3>3. Head(a) = Head(s)
      BY <2>2, <2>6, <3>1, <3>2
    <3> HIDE DEF r, a
    <3> QED
      BY <1>1, <1>3, <2>1, <2>3, <2>4, <2>5, <2>6, <2>8, <3>3, SlotAdded
  <2> QED
    BY <2>7, <2>8
<1> QED
  BY <1>2, <1>3

(* init_tasks: slots at the end, for a sequence of tasks.                  *)
LEMMA InitTasksSound ==
    ASSUME NEW k, NEW c, NEW X, NEW Y, Sound(k, c, X, Y), FrontOK(k), k.out = <<>>,
           NEW tasks \in Seq(Task), \A t \in ToSet(tasks) : Room(c, t)
    PROVE  /\ Sound(InitTasks(k, tasks), c, X, Y) /\ FrontOK(InitTasks(k, tasks))
           /\ InitTasks(k, tasks).out = <<>> /\ InitTasks(k, tasks).active = k.active
           /\ InitTasks(k, tasks).done = k.done
           /\ Slots(InitTasks(k, tasks)) = Slots(k) \cup ToSet(tasks)
<1> DEFINE n == Len(tasks)
<1>1. n \in Nat /\ DOMAIN tasks = 1 .. n /\ \A i \in 1 .. n : tasks[i] \in Task
  BY LenProperties, ElementOfSeq
<1>2. \A x : x \in ToSet(tasks) <=> \E i \in 1 .. n : tasks[i] = x
  BY InToSet
<1> HIDE DEF n
<1>3. PICK f : Inited(f, k, tasks, n) /\ InitTasks(k, tasks) = f[n]
  BY <1>1, FoldInitTask
<1> DEFINE Done(i) == {tasks[j] : j \in 1 .. i}
           P(i) == /\ Sound(f[i], c, X, Y) /\ FrontOK(f[i]) /\ f[i].out = <<>>
                   /\ f[i].active = k.active /\ f[i].done = k.done
                   /\ Slots(f[i]) = Slots(k) \cup Done(i)
           Good == {i \in 0 .. n : P(i)}
<1>4. 0 \in Good
  <2>1. f[0] = k
    BY <1>3 DEF Inited
  <2>2. Done(0) = {}
    OBVIOUS
  <2> HIDE DEF Done
  <2>3. P(0)
    BY <2>1, <2>2
  <2> HIDE DEF P
  <2> QED
    BY <1>1, <2>3
<1>5. ASSUME NEW i \in 0 .. n - 1, i \in Good
      PROVE  i + 1 \in Good
  <2>1. i \in Nat /\ i + 1 \in 1 .. n /\ i + 1 \in 0 .. n /\ (i + 1) - 1 = i
    BY <1>1
  <2>2. f[i + 1] = InitTask(f[i], tasks[i + 1]) /\ tasks[i + 1] \in Task
    BY <1>1, <1>3, <2>1 DEF Inited
  <2>3. Done(i + 1) = Done(i) \cup {tasks[i + 1]}
    <3>1. 1 .. i + 1 = (1 .. i) \cup {i + 1}
      BY <2>1
    <3> QED
      BY <3>1
  <2>4. Room(c, tasks[i + 1])
    BY <1>2, <2>1
  <2>5. P(i)
    BY <1>5
  <2> HIDE DEF Done
  <2> DEFINE g == f[i]
             u == tasks[i + 1]
  <2>6. /\ Sound(g, c, X, Y) /\ FrontOK(g) /\ g.out = <<>>
        /\ g.active = k.active /\ g.done = k.done /\ Slots(g) = Slots(k) \cup Done(i)
    BY <2>5
  <2> HIDE DEF g, u
  <2>7. /\ Sound(InitTask(g, u), c, X, Y) /\ FrontOK(InitTask(g, u))
        /\ InitTask(g, u).out = <<>> /\ InitTask(g, u).active = g.active
        /\ InitTask(g, u).done = g.done /\ Slots(InitTask(g, u)) = Slots(g) \cup {u}
    <3>1. u \in Task /\ Room(c, u)
      BY <2>2, <2>4 DEF u
    <3> QED
      BY <2>6, <3>1, InitSound
  <2>8. P(i + 1)
    BY <2>2, <2>3, <2>6, <2>7 DEF g, u
  <2> HIDE DEF P
  <2> QED
    BY <2>1, <2>8
<1>6. P(n)
  <2>1. n \in Good
    <3> HIDE DEF Good
    <3> QED
      BY <1>1, <1>4, <1>5, NatInd
  <2> HIDE DEF P
  <2> QED
    BY <2>1
<1>7. Done(n) = ToSet(tasks)
  BY <1>2
<1> HIDE DEF Done
<1> QED
  BY <1>3, <1>6, <1>7

(* A state that differs in injected_by only.                               *)
LEMMA InjectedBySound ==
    ASSUME NEW k, NEW c, NEW X, NEW Y, Sound(k, c, X, Y), FrontOK(k),
           NEW r \in KState, r.slots = k.slots, r.buf = k.buf, r.active = k.active,
           r.finished = k.finished, r.done = k.done, r.out = k.out
    PROVE  Sound(r, c, X, Y) /\ FrontOK(r)
<1>1. Slots(r) = Slots(k) /\ Full(r, c) = Full(k, c)
  BY DEF Slots, Full
<1>2. Shape(r) /\ FrontOK(r)
  BY <1>1 DEF Sound, Shape, FrontOK
<1>3. BuffersOK(r, c.ln) /\ HeldOK(r, c.held, c.busy, X, Y)
  BY <1>1 DEF Sound, BuffersOK, HeldOK
<1>4. BlocksOK(r, Full(r, c), c.exempt, c.quiet)
  BY <1>1 DEF Sound, BlocksOK, Ended
<1> QED
  BY <1>1, <1>2, <1>3, <1>4 DEF Sound

(* Where the next task of a run entry is inserted: never before the live   *)
(* task.                                                                   *)
PlaceOK(a) ==
    /\ a.idx \in 1 .. Len(a.k.slots) + 1
    /\ a.idx = 1 => a.k.active = None

(* The state r is sound, and is k with slots for the tasks of S.           *)
Grown(k, r, c, X, Y, S) ==
    /\ Sound(r, c, X, Y) /\ FrontOK(r) /\ r.out = <<>>
    /\ r.done = k.done /\ Slots(r) = Slots(k) \cup S

(* One task of a run entry: a slot at the place, or the one it has.        *)
LEMMA InsertSound ==
    ASSUME NEW a, NEW c, NEW X, NEW Y, Sound(a.k, c, X, Y), FrontOK(a.k), a.k.out = <<>>,
           PlaceOK(a), NEW t \in Task, Room(c, t), NEW parent \in Task, NEW after
    PROVE  LET b == InsertInjected(a, parent, after, t) IN
           Grown(a.k, b.k, c, X, Y, {t}) /\ PlaceOK(b)
<1> DEFINE b == InsertInjected(a, parent, after, t)
<1> SUFFICES /\ Sound(b.k, c, X, Y) /\ FrontOK(b.k) /\ b.k.out = <<>> /\ PlaceOK(b)
             /\ b.k.done = a.k.done /\ Slots(b.k) = Slots(a.k) \cup {t}
  BY DEF Grown
<1>0. b = InsertInjected(a, parent, after, t)
  OBVIOUS
<1> HIDE DEF b
<1> DEFINE k == a.k
           x == a.idx
           n == Len(k.slots)
<1>1. /\ k \in KState /\ k.slots \in Seq(Task) /\ IsInjective(k.slots) /\ n \in Nat
      /\ x \in 1 .. n + 1 /\ (x = 1 => k.active = None)
      /\ k.active \in Task \cup {None} /\ k.injected_by \subseteq Task \X Task
  BY KParts, LenProperties DEF Sound, Shape, PlaceOK
<1>2. /\ HasSlot(k, t) <=> t \in Slots(k)
      /\ HasSlot(k, t) => IndexOf(k, t) \in 1 .. n
  BY <1>1, SlotIndex
<1>3. CASE HasSlot(k, t)
  <2>1. /\ b.k = IF DescendsFrom(k, parent, t) THEN k
                 ELSE [k EXCEPT !.injected_by = @ \cup {<<t, parent>>}]
        /\ b.idx = IF after /\ IndexOf(k, t) >= x THEN IndexOf(k, t) + 1 ELSE x
    BY <1>0, <1>3 DEF InsertInjected
  <2>2. /\ b.k \in KState /\ b.k.slots = k.slots /\ b.k.buf = k.buf /\ b.k.active = k.active
        /\ b.k.finished = k.finished /\ b.k.done = k.done /\ b.k.out = k.out
    <3> DEFINE inj == k.injected_by \cup {<<t, parent>>}
    <3>1. b.k = k \/ b.k = [k EXCEPT !.injected_by = inj]
      BY <1>1, <2>1 DEF KState
    <3>2. inj \in SUBSET (Task \X Task)
      BY <1>1
    <3> HIDE DEF inj, k
    <3> QED
      BY <1>1, <3>1, <3>2 DEF KState
  <2>3. b.idx \in 1 .. n + 1 /\ (b.idx = 1 => x = 1)
    <3> DEFINE j == IndexOf(k, t)
    <3>1. j \in 1 .. n
      BY <1>2, <1>3
    <3>2. b.idx = j + 1 \/ b.idx = x
      BY <2>1
    <3> HIDE DEF j, x, n
    <3> QED
      BY <1>1, <3>1, <3>2
  <2>4. PlaceOK(b)
    BY <1>1, <2>2, <2>3 DEF PlaceOK
  <2>5. Slots(b.k) = Slots(k) \cup {t}
    BY <1>2, <1>3, <2>2 DEF Slots
  <2>6. Sound(b.k, c, X, Y) /\ FrontOK(b.k)
    <3> DEFINE r == b.k
    <3>1. /\ r \in KState /\ r.slots = k.slots /\ r.buf = k.buf /\ r.active = k.active
          /\ r.finished = k.finished /\ r.done = k.done /\ r.out = k.out
      BY <2>2
    <3> HIDE DEF r, k
    <3>2. Sound(k, c, X, Y) /\ FrontOK(k)
      BY DEF k
    <3>3. Sound(r, c, X, Y) /\ FrontOK(r)
      BY <3>1, <3>2, InjectedBySound
    <3> QED
      BY <3>3 DEF r
  <2> QED
    BY <2>2, <2>4, <2>5, <2>6
<1>4. CASE ~HasSlot(k, t)
  <2> DEFINE s == InsertAt(k.slots, x, t)
             inj == {e \in k.injected_by : e[1] # t} \cup {<<t, parent>>}
             r == b.k
  <2>1. /\ b.k = [k EXCEPT !.slots = s, !.injected_by = inj]
        /\ b.idx = x + 1
    BY <1>0, <1>1, <1>4 DEF InsertInjected, KState
  <2>2. /\ s \in Seq(Task) /\ Len(s) = n + 1
        /\ \A j \in 1 .. n + 1 : s[j] =
              IF j < x THEN k.slots[j] ELSE IF j = x THEN t ELSE k.slots[j - 1]
        /\ IsInjective(s) /\ ToSet(s) = ToSet(k.slots) \cup {t}
    <3> HIDE DEF x, k
    <3>1. t \notin ToSet(k.slots)
      BY <1>2, <1>4 DEF Slots
    <3> QED
      BY <1>1, <3>1, InsertAtProperties
  <2>3. inj \in SUBSET (Task \X Task)
    BY <1>1
  <2> HIDE DEF s, inj
  <2>4. /\ r \in KState /\ r.slots = s /\ r.buf = k.buf /\ r.active = k.active
        /\ r.finished = k.finished /\ r.done = k.done /\ r.out = k.out
    BY <1>1, <2>1, <2>2, <2>3 DEF KState
  <2>5. Slots(r) = Slots(k) \cup {t}
    BY <2>2, <2>4 DEF Slots
  <2>6. s # <<>> /\ Head(s) = s[1] /\ 1 \in 1 .. n + 1
    <3>1. Len(s) > 0 /\ 1 \in 1 .. n + 1
      BY <1>1, <2>2
    <3> QED
      BY <2>2, <3>1, FirstSlot
  <2>7. x + 1 \in 1 .. (n + 1) + 1 /\ x + 1 # 1
    <3> HIDE DEF x, n
    <3> QED
      BY <1>1
  <2>8. PlaceOK(b)
    BY <2>1, <2>2, <2>4, <2>7 DEF PlaceOK
  <2>9. \/ k.active = None /\ Head(s) = t
        \/ k.slots # <<>> /\ Head(s) = Head(k.slots)
    <3>1. CASE x = 1
      <4>1. s[1] = t
        BY <2>2, <2>6, <3>1
      <4> QED
        BY <1>1, <2>6, <3>1, <4>1
    <3>2. CASE x # 1
      <4>1. 1 < x /\ n > 0
        BY <1>1, <3>2
      <4>2. s[1] = k.slots[1]
        BY <2>2, <2>6, <4>1
      <4>3. k.slots # <<>> /\ Head(k.slots) = k.slots[1]
        BY <1>1, <4>1, FirstSlot
      <4> QED
        BY <2>6, <4>2, <4>3
    <3> QED
      BY <3>1, <3>2
  <2>10. Sound(r, c, X, Y) /\ FrontOK(r)
    <3> HIDE DEF r, k
    <3>1. Sound(k, c, X, Y) /\ FrontOK(k) /\ k.out = <<>>
      BY DEF k
    <3> QED
      BY <1>2, <1>4, <2>2, <2>4, <2>5, <2>6, <2>9, <3>1, SlotAdded
  <2> QED
    BY <2>4, <2>5, <2>8, <2>10
<1> QED
  BY <1>3, <1>4

(* The tasks of a run entry, one after the other.                          *)
LEMMA InsertFromSound ==
    ASSUME NEW a, NEW c, NEW X, NEW Y, Sound(a.k, c, X, Y), FrontOK(a.k), a.k.out = <<>>,
           PlaceOK(a), NEW parent \in Task, NEW after,
           NEW tasks \in Seq(Task), \A t \in ToSet(tasks) : Room(c, t)
    PROVE  Grown(a.k, InsertFrom(a, parent, after, tasks).k, c, X, Y, ToSet(tasks))
<1> DEFINE n == Len(tasks)
<1>1. n \in Nat /\ DOMAIN tasks = 1 .. n /\ \A i \in 1 .. n : tasks[i] \in Task
  BY LenProperties, ElementOfSeq
<1>2. \A x : x \in ToSet(tasks) <=> \E i \in 1 .. n : tasks[i] = x
  BY InToSet
<1> HIDE DEF n
<1>3. PICK f : Inserted(f, a, parent, after, tasks, n) /\ InsertFrom(a, parent, after, tasks) = f[n]
  BY <1>1, FoldInsertInjected
<1> DEFINE Done(i) == {tasks[j] : j \in 1 .. i}
           P(i) == /\ Sound(f[i].k, c, X, Y) /\ FrontOK(f[i].k) /\ f[i].k.out = <<>>
                   /\ PlaceOK(f[i]) /\ f[i].k.done = a.k.done
                   /\ Slots(f[i].k) = Slots(a.k) \cup Done(i)
           Good == {i \in 0 .. n : P(i)}
<1>4. 0 \in Good
  <2>1. f[0] = a
    BY <1>3 DEF Inserted
  <2>2. Done(0) = {}
    OBVIOUS
  <2> HIDE DEF Done
  <2>3. P(0)
    BY <2>1, <2>2
  <2> HIDE DEF P
  <2> QED
    BY <1>1, <2>3
<1>5. ASSUME NEW i \in 0 .. n - 1, i \in Good
      PROVE  i + 1 \in Good
  <2>1. i \in Nat /\ i + 1 \in 1 .. n /\ i + 1 \in 0 .. n /\ (i + 1) - 1 = i
    BY <1>1
  <2> DEFINE g == f[i]
             h == f[i + 1]
             u == tasks[i + 1]
  <2>2. h = InsertInjected(g, parent, after, u) /\ u \in Task
    BY <1>1, <1>3, <2>1 DEF Inserted
  <2>3. Done(i + 1) = Done(i) \cup {u}
    <3>1. 1 .. i + 1 = (1 .. i) \cup {i + 1}
      BY <2>1
    <3> QED
      BY <3>1
  <2>4. Room(c, u)
    BY <1>2, <2>1
  <2> HIDE DEF Done
  <2>5. /\ Sound(g.k, c, X, Y) /\ FrontOK(g.k) /\ g.k.out = <<>> /\ PlaceOK(g)
        /\ g.k.done = a.k.done /\ Slots(g.k) = Slots(a.k) \cup Done(i)
    BY <1>5
  <2> HIDE DEF g, h, u
  <2>6. Grown(g.k, h.k, c, X, Y, {u}) /\ PlaceOK(h)
    BY <2>2, <2>4, <2>5, InsertSound
  <2>7. P(i + 1)
    BY <2>3, <2>5, <2>6 DEF h, Grown
  <2> HIDE DEF P
  <2> QED
    BY <2>1, <2>7
<1>6. P(n)
  <2>1. n \in Good
    <3> HIDE DEF Good
    <3> QED
      BY <1>1, <1>4, <1>5, NatInd
  <2> HIDE DEF P
  <2> QED
    BY <2>1
<1>7. Done(n) = ToSet(tasks)
  BY <1>2
<1> HIDE DEF Done
<1> QED
  BY <1>3, <1>6, <1>7 DEF Grown

(* The slot past a group, and the slots of the group.                      *)
LEMMA GroupEndMax ==
    ASSUME NEW k \in KState, NEW parent, HasSlot(k, parent)
    PROVE  \E top \in 1 .. Len(k.slots) :
               /\ GroupEnd(k, parent) = top + 1
               /\ top = IndexOf(k, parent) \/ DescendsFrom(k, k.slots[top], parent)
               /\ \A j \in 1 .. Len(k.slots) :
                     j <= IndexOf(k, parent) \/ DescendsFrom(k, k.slots[j], parent) => j <= top
<1> DEFINE n == Len(k.slots)
           i == IndexOf(k, parent)
           group == {i} \cup {j \in DOMAIN k.slots : j > i /\ DescendsFrom(k, k.slots[j], parent)}
           far == {n - j : j \in group}
           top == CHOOSE j \in group : \A m \in group : m <= j
<1>1. n \in Nat /\ DOMAIN k.slots = 1 .. n /\ i \in 1 .. n
  BY KParts, SlotIndex, LenProperties
<1>2. /\ group \subseteq 1 .. n /\ i \in group
      /\ \A j \in group : j = i \/ DescendsFrom(k, k.slots[j], parent)
      /\ \A j \in 1 .. n : j > i /\ DescendsFrom(k, k.slots[j], parent) => j \in group
  BY <1>1
<1>3. GroupEnd(k, parent) = 1 + top
  BY DEF GroupEnd
<1> HIDE DEF n, i, group
<1>4. far \subseteq Nat /\ far # {}
  BY <1>1, <1>2
<1>5. PICK d \in far : \A e \in far : d <= e
  BY <1>4, NatMin
<1>6. PICK j \in group : d = n - j
  OBVIOUS
<1>7. \A m \in group : m <= j
  <2> SUFFICES ASSUME NEW m \in group PROVE m <= j
    OBVIOUS
  <2>1. n - j <= n - m
    BY <1>5, <1>6
  <2> QED
    BY <1>1, <1>2, <2>1
<1>8. top \in group /\ \A m \in group : m <= top
  BY <1>7
<1> HIDE DEF top, far
<1>9. top \in 1 .. n /\ GroupEnd(k, parent) = top + 1
  BY <1>1, <1>2, <1>3, <1>8
<1>10. top = i \/ DescendsFrom(k, k.slots[top], parent)
  BY <1>2, <1>8
<1>11. ASSUME NEW c \in 1 .. n, c <= i \/ DescendsFrom(k, k.slots[c], parent) PROVE c <= top
  <2>1. i <= top
    BY <1>2, <1>8
  <2>2. CASE c <= i
    BY <1>1, <1>9, <2>1, <2>2
  <2>3. CASE c > i
    <3>1. c \in group
      BY <1>1, <1>2, <1>11, <2>3
    <3> QED
      BY <1>8, <3>1
  <2> QED
    BY <1>1, <2>2, <2>3
<1> QED
  BY <1>9, <1>10, <1>11 DEF n, i

(* The slot past a group is behind the parent of the group.                *)
LEMMA GroupEndPlace ==
    ASSUME NEW k \in KState, NEW parent, HasSlot(k, parent)
    PROVE  GroupEnd(k, parent) \in 2 .. Len(k.slots) + 1
<1>1. PICK top \in 1 .. Len(k.slots) : GroupEnd(k, parent) = top + 1
  BY GroupEndMax
<1>2. Len(k.slots) \in Nat
  BY KParts, LenProperties
<1> QED
  BY <1>1, <1>2

(* insert_injected_tasks: slots at the place of the task that injects. An  *)
(* anchor is not live, so what goes before it goes behind no live task.    *)
LEMMA InsertTasksSound ==
    ASSUME NEW k, NEW c, NEW X, NEW Y, Sound(k, c, X, Y), FrontOK(k), k.out = <<>>,
           NEW parent \in Task, parent \notin prog.prints => k.active # parent,
           NEW tasks \in Seq(Task), \A t \in ToSet(tasks) : Room(c, t),
           NEW r, r = InsertInjectedTasks(k, parent, tasks)
    PROVE  /\ Sound(r, c, X, Y) /\ FrontOK(r)
           /\ r.done = k.done /\ Slots(r) = Slots(k) \cup ToSet(tasks)
<1>1. CASE ~HasSlot(k, parent)
  BY <1>1, InitTasksSound DEF InsertInjectedTasks
<1>2. CASE HasSlot(k, parent)
  <2> DEFINE after == parent \in prog.prints
             idx == IF after THEN GroupEnd(k, parent) ELSE IndexOf(k, parent)
             a == [k |-> k, idx |-> idx]
             b == InsertFrom(a, parent, after, tasks)
  <2>1. r = b.k
    BY <1>2 DEF InsertInjectedTasks
  <2>2. k \in KState /\ k.slots \in Seq(Task) /\ Len(k.slots) \in Nat
    BY KParts, LenProperties DEF Sound, Shape
  <2>3. IndexOf(k, parent) \in 1 .. Len(k.slots) /\ k.slots[IndexOf(k, parent)] = parent
    BY <1>2, <2>2, SlotIndex
  <2>4. GroupEnd(k, parent) \in 2 .. Len(k.slots) + 1
    BY <1>2, <2>2, GroupEndPlace
  <2>5. idx \in 1 .. Len(k.slots) + 1
    BY <2>2, <2>3, <2>4
  <2>6. idx = 1 => k.active = None
    <3> SUFFICES ASSUME idx = 1 PROVE k.active = None
      OBVIOUS
    <3>1. ~after /\ k.slots[1] = parent
      BY <2>3, <2>4
    <3>2. k.active # None => k.slots # <<>> /\ Head(k.slots) = k.active
      BY DEF Sound, Shape
    <3>3. k.slots # <<>> => Head(k.slots) = k.slots[1]
      BY <2>2, FirstSlot
    <3> QED
      BY <3>1, <3>2, <3>3
  <2>7. PlaceOK(a) /\ a.k = k
    BY <2>5, <2>6 DEF PlaceOK
  <2> HIDE DEF a, after
  <2>8. Sound(a.k, c, X, Y) /\ FrontOK(a.k) /\ a.k.out = <<>>
    BY <2>7
  <2>9. b = InsertFrom(a, parent, after, tasks)
    OBVIOUS
  <2> HIDE DEF b
  <2>10. Grown(a.k, b.k, c, X, Y, ToSet(tasks))
    BY <2>7, <2>8, <2>9, InsertFromSound
  <2> QED
    BY <2>1, <2>7, <2>10 DEF Grown
<1> QED
  BY <1>1, <1>2

(* The context, with a line more that the task has produced.               *)
WithLine(c, t) == [c EXCEPT !.ln = [c.ln EXCEPT ![t] = @ + 1]]

(* A line of the live task, or of the one in the first slot when no task   *)
(* is live: what it has buffered is printed, and the line after it.        *)
LEMMA LiveLineSound ==
    ASSUME NEW k, NEW c, NEW X, NEW Y, Sound(k, c, X, Y), FrontOK(k),
           NEW t \in Task, t \in c.busy, IsActive(k, t),
           NEW x, x = <<t, c.ln[t] + 1>>,
           NEW c2, c2 = WithLine(c, t),
           NEW r, r = [Activate(k, t) EXCEPT !.out = Append(@, x)]
    PROVE  /\ Sound(r, c2, X, Y) /\ FrontOK(r) /\ r.done = k.done
           /\ Slots(r) = Slots(k) /\ t \in Slots(k)
<1> DEFINE b == k.buf[t]
           a == Activate(k, t)
           ln2 == [c.ln EXCEPT ![t] = @ + 1]
<1>1. /\ k \in KState /\ IsInjective(k.slots)
      /\ c \in Context /\ c.busy \subseteq c.held /\ k.done = c.done
      /\ k.slots \in Seq(Task) /\ k.buf \in [Task -> Seq(Line)] /\ k.out \in Seq(Line)
      /\ c.ln \in [Task -> Nat] /\ c.pr \in Seq(Line) /\ b \in Seq(Line)
  BY KParts DEF Sound, Shape, Context
<1>2. /\ k.slots # <<>> /\ Head(k.slots) = t /\ (k.active = None \/ k.active = t)
      /\ t \in Slots(k) /\ t \notin k.finished
  <2>1. k.slots # <<>> /\ Head(k.slots) = t /\ (k.active = None \/ k.active = t)
    BY DEF IsActive, Sound, Shape
  <2> QED
    BY <1>1, <2>1, FirstSlot DEF Slots, FrontOK
<1>3. x \in Line /\ ln2 \in [Task -> Nat] /\ IsBlock(<<x>>, t)
  <2>1. x \in Line /\ x[1] = t
    BY <1>1 DEF Line
  <2>2. <<x>> \in Seq(Line) /\ Len(<<x>>) = 1 /\ <<x>>[1] = x
    BY <2>1
  <2>3. IsBlock(<<x>>, t)
    BY <2>1, <2>2 DEF IsBlock
  <2> QED
    BY <1>1, <2>1, <2>3
<1> HIDE DEF ln2
<1>4. /\ c2 \in Context /\ c2.pr = c.pr /\ c2.ln = ln2 /\ c2.exempt = c.exempt
      /\ c2.quiet = c.quiet /\ c2.held = c.held /\ c2.busy = c.busy /\ c2.done = c.done
  <2>1. c2 = [c EXCEPT !.ln = ln2]
    BY DEF ln2, WithLine
  <2> QED
    BY <1>1, <1>3, <2>1 DEF Context
<1>5. /\ a.active = t /\ a.slots = k.slots /\ a.buf = [k.buf EXCEPT ![t] = <<>>]
      /\ a.out = k.out \o b /\ a.finished = k.finished /\ a.done = k.done /\ a \in KState
  <2> DEFINE b2 == [k.buf EXCEPT ![t] = <<>>]
             o2 == k.out \o b
  <2>1. a = [k EXCEPT !.active = t, !.out = o2, !.buf = b2]
    BY <1>1 DEF Activate, KState
  <2>2. b2 \in [Task -> Seq(Line)] /\ o2 \in Seq(Line)
    BY <1>1, ConcatProperties
  <2> HIDE DEF a, b2, o2
  <2>3. /\ a.active = t /\ a.slots = k.slots /\ a.buf = b2 /\ a.out = o2
        /\ a.finished = k.finished /\ a.done = k.done /\ a \in KState
    BY <1>1, <2>1, <2>2 DEF KState
  <2> QED
    BY <2>3 DEF b2, o2
<1>6. r = [a EXCEPT !.out = Append(a.out, x)]
  BY <1>5 DEF KState
<1> HIDE DEF a
<1>7. /\ r.active = t /\ r.slots = k.slots /\ r.buf = [k.buf EXCEPT ![t] = <<>>]
      /\ r.out = Append(a.out, x) /\ r.finished = k.finished /\ r.done = k.done /\ r \in KState
  <2> DEFINE o3 == Append(a.out, x)
  <2>1. o3 \in Seq(Line)
    BY <1>3, <1>5, KParts, AppendProperties
  <2>2. r = [a EXCEPT !.out = o3]
    BY <1>6
  <2> HIDE DEF o3
  <2>3. /\ r.active = t /\ r.slots = k.slots /\ r.buf = a.buf
        /\ r.out = o3 /\ r.finished = k.finished /\ r.done = k.done /\ r \in KState
    BY <1>5, <2>1, <2>2 DEF KState
  <2> QED
    BY <1>5, <2>3 DEF o3
<1>8. Slots(r) = Slots(k) /\ Slots(a) = Slots(k)
  BY <1>5, <1>7 DEF Slots
<1>9. /\ Full(k, c) \in Seq(Line) /\ Full(a, c) = Full(k, c) \o b /\ Full(a, c) \in Seq(Line)
      /\ Full(r, c2) = Full(a, c) \o <<x>> /\ Full(r, c2) = Append(Full(a, c), x)
  <2>1. Full(k, c) \in Seq(Line) /\ Full(a, c) = Full(k, c) \o b
    <3>1. b \in Seq(Line) /\ a.out = k.out \o b
      BY <1>1, <1>5
    <3> HIDE DEF b
    <3> QED
      BY <1>1, <3>1, FullEmit
  <2>2. a.out \in Seq(Line) /\ <<x>> \in Seq(Line)
    BY <1>3, <1>5, KParts DEF IsBlock
  <2>3. r.out = a.out \o <<x>>
    <3> DEFINE o == a.out
    <3>1. o \in Seq(Line) /\ x \in Line /\ r.out = Append(o, x)
      BY <1>3, <1>7, <2>2
    <3> HIDE DEF o
    <3>2. r.out = o \o <<x>>
      BY <3>1, AppendIsConcat
    <3> QED
      BY <3>2 DEF o
  <2>4. Full(a, c) \in Seq(Line) /\ Full(r, c) = Full(a, c) \o <<x>>
    <3> DEFINE y == <<x>>
    <3>1. y \in Seq(Line) /\ r.out = a.out \o y /\ a \in KState /\ c \in Context
      BY <1>1, <1>5, <2>2, <2>3
    <3> HIDE DEF y
    <3>2. Full(a, c) \in Seq(Line) /\ Full(r, c) = Full(a, c) \o y
      BY <3>1, FullEmit
    <3> QED
      BY <3>2 DEF y
  <2>5. Full(r, c2) = Full(r, c)
    BY <1>4 DEF Full
  <2>6. Append(Full(a, c), x) = Full(a, c) \o <<x>>
    BY <1>3, <2>4, AppendIsConcat
  <2> QED
    BY <2>1, <2>4, <2>5, <2>6
<1>10. LinesOK(Full(k, c), k.buf, c.ln) /\ BuffersOK(k, c.ln)
       /\ BlocksOK(k, Full(k, c), c.exempt, c.quiet) /\ HeldOK(k, c.held, c.busy, X, Y)
  BY DEF Sound
<1>11. LinesOK(Full(r, c2), r.buf, ln2)
  <2> DEFINE b2 == [k.buf EXCEPT ![t] = <<>>]
             full == Full(a, c)
  <2>1. LinesOK(full, b2, c.ln)
    BY <1>1, <1>9, <1>10, EmitLines
  <2>2. b2 \in [Task -> Seq(Line)] /\ b2[t] = <<>>
    BY <1>1
  <2> HIDE DEF b2, full
  <2>3. full \in Seq(Line)
    BY <1>9 DEF full
  <2>4. LinesOK(Append(full, <<t, c.ln[t] + 1>>), b2, [c.ln EXCEPT ![t] = @ + 1])
    BY <1>1, <2>1, <2>2, <2>3, PrintedLine
  <2> QED
    BY <1>7, <1>9, <2>4 DEF b2, full, ln2
<1>12. IsBlock(b, t)
  BY <1>1, <1>10, BufferIsBlock DEF LinesOK
<1> HIDE DEF b
<1>13. BlocksOK(r, Full(r, c2), c.exempt, c.quiet)
  <2>1. LastIs(Full(k, c), t, c.exempt)
    BY <1>2, <1>10, TopAssumption DEF LastIs, BlocksOK, Ended, None
  <2>2. Unbroken(Full(a, c), c.exempt)
    BY <1>9, <1>10, <1>12, <2>1, EmitUnbroken DEF BlocksOK
  <2>3. Ended(a, Full(a, c), c.exempt, c.quiet)
    <3>1. Ended(k, Full(k, c), c.exempt, c.quiet)
      BY <1>10 DEF BlocksOK
    <3> QED
      BY <1>2, <1>5, <1>9, <1>12, <3>1, EmitLive
  <2>4. LastIs(Full(a, c), t, c.exempt)
    BY <1>2, <1>8, <2>3 DEF LastIs, Ended
  <2>5. Unbroken(Full(r, c2), c.exempt)
    BY <1>3, <1>9, <2>2, <2>4, EmitUnbroken
  <2>6. Ended(r, Full(r, c2), c.exempt, c.quiet)
    <3> DEFINE y == <<x>>
               full == Full(a, c)
    <3>1. /\ r.slots = a.slots /\ IsBlock(y, t) /\ full \in Seq(Line) /\ Full(r, c2) = full \o y
          /\ a.active = t /\ r.active = t /\ Ended(a, full, c.exempt, c.quiet)
      BY <1>3, <1>5, <1>7, <1>9, <2>3
    <3> HIDE DEF y, full
    <3>2. Ended(r, full \o y, c.exempt, c.quiet)
      BY <3>1, EmitLive
    <3> QED
      BY <3>1, <3>2
  <2> QED
    BY <1>8, <1>10, <2>5, <2>6 DEF BlocksOK
<1>14. \A u \in Task : r.buf[u] # <<>> => k.buf[u] # <<>>
  BY <1>1, <1>7
<1>15. BuffersOK(r, ln2)
  <2>1. r.buf[t] = <<>>
    BY <1>1, <1>7
  <2>2. ln2[t] > 0
    BY <1>1 DEF ln2
  <2> QED
    BY <1>7, <1>8, <1>10, <1>14, <2>1, <2>2 DEF BuffersOK
<1>16. HeldOK(r, c.held, c.busy, X, Y)
  <2>1. \A u \in Slots(k) : u \in Task
    BY <1>1, SlotIndex
  <2> QED
    BY <1>7, <1>8, <1>10, <1>14, <2>1 DEF HeldOK
<1>17. Shape(r)
  BY <1>1, <1>2, <1>7 DEF Shape
<1>18. FrontOK(r)
  BY <1>7, <1>8 DEF FrontOK
<1>19. Sound(r, c2, X, Y)
  BY <1>1, <1>4, <1>7, <1>11, <1>13, <1>15, <1>16, <1>17 DEF Sound
<1> QED
  BY <1>2, <1>7, <1>8, <1>18, <1>19

(* A line of a task that is not live: it goes to the task's buffer.        *)
LEMMA BufferedLineSound ==
    ASSUME NEW k, NEW c, NEW X, NEW Y, Sound(k, c, X, Y), FrontOK(k),
           NEW t \in Task, t \in c.busy, t \in Slots(k), k.active # t,
           NEW c2, c2 = WithLine(c, t),
           NEW r, r = [k EXCEPT !.buf[t] = Append(@, <<t, c.ln[t] + 1>>)]
    PROVE  /\ Sound(r, c2, X, Y) /\ FrontOK(r) /\ r.done = k.done
           /\ Slots(r) = Slots(k)
<1> DEFINE b2 == [k.buf EXCEPT ![t] = Append(@, <<t, c.ln[t] + 1>>)]
           ln2 == [c.ln EXCEPT ![t] = @ + 1]
<1>1. /\ Shape(k) /\ k \in KState /\ IsInjective(k.slots)
      /\ c \in Context /\ c.busy \subseteq c.held /\ k.done = c.done
      /\ k.slots \in Seq(Task) /\ k.buf \in [Task -> Seq(Line)] /\ k.out \in Seq(Line)
      /\ c.ln \in [Task -> Nat] /\ c.pr \in Seq(Line)
  BY KParts DEF Sound, Shape, Context
<1>2. b2 \in [Task -> Seq(Line)] /\ ln2 \in [Task -> Nat] /\ \A u \in Task \ {t} : b2[u] = k.buf[u]
  <2>1. <<t, c.ln[t] + 1>> \in Line
    BY <1>1 DEF Line
  <2>2. Append(k.buf[t], <<t, c.ln[t] + 1>>) \in Seq(Line)
    BY <1>1, <2>1, AppendProperties
  <2> QED
    BY <1>1, <2>2
<1>3. r = [k EXCEPT !.buf = b2] /\ c2 = [c EXCEPT !.ln = ln2]
  BY <1>1 DEF KState, Context, WithLine
<1>4. LinesOK(Full(k, c), k.buf, c.ln) /\ BuffersOK(k, c.ln)
      /\ BlocksOK(k, Full(k, c), c.exempt, c.quiet) /\ HeldOK(k, c.held, c.busy, X, Y)
  BY DEF Sound
<1>5. Full(k, c) \in Seq(Line)
  BY <1>1, ConcatProperties DEF Full
<1>6. LinesOK(Full(k, c), b2, ln2)
  BY <1>1, <1>4, <1>5, BufferLine
<1>7. k.active # None => k.active \in Task /\ ln2[k.active] = c.ln[k.active]
  BY <1>1, KParts
<1> HIDE DEF b2, ln2
<1>8. /\ r \in KState /\ r.buf = b2 /\ r.slots = k.slots /\ r.active = k.active
      /\ r.finished = k.finished /\ r.done = k.done /\ r.out = k.out
  BY <1>1, <1>2, <1>3 DEF KState
<1>9. /\ c2 \in Context /\ c2.pr = c.pr /\ c2.ln = ln2 /\ c2.exempt = c.exempt
      /\ c2.quiet = c.quiet /\ c2.held = c.held /\ c2.busy = c.busy /\ c2.done = c.done
  BY <1>1, <1>2, <1>3 DEF Context
<1>10. Slots(r) = Slots(k) /\ Full(r, c2) = Full(k, c)
  BY <1>8, <1>9 DEF Slots, Full
<1>11. BuffersOK(r, ln2)
  <2>1. \A u \in Task : r.buf[u] # <<>> => u \in Slots(r)
    <3> SUFFICES ASSUME NEW u \in Task, r.buf[u] # <<>> PROVE u \in Slots(r)
      OBVIOUS
    <3>1. CASE u = t
      BY <1>10, <3>1
    <3>2. CASE u # t
      BY <1>2, <1>4, <1>8, <1>10, <3>2 DEF BuffersOK
    <3> QED
      BY <3>1, <3>2
  <2>2. r.active # None => r.buf[r.active] = <<>> /\ ln2[r.active] > 0
    BY <1>2, <1>4, <1>7, <1>8 DEF BuffersOK
  <2> QED
    BY <2>1, <2>2 DEF BuffersOK
<1>12. HeldOK(r, c.held, c.busy, X, Y)
  <2> SUFFICES ASSUME NEW u \in Slots(k) \ k.finished
               PROVE  /\ u \in c.held \cup X
                      /\ r.active = u \/ r.buf[u] # <<>> => u \in c.busy \cup Y
    BY <1>8, <1>10 DEF HeldOK
  <2>1. u \in Task
    BY <1>1, SlotIndex
  <2>2. CASE u = t
    BY <1>4, <2>2 DEF HeldOK
  <2>3. CASE u # t
    BY <1>2, <1>4, <1>8, <2>1, <2>3 DEF HeldOK
  <2> QED
    BY <2>2, <2>3
<1>13. BlocksOK(r, Full(r, c2), c.exempt, c.quiet)
  <2> DEFINE full == Full(k, c)
  <2>1. BlocksOK(k, full, c.exempt, c.quiet)
    BY <1>4
  <2> HIDE DEF full
  <2>2. BlocksOK(r, full, c.exempt, c.quiet)
    BY <1>8, <1>10, <2>1 DEF BlocksOK, Ended
  <2> QED
    BY <1>10, <2>2 DEF full
<1>14. Shape(r) /\ FrontOK(r)
  BY <1>1, <1>8, <1>10 DEF Shape, FrontOK
<1>15. Sound(r, c2, X, Y)
  BY <1>1, <1>6, <1>8, <1>9, <1>10, <1>11, <1>12, <1>13, <1>14 DEF Sound
<1> QED
  BY <1>8, <1>10, <1>14, <1>15

(* The state r is sound, and is k with a line of t.                        *)
Lined(k, r, c, X, Y, t) ==
    /\ Sound(r, c, X, Y) /\ FrontOK(r) /\ r.done = k.done
    /\ Slots(r) = Slots(k) \cup {t}

(* on_stdout and on_stderr, before the results are displayed.              *)
LEMMA LineSound ==
    ASSUME NEW k, NEW c, NEW X, NEW Y, Sound(k, c, X, Y), FrontOK(k), k.out = <<>>,
           k.done = FALSE, NEW t \in Task, t \in c.busy, Room(c, t) \/ HasSlot(k, t),
           NEW c2, c2 = WithLine(c, t),
           NEW r, r = OnLine(k, t, <<t, c.ln[t] + 1>>)
    PROVE  Lined(k, r, c2, X, Y, t)
<1> DEFINE x == <<t, c.ln[t] + 1>>
           s == InitTask(k, t)
<1>1. CASE IsActive(k, t)
  <2>1. r = [Activate(k, t) EXCEPT !.out = Append(@, x)]
    BY <1>1 DEF OnLine
  <2>2. x = <<t, c.ln[t] + 1>>
    OBVIOUS
  <2> HIDE DEF x
  <2>3. /\ Sound(r, c2, X, Y) /\ FrontOK(r) /\ r.done = k.done
        /\ Slots(r) = Slots(k) /\ t \in Slots(k)
    BY <1>1, <2>1, <2>2, LiveLineSound
  <2> QED
    BY <2>3 DEF Lined
<1>2. CASE ~IsActive(k, t)
  <2>1. r = [s EXCEPT !.buf[t] = Append(@, x)]
    BY <1>2 DEF OnLine
  <2>2. /\ Sound(s, c, X, Y) /\ FrontOK(s) /\ s.active = k.active /\ s.done = k.done
        /\ Slots(s) = Slots(k) \cup {t}
    BY InitSound
  <2>3. k.active # t
    <3>1. t # None
      BY TopAssumption DEF None
    <3> QED
      BY <1>2, <3>1 DEF IsActive
  <2> HIDE DEF s
  <2>4. t \in Slots(s) /\ s.active # t
    BY <2>2, <2>3
  <2>5. Sound(r, c2, X, Y) /\ FrontOK(r) /\ r.done = s.done /\ Slots(r) = Slots(s)
    BY <2>1, <2>2, <2>4, BufferedLineSound
  <2> QED
    BY <2>2, <2>5 DEF Lined
<1> QED
  BY <1>1, <1>2

-----------------------------------------------------------------------------
(***************************************************************************)
(* The program, and the occurrences of its tasks.                          *)
(***************************************************************************)

(* An occurrence is a pair.                                                *)
LEMMA OccParts ==
    ASSUME NEW o \in Occ
    PROVE  /\ o[1] \in Task \cup {Top} /\ o[2] \in Task /\ o = <<o[1], o[2]>>
           /\ o[2] # Top
BY TopAssumption DEF Occ

(* The parts of a program.                                                 *)
LEMMA ProgramParts ==
    ASSUME prog \in Programs
    PROVE  /\ prog.top \in Seq(Task) /\ prog.prints \subseteq Task
           /\ prog.entries \in [Task -> Seq(Seq(Task))]
BY ProgramAssumption

(* The tasks that a task names are those of its entries.                   *)
LEMMA NamesOf ==
    ASSUME prog \in Programs, NEW h \in Task, NEW t
    PROVE  /\ Names(h) \in Seq(Task)
           /\ NamedBy(prog, h, t) <=> t \in ToSet(Names(h))
           /\ NamedBy(prog, h, t) <=> Contains(Names(h), t)
           /\ NamedBy(prog, h, t) => prog.entries[h] # <<>>
<1> DEFINE e == prog.entries[h]
<1>1. e \in Seq(Seq(Task)) /\ DOMAIN e = 1 .. Len(e) /\ \A i \in 1 .. Len(e) : e[i] \in Seq(Task)
  BY ProgramParts, LenProperties, ElementOfSeq
<1>2. NamedBy(prog, h, t) <=> \E i \in 1 .. Len(e) : Contains(e[i], t)
  BY <1>1, TopAssumption DEF NamedBy
<1>3. Names(h) = FlattenSeq(e)
  BY DEF Names
<1> HIDE DEF e
<1>4. \A i \in 1 .. Len(e) : Contains(e[i], t) <=> t \in ToSet(e[i])
  BY <1>1, InToSet DEF Contains
<1>5. Names(h) \in Seq(Task) /\ (t \in ToSet(Names(h)) <=> \E i \in 1 .. Len(e) : t \in ToSet(e[i]))
  BY <1>1, <1>3, FlattenProperties
<1>6. Contains(Names(h), t) <=> t \in ToSet(Names(h))
  BY <1>5, InToSet DEF Contains
<1>7. ASSUME NamedBy(prog, h, t) PROVE e # <<>>
  BY <1>2, <1>7
<1> QED
  BY <1>2, <1>4, <1>5, <1>6, <1>7 DEF e

(* A task with run entries has at most one occurrence.                     *)
LEMMA OneOccurrence ==
    ASSUME prog \in Programs, Origins, NEW o \in Occ, NEW q \in Occ, o[2] = q[2],
           life[o] # "none", life[q] # "none", prog.entries[o[2]] # <<>>
    PROVE  o = q
<1>1. NamedBy(prog, o[1], o[2]) /\ NamedBy(prog, q[1], o[2])
  BY DEF Origins
<1>2. /\ o[1] \in Task \cup {Top} /\ q[1] \in Task \cup {Top} /\ o[2] \in Task
      /\ o = <<o[1], o[2]>> /\ q = <<q[1], q[2]>>
  BY OccParts
<1>3. o[1] = q[1]
  BY <1>1, <1>2, ProgramAssumption
<1> QED
  BY <1>2, <1>3

(* A task that runs once and is named by the entries of a task has no      *)
(* other origin.                                                           *)
LEMMA OneOrigin ==
    ASSUME prog \in Programs, NEW t \in Task, RunsOnce(t), NEW p \in Task, NamedBy(prog, p, t),
           NEW h \in Task \cup {Top}, NamedBy(prog, h, t)
    PROVE  h = p
<1> DEFINE S == Parents(t)
<1>1. \A x \in Task : x \in S <=> NamedBy(prog, x, t)
  BY NamesOf DEF Parents
<1>2. IsFiniteSet(S)
  <2>1. S \subseteq Task
    BY DEF Parents
  <2> HIDE DEF S
  <2> QED
    BY <2>1, TaskAssumption, FS_Subset
<1>3. Cardinality(S) = IF Contains(prog.top, t) THEN 0 ELSE 1
  BY DEF RunsOnce
<1>4. p \in S
  BY <1>1
<1> HIDE DEF S
<1>5. ~Contains(prog.top, t)
  <2>1. Cardinality(S) # 0
    BY <1>2, <1>4, FS_EmptySet
  <2> QED
    BY <1>3, <2>1
<1>6. PICK x : S = {x}
  BY <1>2, <1>3, <1>5, FS_Singleton
<1>7. h # Top
  BY <1>5 DEF NamedBy
<1> QED
  BY <1>1, <1>4, <1>6, <1>7

(* An occurrence that waits, of a task that injects, has no children.      *)
LEMMA WaitingNoChild ==
    ASSUME prog \in Programs, Origins, NEW o \in Occ, life[o] = "waiting", NEW u \in Task
    PROVE  life[<<o[2], u>>] = "none"
<1> DEFINE q == <<o[2], u>>
<1>1. o[2] \in Task /\ q \in Occ /\ q[1] = o[2] /\ q[2] = u
  BY OccParts DEF Occ
<1> SUFFICES ASSUME life[q] # "none" PROVE FALSE
  OBVIOUS
<1>2. NamedBy(prog, o[2], u) /\
      \E r \in Occ : r[2] = o[2] /\ life[r] \in {"running", "failed", "over"}
  BY <1>1 DEF Origins
<1> HIDE DEF q
<1>3. prog.entries[o[2]] # <<>>
  BY <1>1, <1>2, NamesOf
<1>4. PICK r \in Occ : r[2] = o[2] /\ life[r] \in {"running", "failed", "over"}
  BY <1>2
<1>5. life[r] # "none" /\ life[o] # "none" /\ life[r] # life[o]
  BY <1>4
<1>6. r = o
  BY <1>3, <1>4, <1>5, OneOccurrence
<1> QED
  BY <1>5, <1>6

-----------------------------------------------------------------------------
(***************************************************************************)
(* A step of the run, around the operation it makes on the output: what    *)
(* the operation starts from (StepBegin), and what is left when its result *)
(* is committed (StepEnd). N are the tasks the step may give slots to.     *)
(***************************************************************************)
StepCtx(l, N) ==
    [pr |-> printed, ln |-> lines, exempt |-> Exempt,
     quiet |-> (Task \ CanPrint(life, stopping)) \cup Slots(ko) \cup N,
     held |-> Holders(l), busy |-> Begun(l), done |-> ko.done]

(* The fields of the context of a step, and of the context of the state.   *)
LEMMA StepFields ==
    ASSUME NEW l, NEW N
    PROVE  /\ StepCtx(l, N).pr = printed /\ StepCtx(l, N).ln = lines
           /\ StepCtx(l, N).exempt = Exempt
           /\ StepCtx(l, N).quiet = (Task \ CanPrint(life, stopping)) \cup Slots(ko) \cup N
           /\ StepCtx(l, N).held = Holders(l) /\ StepCtx(l, N).busy = Begun(l)
           /\ StepCtx(l, N).done = ko.done
           /\ Ctx.pr = printed /\ Ctx.ln = lines /\ Ctx.exempt = Exempt
           /\ Ctx.quiet = (Task \ CanPrint(life, stopping)) \cup Slots(ko)
           /\ Ctx.held = Holders(life) /\ Ctx.busy = Begun(life) /\ Ctx.done = ko.done
BY DEF StepCtx, Ctx

(* A task that has begun holds its slot.                                   *)
LEMMA BegunHolds ==
    ASSUME NEW l
    PROVE  Begun(l) \subseteq Holders(l) /\ Begun(l) \subseteq Task /\ Holders(l) \subseteq Task
BY DEF Begun, Holders, Orphan

(* The output state is sound in another context when lines and terminal    *)
(* are the same, no block loses its exemption, and what was quiet and has  *)
(* no slot is quiet or exempt.                                             *)
LEMMA ContextChange ==
    ASSUME NEW k, NEW c, NEW X, NEW Y, Sound(k, c, X, Y),
           NEW k2, k2.slots = k.slots, k2.buf = k.buf, k2.active = k.active,
           k2.finished = k.finished, k2 \in KState,
           NEW d, d \in Context, d.busy \subseteq d.held, k2.done = d.done, d.ln = c.ln,
           Full(k2, d) = Full(k, c), c.exempt \subseteq d.exempt, Slots(k) \subseteq d.quiet,
           \A t \in c.quiet \ Slots(k) : t \in d.exempt \/ t \in d.quiet,
           NEW V, NEW W, c.held \cup X \subseteq d.held \cup V, c.busy \cup Y \subseteq d.busy \cup W
    PROVE  Sound(k2, d, V, W)
<1> DEFINE full == Full(k, c)
<1>1. /\ Shape(k) /\ LinesOK(full, k.buf, c.ln) /\ BuffersOK(k, c.ln)
      /\ BlocksOK(k, full, c.exempt, c.quiet) /\ HeldOK(k, c.held, c.busy, X, Y)
  BY DEF Sound
<1> HIDE DEF full
<1>2. Slots(k2) = Slots(k)
  BY DEF Slots
<1>3. Shape(k2)
  BY <1>1 DEF Shape
<1>4. BuffersOK(k2, d.ln)
  BY <1>1, <1>2 DEF BuffersOK
<1>5. Ended(k2, full, d.exempt, d.quiet)
  BY <1>1, <1>2 DEF BlocksOK, Ended
<1>6. Unbroken(full, d.exempt)
  BY <1>1 DEF BlocksOK, Unbroken
<1>7. BlocksOK(k2, full, d.exempt, d.quiet)
  BY <1>2, <1>5, <1>6 DEF BlocksOK
<1>8. HeldOK(k2, d.held, d.busy, V, W)
  BY <1>1, <1>2 DEF HeldOK
<1>9. LinesOK(full, k2.buf, d.ln)
  BY <1>1
<1> QED
  BY <1>3, <1>4, <1>7, <1>8, <1>9 DEF Sound, full

(* The context of a step is one.                                           *)
LEMMA StepContext ==
    ASSUME IInv, NEW l, NEW N, N \subseteq Task
    PROVE  StepCtx(l, N) \in Context
<1>1. printed \in Seq(Line) /\ lines \in [Task -> Nat]
  BY LinesAssumption DEF IInv, Types
<1>2. ko \in KState /\ ko.done \in BOOLEAN
  BY KParts DEF IInv, Sound, Shape
<1>3. Slots(ko) \subseteq Task
  BY <1>2, SlotIndex
<1>4. Exempt \subseteq Task
  BY DEF Exempt
<1>5. Begun(l) \subseteq Task /\ Holders(l) \subseteq Task
  BY BegunHolds
<1> QED
  BY <1>1, <1>2, <1>3, <1>4, <1>5 DEF StepCtx, Context

(* Before the operation: the output is sound in the context of the step,   *)
(* but for the tasks whose occurrence ends with the step.                  *)
LEMMA StepBegin ==
    ASSUME IInv, NEW l, NEW N, N \subseteq Task, NEW X, NEW Y,
           Holders(life) \subseteq Holders(l) \cup X, Begun(life) \subseteq Begun(l) \cup Y
    PROVE  Sound(ko, StepCtx(l, N), X, Y)
<1> DEFINE c == Ctx
           d == StepCtx(l, N)
<1>1. Sound(ko, c, {}, {}) /\ ko \in KState /\ Slots(ko) \subseteq c.quiet /\ ko.done = c.done
  BY DEF IInv, Sound, Shape, BlocksOK
<1>2. /\ c.pr = printed /\ c.ln = lines /\ c.exempt = Exempt
      /\ c.quiet = (Task \ CanPrint(life, stopping)) \cup Slots(ko)
      /\ c.held = Holders(life) /\ c.busy = Begun(life)
      /\ d.pr = printed /\ d.ln = lines /\ d.exempt = Exempt
      /\ d.quiet = (Task \ CanPrint(life, stopping)) \cup Slots(ko) \cup N
      /\ d.held = Holders(l) /\ d.busy = Begun(l) /\ d.done = ko.done
  BY StepFields
<1>3. d \in Context
  BY StepContext
<1> HIDE DEF c, d
<1>4. d.busy \subseteq d.held
  BY <1>2, BegunHolds
<1>5. Full(ko, d) = Full(ko, c)
  BY <1>2 DEF Full
<1>6. /\ c.exempt \subseteq d.exempt /\ Slots(ko) \subseteq d.quiet /\ ko.done = d.done /\ d.ln = c.ln
      /\ \A t \in c.quiet \ Slots(ko) : t \in d.exempt \/ t \in d.quiet
      /\ c.held \cup {} \subseteq d.held \cup X /\ c.busy \cup {} \subseteq d.busy \cup Y
  BY <1>1, <1>2
<1>7. Sound(ko, d, X, Y)
  BY <1>1, <1>3, <1>4, <1>5, <1>6, ContextChange
<1> QED
  BY <1>7 DEF d

(* After the operation: a task that loses its slot and can still print is  *)
(* stranded, so the new state is sound in its own context.                 *)
LEMMA StepEnd ==
    ASSUME IInv, NEW k, NEW l, NEW stop, NEW N, NEW c, Commit(k, l, stop), prog' = prog,
           lines' \in [Task -> Nat],
           Sound(k, c, {}, {}), FrontOK(k), N \subseteq Slots(k),
           CanPrint(l, stop) \subseteq CanPrint(life, stopping) \cup N,
           c.pr = printed, c.ln = lines', c.exempt = Exempt,
           c.quiet = (Task \ CanPrint(life, stopping)) \cup Slots(ko) \cup N,
           c.held = Holders(l), c.busy = Begun(l)
    PROVE  /\ ko'.out = <<>> /\ FrontOK(ko') /\ Sound(ko', Ctx', {}, {})
           /\ printed' \in Seq(Line) /\ stranded' \subseteq Task /\ ko'.done = k.done
           /\ stopping' = stop /\ life' = l
<1> DEFINE d == Ctx'
<1>1. /\ ko' = [k EXCEPT !.out = <<>>] /\ printed' = printed \o k.out /\ life' = l /\ stopping' = stop
      /\ stranded' = stranded \cup
            {t \in Task :
                /\ (HasSlot(ko, t) /\ ~HasSlot(k, t)) \/ t \in k.finished \ ko.finished
                /\ \E o \in Alive(l, t) : l[o] # "waiting" \/ ~stop}
  BY DEF Commit
<1>2. k \in KState /\ k.out \in Seq(Line) /\ k.done \in BOOLEAN /\ c \in Context
  BY KParts DEF Sound, Shape
<1>3. /\ ko'.slots = k.slots /\ ko'.buf = k.buf /\ ko'.active = k.active
      /\ ko'.finished = k.finished /\ ko'.done = k.done /\ ko'.out = <<>>
      /\ ko' \in KState
  <2>1. <<>> \in Seq(Line)
    OBVIOUS
  <2> QED
    BY <1>1, <1>2, <2>1 DEF KState
<1>4. Slots(ko') = Slots(k)
  BY <1>3 DEF Slots
<1>5. FrontOK(ko')
  BY <1>3, <1>4 DEF FrontOK
<1>6. printed \in Seq(Line) /\ stranded \subseteq Task /\ ko \in KState
  BY DEF IInv, Types, Sound, Shape
<1>7. printed' \in Seq(Line) /\ stranded' \subseteq Task
  BY <1>1, <1>2, <1>6, ConcatProperties
<1>8. /\ d.pr = printed' /\ d.ln = lines' /\ d.exempt = Exempt'
      /\ d.quiet = (Task \ CanPrint(l, stop)) \cup Slots(k)
      /\ d.held = Holders(l) /\ d.busy = Begun(l) /\ d.done = k.done
  BY <1>1, <1>3, <1>4 DEF Ctx
<1>9. d \in Context
  <2>1. Slots(k) \subseteq Task
    BY <1>2, SlotIndex
  <2>2. Exempt' \subseteq Task
    BY DEF Exempt
  <2>3. Begun(l) \subseteq Task /\ Holders(l) \subseteq Task
    BY BegunHolds
  <2>4. d = [pr |-> printed', ln |-> lines', exempt |-> Exempt',
             quiet |-> (Task \ CanPrint(l, stop)) \cup Slots(k),
             held |-> Holders(l), busy |-> Begun(l), done |-> k.done]
    BY <1>1, <1>3, <1>4 DEF Ctx
  <2> HIDE DEF d
  <2> QED
    BY <1>2, <1>7, <2>1, <2>2, <2>3, <2>4 DEF Context
<1>10. Exempt \subseteq Exempt'
  <2>1. \A t \in Task : RunsOnce(t)' <=> RunsOnce(t)
    BY DEF RunsOnce, Parents, Names
  <2> QED
    BY <1>1, <2>1 DEF Exempt
<1>11. Full(ko', d) = Full(k, c)
  BY <1>1, <1>2, <1>3, <1>7, <1>8, ConcatEmptySeq DEF Full
<1>12. ASSUME NEW t \in c.quiet \ Slots(k)
       PROVE  t \in d.exempt \/ t \in d.quiet
  <2>1. t \in Task
    BY <1>2 DEF Context
  <2>2. CASE t \notin CanPrint(l, stop)
    BY <1>8, <2>1, <2>2
  <2>3. CASE t \in CanPrint(l, stop)
    <3>1. t \in Slots(ko)
      BY <2>1, <2>3
    <3>2. HasSlot(ko, t) /\ ~HasSlot(k, t)
      BY <1>2, <1>6, <3>1, SlotIndex
    <3>3. t \in stranded'
      BY <1>1, <2>1, <2>3, <3>2 DEF CanPrint
    <3> QED
      BY <1>8, <2>1, <3>3 DEF Exempt
  <2> QED
    BY <2>2, <2>3
<1> HIDE DEF d
<1>13. d.busy \subseteq d.held
  BY <1>8, BegunHolds
<1>14. /\ c.exempt \subseteq d.exempt /\ Slots(k) \subseteq d.quiet /\ ko'.done = d.done /\ d.ln = c.ln
       /\ c.held \cup {} \subseteq d.held \cup {} /\ c.busy \cup {} \subseteq d.busy \cup {}
  BY <1>3, <1>8, <1>10
<1>15. Sound(ko', d, {}, {})
  BY <1>3, <1>9, <1>11, <1>12, <1>13, <1>14, ContextChange
<1> QED
  BY <1>1, <1>3, <1>5, <1>7, <1>15 DEF d

-----------------------------------------------------------------------------
(***************************************************************************)
(* The lives. Forward: no occurrence goes back.                            *)
(***************************************************************************)
Life == {"none", "waiting", "starting", "running", "failed", "over"}

Forward(l) ==
    \A q \in Occ :
        /\ life[q] # "none" => l[q] # "none"
        /\ life[q] \in {"running", "failed", "over"} => l[q] \in {"running", "failed", "over"}
        /\ life[q] \in {"failed", "over"} => l[q] \in {"failed", "over"}

(* A step keeps what the invariant says of the lives when it moves them    *)
(* forward, injects only what the entries of a running task name, and      *)
(* takes lines only from a task that prints or has failed.                 *)
LEMMA LivesStep ==
    ASSUME LivesOK, prog' = prog, Forward(life'),
           \A q \in Occ : life[q] = "none" /\ life'[q] # "none" =>
               NamedBy(prog, q[1], q[2]) /\ \E r \in Occ : r[2] = q[1] /\ life[r] = "running",
           \A t \in Task : lines'[t] > 0 =>
               \/ lines[t] > 0
               \/ \E o \in Occ : /\ o[2] = t /\ life[o] # "none"
                                 /\ t \in prog.prints \/ life'[o] \in {"failed", "over"},
           ko'.done => \A o \in Occ : life'[o] \in {"none", "over"}
    PROVE  LivesOK'
<1>1. Origins'
  <2> SUFFICES ASSUME NEW o \in Occ, life'[o] # "none"
               PROVE  /\ NamedBy(prog, o[1], o[2])
                      /\ o[1] \in Task =>
                            \E q \in Occ : q[2] = o[1] /\ life'[q] \in {"running", "failed", "over"}
    BY DEF Origins
  <2>1. CASE life[o] = "none"
    BY <2>1 DEF Forward
  <2>2. CASE life[o] # "none"
    BY <2>2 DEF LivesOK, Origins, Forward
  <2> QED
    BY <2>1, <2>2
<1>2. Printers'
  <2> SUFFICES ASSUME NEW t \in Task, lines'[t] > 0
               PROVE  /\ \E o \in Occ : o[2] = t /\ life'[o] # "none"
                      /\ t \notin prog.prints =>
                            \E o \in Occ : o[2] = t /\ life'[o] \in {"failed", "over"}
    BY DEF Printers
  <2>1. CASE lines[t] > 0
    BY <2>1 DEF LivesOK, Printers, Forward
  <2>2. CASE ~(lines[t] > 0)
    BY <2>2 DEF Forward
  <2> QED
    BY <2>1, <2>2
<1> QED
  BY <1>1, <1>2 DEF LivesOK

(* While an occurrence is not over, the results are not displayed.         *)
LEMMA NotDone ==
    ASSUME IInv, NEW o \in Occ, life[o] # "none", life[o] # "over"
    PROVE  ko.done = FALSE
<1>1. ko.done \in BOOLEAN
  BY KParts DEF IInv, Sound, Shape
<1>2. ~ko.done
  BY DEF IInv, LivesOK
<1> QED
  BY <1>1, <1>2

(* How the life of one occurrence changes.                                 *)
Moves(from, to) ==
    \/ from = "waiting" /\ to \in {"starting", "over"}
    \/ from = "starting" /\ to = "running"
    \/ from = "running" /\ to \in {"failed", "over"}
    \/ from = "failed" /\ to = "over"

MoveTo(o, v) == [life EXCEPT ![o] = v]

(* What this does to the tasks that hold slots, that have begun and that   *)
(* can print.                                                              *)
Moved(l, o, v, stop) ==
    /\ l \in [Occ -> Life] /\ Forward(l)
    /\ \A q \in Occ : life[q] = "none" => l[q] = "none"
    /\ CanPrint(l, stop) \subseteq CanPrint(life, stopping)
    /\ \A u \in Begun(life) :
          u \in Begun(l) \/ (u = o[2] /\ v = "over" /\ life[o] \in {"running", "failed"})
    /\ \A u \in Holders(life) :
          \/ u \in Holders(l)
          \/ u = o[2] /\ v = "over" /\ ~Orphan(life, o)
          \/ /\ v \in {"failed", "over"} /\ life[o] \notin {"failed", "over"}
             /\ life[<<o[2], u>>] = "waiting"

(* One occurrence moves.                                                   *)
LEMMA Move ==
    ASSUME life \in [Occ -> Life], NEW o \in Occ, NEW v, Moves(life[o], v),
           NEW stop \in BOOLEAN, stopping => stop, v = "starting" => ~stopping
    PROVE  Moved(MoveTo(o, v), o, v, stop)
<1> DEFINE l == MoveTo(o, v)
<1>1. o[2] \in Task /\ \A q \in Occ : q[2] \in Task /\ q = <<q[1], q[2]>>
  BY OccParts
<1>2. l[o] = v /\ (\A q \in Occ \ {o} : l[q] = life[q]) /\ l = [life EXCEPT ![o] = v]
  BY DEF MoveTo
<1> HIDE DEF l
<1>3. v \in Life /\ v # "none" /\ v # "waiting" /\ life[o] \in Life /\ life[o] # "none"
  BY DEF Moves, Life
<1>4. l \in [Occ -> Life] /\ \A q \in Occ : life[q] = "none" => l[q] = "none"
  BY <1>2, <1>3
<1>5. Forward(l)
  <2> SUFFICES ASSUME NEW q \in Occ
               PROVE  /\ life[q] # "none" => l[q] # "none"
                      /\ life[q] \in {"running", "failed", "over"} =>
                            l[q] \in {"running", "failed", "over"}
                      /\ life[q] \in {"failed", "over"} => l[q] \in {"failed", "over"}
    BY DEF Forward
  <2>1. CASE q = o
    BY <1>2, <1>3, <2>1 DEF Moves
  <2>2. CASE q # o
    BY <1>2, <2>2
  <2> QED
    BY <2>1, <2>2
<1> HIDE DEF Moves
<1>6. ASSUME NEW u, u \in CanPrint(l, stop)
      PROVE  u \in CanPrint(life, stopping)
  <2>1. PICK q \in Alive(l, u) : l[q] # "waiting" \/ ~stop
    BY <1>6 DEF CanPrint
  <2>2. u \in Task /\ q \in Occ /\ q[2] = u /\ l[q] \in {"waiting", "starting", "running", "failed"}
    BY <1>6, <2>1 DEF CanPrint, Alive
  <2>3. CASE q # o
    <3>1. q \in Alive(life, u)
      BY <1>2, <2>2, <2>3 DEF Alive
    <3> QED
      BY <1>2, <2>1, <2>2, <2>3, <3>1 DEF CanPrint
  <2>4. CASE q = o
    <3>1. v \in {"starting", "running", "failed"}
      BY <1>2, <1>3, <2>2, <2>4
    <3>2. life[o] \in {"waiting", "starting", "running"} /\ (life[o] # "waiting" \/ ~stopping)
      BY <3>1 DEF Moves
    <3>3. o \in Alive(life, u)
      BY <2>2, <2>4, <3>2 DEF Alive
    <3> QED
      BY <2>2, <3>2, <3>3 DEF CanPrint
  <2> QED
    BY <2>3, <2>4
<1>7. ASSUME NEW u \in Begun(life)
      PROVE  u \in Begun(l) \/ (u = o[2] /\ v = "over" /\ life[o] \in {"running", "failed"})
  <2>1. PICK q \in Alive(life, u) : life[q] \in {"running", "failed"}
    BY DEF Begun
  <2>2. u \in Task /\ q \in Occ /\ q[2] = u
    BY <2>1 DEF Begun, Alive
  <2>3. CASE q # o
    <3>1. q \in Alive(l, u)
      BY <1>2, <2>1, <2>2, <2>3 DEF Alive
    <3> QED
      BY <1>2, <2>1, <2>2, <2>3, <3>1 DEF Begun
  <2>4. CASE q = o /\ v # "over"
    <3>1. v = "failed"
      BY <2>1, <2>4 DEF Moves
    <3>2. o \in Alive(l, u)
      BY <1>2, <2>2, <2>4, <3>1 DEF Alive
    <3> QED
      BY <1>2, <2>2, <3>1, <3>2 DEF Begun
  <2> QED
    BY <2>1, <2>2, <2>3, <2>4
<1>8. ASSUME NEW u \in Holders(life)
      PROVE  \/ u \in Holders(l)
             \/ u = o[2] /\ v = "over" /\ ~Orphan(life, o)
             \/ /\ v \in {"failed", "over"} /\ life[o] \notin {"failed", "over"}
                /\ life[<<o[2], u>>] = "waiting"
  <2>1. PICK q \in Alive(life, u) : ~Orphan(life, q)
    BY DEF Holders
  <2>2. /\ u \in Task /\ q \in Occ /\ q[2] = u
        /\ life[q] \in {"waiting", "starting", "running", "failed"}
    BY <2>1 DEF Holders, Alive
  <2>3. CASE q = o /\ v = "over"
    BY <2>1, <2>2, <2>3
  <2>4. CASE q = o /\ v # "over"
    <3>1. v \in {"starting", "running", "failed"}
      BY <2>4 DEF Moves
    <3>2. o \in Alive(l, u)
      BY <1>2, <2>2, <2>4, <3>1 DEF Alive
    <3>3. ~Orphan(l, o)
      BY <1>2, <1>3 DEF Orphan
    <3> QED
      BY <2>2, <3>2, <3>3 DEF Holders
  <2>5. CASE q # o
    <3>1. q \in Alive(l, u) /\ l[q] = life[q]
      BY <1>2, <2>2, <2>5 DEF Alive
    <3>2. CASE ~Orphan(l, q)
      BY <2>2, <3>1, <3>2 DEF Holders
    <3>3. CASE Orphan(l, q)
      <4>1. PICK r \in Occ : r[2] = q[1] /\ l[r] \in {"failed", "over"}
        BY <3>3 DEF Orphan
      <4>2. life[q] = "waiting"
        BY <3>1, <3>3 DEF Orphan
      <4>3. life[r] \notin {"failed", "over"}
        BY <2>1, <2>2, <4>1, <4>2 DEF Orphan
      <4>4. r = o /\ v \in {"failed", "over"}
        BY <1>2, <4>1, <4>3
      <4>5. q = <<o[2], u>>
        BY <1>1, <2>2, <4>1, <4>4
      <4> QED
        BY <4>2, <4>3, <4>4, <4>5
    <3> QED
      BY <3>2, <3>3
  <2> QED
    BY <2>3, <2>4, <2>5
<1>9. Moved(l, o, v, stop)
  BY <1>4, <1>5, <1>6, <1>7, <1>8 DEF Moved
<1> QED
  BY <1>9 DEF l

(* A step that leaves the output alone.                                    *)
LEMMA QuietCommit ==
    ASSUME IInv, UNCHANGED <<ko, printed, stopping, stranded>>
    PROVE  Commit(ko, life', stopping)
<1>1. ko \in KState /\ ko.out = <<>> /\ printed \in Seq(Line)
  BY DEF IInv, Types, Sound, Shape
<1>2. ko' = [ko EXCEPT !.out = <<>>]
  BY <1>1 DEF KState
<1>3. printed' = printed \o ko.out
  BY <1>1, ConcatEmptySeq
<1>4. stranded' = stranded \cup
          {t \in Task :
              /\ (HasSlot(ko, t) /\ ~HasSlot(ko, t)) \/ t \in ko.finished \ ko.finished
              /\ \E o \in Alive(life', t) : life'[o] # "waiting" \/ ~stopping}
  OBVIOUS
<1> QED
  BY <1>2, <1>3, <1>4 DEF Commit

(* What the rest of the state becomes.                                     *)
StepTypes(l, stop) ==
    /\ prog' = prog /\ l \in [Occ -> Life] /\ stop \in BOOLEAN
    /\ lines' \in [Task -> 0 .. MaxLines + 1]
    /\ ~stop => \A t \in Task : lines'[t] <= MaxLines
    /\ entry' \in [Task -> Nat] /\ known' \in [Task -> SUBSET Task]

StepLives(k, l) ==
    /\ Forward(l)
    /\ \A q \in Occ : life[q] = "none" /\ l[q] # "none" =>
          NamedBy(prog, q[1], q[2]) /\ \E r \in Occ : r[2] = q[1] /\ life[r] = "running"
    /\ \A t \in Task : lines'[t] > 0 =>
          \/ lines[t] > 0
          \/ \E o \in Occ : /\ o[2] = t /\ life[o] # "none"
                            /\ t \in prog.prints \/ l[o] \in {"failed", "over"}
    /\ k.done => \A o \in Occ : l[o] \in {"none", "over"}

(* What the operation has left, in the context of the step with the lines  *)
(* it has produced.                                                        *)
StepOutput(k, l, stop, N, c) ==
    /\ Sound(k, c, {}, {}) /\ FrontOK(k) /\ N \subseteq Slots(k)
    /\ CanPrint(l, stop) \subseteq CanPrint(life, stopping) \cup N
    /\ c.pr = printed /\ c.ln = lines' /\ c.exempt = Exempt
    /\ c.quiet = (Task \ CanPrint(life, stopping)) \cup Slots(ko) \cup N
    /\ c.held = Holders(l) /\ c.busy = Begun(l)

(* A step that commits a sound output state and moves the lives forward    *)
(* keeps the invariant.                                                    *)
LEMMA StepInv ==
    ASSUME IInv, NEW k, NEW l, NEW stop, NEW N, NEW c, Commit(k, l, stop),
           StepTypes(l, stop), StepLives(k, l), StepOutput(k, l, stop, N, c)
    PROVE  IInv'
<1>1. lines' \in [Task -> Nat] /\ prog' = prog
  BY LinesAssumption DEF StepTypes
<1>2. /\ ko'.out = <<>> /\ FrontOK(ko') /\ Sound(ko', Ctx', {}, {})
      /\ printed' \in Seq(Line) /\ stranded' \subseteq Task /\ ko'.done = k.done
      /\ stopping' = stop /\ life' = l
  BY <1>1, StepEnd DEF StepOutput
<1>3. Types'
  <2>1. prog' \in Programs
    BY <1>1 DEF IInv, Types
  <2> QED
    BY <1>2, <2>1 DEF Types, StepTypes, Life
<1>4. LivesOK'
  <2>1. LivesOK
    BY DEF IInv
  <2>2. StepLives(k, life') /\ ko'.done = k.done
    BY <1>2
  <2> QED
    BY <1>1, <2>1, <2>2, LivesStep DEF StepLives
<1>5. FrontOK(ko)' /\ Sound(ko, Ctx, {}, {})'
  BY <1>2
<1> QED
  BY <1>2, <1>3, <1>4, <1>5 DEF IInv

(* A step that leaves the output and the lines alone and moves one         *)
(* occurrence, with the same tasks holding slots.                          *)
LEMMA QuietMove ==
    ASSUME IInv, NEW o \in Occ, NEW v, Moves(life[o], v), v = "starting" => ~stopping,
           life' = MoveTo(o, v), Holders(life) \subseteq Holders(life'),
           Begun(life) \subseteq Begun(life'), known' \in [Task -> SUBSET Task],
           UNCHANGED <<prog, ko, printed, entry, lines, stopping, stranded>>
    PROVE  IInv'
<1> DEFINE c == StepCtx(life', {})
<1>1. Commit(ko, life', stopping)
  BY QuietCommit
<1>2. Sound(ko, c, {}, {})
  BY StepBegin
<1>3. /\ life \in [Occ -> Life] /\ stopping \in BOOLEAN /\ lines' \in [Task -> 0 .. MaxLines + 1]
      /\ entry' \in [Task -> Nat] /\ (~stopping => \A t \in Task : lines'[t] <= MaxLines)
      /\ FrontOK(ko)
  BY DEF IInv, Types, Life
<1>4. /\ life' \in [Occ -> Life] /\ Forward(life')
      /\ \A q \in Occ : life[q] = "none" => life'[q] = "none"
      /\ CanPrint(life', stopping) \subseteq CanPrint(life, stopping)
  <2>1. Moved(life', o, v, stopping)
    BY <1>3, Move
  <2> QED
    BY <2>1 DEF Moved
<1>5. ko.done = FALSE
  <2>1. life[o] # "none" /\ life[o] # "over"
    BY DEF Moves
  <2> QED
    BY <2>1, NotDone
<1>6. /\ c.pr = printed /\ c.ln = lines' /\ c.exempt = Exempt
      /\ c.quiet = (Task \ CanPrint(life, stopping)) \cup Slots(ko) \cup {}
      /\ c.held = Holders(life') /\ c.busy = Begun(life') /\ c.done = ko.done
  BY StepFields
<1> HIDE DEF c
<1>7. StepOutput(ko, life', stopping, {}, c)
  BY <1>2, <1>3, <1>4, <1>6 DEF StepOutput
<1>8. StepTypes(life', stopping)
  BY <1>3, <1>4 DEF StepTypes
<1>9. StepLives(ko, life')
  BY <1>4, <1>5 DEF StepLives
<1> QED
  BY <1>1, <1>7, <1>8, <1>9, StepInv

(* mark_executed.                                                          *)
LEMMA AdmitInv ==
    ASSUME IInv, NEW o \in Occ, Admit(o)
    PROVE  IInv'
<1>1. /\ life[o] = "waiting" /\ ~stopping /\ life' = MoveTo(o, "starting")
      /\ UNCHANGED <<prog, ko, printed, entry, known, lines, stopping, stranded>>
  BY DEF Admit, MoveTo
<1>2. life \in [Occ -> Life] /\ stopping \in BOOLEAN /\ known' \in [Task -> SUBSET Task] /\ Moves(life[o], "starting")
  BY <1>1 DEF IInv, Types, Life, Moves
<1>3. Moved(life', o, "starting", stopping)
  BY <1>1, <1>2, Move
<1>4. Holders(life) \subseteq Holders(life') /\ Begun(life) \subseteq Begun(life')
  BY <1>3 DEF Moved
<1> QED
  BY <1>1, <1>2, <1>4, QuietMove

(* A job begins.                                                           *)
LEMMA StartInv ==
    ASSUME IInv, NEW o \in Occ, Start(o)
    PROVE  IInv'
<1>1. /\ life[o] = "starting" /\ life' = MoveTo(o, "running")
      /\ known' = [known EXCEPT ![o[2]] = {t \in Task : life[<<o[1], t>>] = "over"} \cup
                                          (IF o[1] = Top THEN {} ELSE known[o[1]])]
      /\ UNCHANGED <<prog, ko, printed, entry, lines, stopping, stranded>>
  BY DEF Start, MoveTo
<1>2. life \in [Occ -> Life] /\ stopping \in BOOLEAN /\ known \in [Task -> SUBSET Task] /\ Moves(life[o], "running")
  BY <1>1 DEF IInv, Types, Life, Moves
<1>3. known' \in [Task -> SUBSET Task]
  BY <1>1, <1>2, OccParts
<1>4. Moved(life', o, "running", stopping)
  BY <1>1, <1>2, Move
<1>5. Holders(life) \subseteq Holders(life') /\ Begun(life) \subseteq Begun(life')
  BY <1>4 DEF Moved
<1> QED
  BY <1>1, <1>2, <1>3, <1>5, QuietMove

(* An occurrence that its parent abandoned is forgotten: it held no slot.  *)
LEMMA ForgetInv ==
    ASSUME IInv, NEW o \in Occ, Forget(o)
    PROVE  IInv'
<1>1. /\ life[o] = "waiting" /\ Orphan(life, o) /\ life' = MoveTo(o, "over")
      /\ UNCHANGED <<prog, ko, printed, entry, known, lines, stopping, stranded>>
  BY DEF Forget, Orphan, MoveTo
<1>2. /\ life \in [Occ -> Life] /\ known' \in [Task -> SUBSET Task] /\ Moves(life[o], "over")
      /\ prog \in Programs /\ Origins /\ stopping \in BOOLEAN
  BY <1>1 DEF IInv, Types, Life, Moves, LivesOK
<1>3. \A u \in Task : life[<<o[2], u>>] # "waiting"
  BY <1>1, <1>2, WaitingNoChild
<1>4. Moved(life', o, "over", stopping)
  BY <1>1, <1>2, Move
<1>5. Begun(life) \subseteq Begun(life')
  BY <1>1, <1>4 DEF Moved
<1>6. Holders(life) \subseteq Holders(life')
  BY <1>1, <1>3, <1>4, BegunHolds DEF Moved
<1> QED
  BY <1>1, <1>2, <1>5, <1>6, QuietMove

(* The slot of an occurrence that ends goes, or waits for its turn.        *)
LEMMA EndInv ==
    ASSUME IInv, NEW o \in Occ, Moves(life[o], "over"), NEW l, l = MoveTo(o, "over"),
           \A u \in Task : life[o] \in {"failed", "over"} \/ life[<<o[2], u>>] # "waiting",
           Commit(OnTaskFinished(ko, o[2]), l, stopping), UNCHANGED <<prog, entry, known, lines>>
    PROVE  IInv'
<1> DEFINE c == StepCtx(l, {})
           t == o[2]
           k == OnTaskFinished(ko, t)
<1>1. /\ life \in [Occ -> Life] /\ stopping \in BOOLEAN /\ lines' \in [Task -> 0 .. MaxLines + 1]
      /\ entry' \in [Task -> Nat] /\ (~stopping => \A u \in Task : lines'[u] <= MaxLines)
      /\ known' \in [Task -> SUBSET Task] /\ FrontOK(ko) /\ t \in Task
  BY OccParts DEF IInv, Types, Life
<1>2. /\ l \in [Occ -> Life] /\ Forward(l)
      /\ \A q \in Occ : life[q] = "none" => l[q] = "none"
      /\ CanPrint(l, stopping) \subseteq CanPrint(life, stopping)
      /\ Moved(l, o, "over", stopping)
  <2>1. Moved(l, o, "over", stopping)
    BY <1>1, Move
  <2> QED
    BY <2>1 DEF Moved
<1>3. Begun(life) \subseteq Begun(l) \cup {t}
  BY <1>2 DEF Moved
<1>4. Holders(life) \subseteq Holders(l) \cup {t}
  BY <1>2, BegunHolds DEF Moved
<1>5. Sound(ko, c, {t}, {t})
  BY <1>3, <1>4, StepBegin
<1>6. /\ c.pr = printed /\ c.ln = lines' /\ c.exempt = Exempt
      /\ c.quiet = (Task \ CanPrint(life, stopping)) \cup Slots(ko) \cup {}
      /\ c.held = Holders(l) /\ c.busy = Begun(l) /\ c.done = ko.done
  BY StepFields
<1> HIDE DEF c, t
<1>7. Sound(k, c, {}, {}) /\ FrontOK(k)
  <2>1. Sound(k, c, {t} \ {t}, {t} \ {t}) /\ FrontOK(k)
    BY <1>1, <1>5, FinishedSound
  <2>2. {t} \ {t} = {}
    OBVIOUS
  <2> QED
    BY <2>1, <2>2
<1>8. Commit(k, l, stopping)
  BY DEF t
<1> HIDE DEF k
<1>9. k.done = FALSE
  <2>1. life[o] # "none" /\ life[o] # "over"
    BY DEF Moves
  <2>2. ko.done = FALSE
    BY <2>1, NotDone
  <2> QED
    BY <1>6, <1>7, <2>2 DEF Sound
<1>10. StepOutput(k, l, stopping, {}, c)
  BY <1>2, <1>6, <1>7 DEF StepOutput
<1>11. StepTypes(l, stopping)
  BY <1>1, <1>2 DEF StepTypes
<1>12. StepLives(k, l)
  BY <1>2, <1>9 DEF StepLives
<1> QED
  BY <1>8, <1>10, <1>11, <1>12, StepInv

(* A job ends.                                                             *)
LEMMA FinishInv ==
    ASSUME IInv, NEW o \in Occ, Finish(o)
    PROVE  IInv'
<1> DEFINE l == MoveTo(o, "over")
<1>1. /\ life[o] = "failed" \/ Free(o)
      /\ Commit(OnTaskFinished(ko, o[2]), l, stopping) /\ UNCHANGED <<prog, entry, known, lines>>
  BY DEF Finish, MoveTo
<1>2. Moves(life[o], "over")
  BY <1>1 DEF Moves, Free
<1>3. \A u \in Task : life[o] \in {"failed", "over"} \/ life[<<o[2], u>>] # "waiting"
  <2> SUFFICES ASSUME Free(o), NEW u \in Task, life[<<o[2], u>>] = "waiting" PROVE FALSE
    BY <1>1
  <2>1. <<o[2], u>> \in Occ /\ o[2] \in Task
    BY OccParts DEF Occ
  <2>2. <<o[2], u>> \in Awaited(o[2])
    BY <2>1 DEF Awaited
  <2> QED
    BY <2>2 DEF Free
<1> QED
  BY <1>1, <1>2, <1>3, EndInv

(* A task the stopping run never starts.                                   *)
LEMMA DropInv ==
    ASSUME IInv, NEW o \in Occ, Drop(o)
    PROVE  IInv'
<1> DEFINE l == MoveTo(o, "over")
<1>1. /\ life[o] = "waiting"
      /\ Commit(OnTaskFinished(ko, o[2]), l, stopping) /\ UNCHANGED <<prog, entry, known, lines>>
  BY DEF Drop, MoveTo
<1>2. Moves(life[o], "over") /\ prog \in Programs /\ Origins
  BY <1>1 DEF Moves, IInv, Types, LivesOK
<1>3. \A u \in Task : life[o] \in {"failed", "over"} \/ life[<<o[2], u>>] # "waiting"
  BY <1>1, <1>2, WaitingNoChild
<1> QED
  BY <1>1, <1>2, <1>3, EndInv

(* A line of a running task: the output is sound with the line.            *)
LEMMA LineOutput ==
    ASSUME IInv, NEW o \in Occ, life[o] = "running", NEW l, NEW stop,
           Holders(life) \subseteq Holders(l), Begun(life) \subseteq Begun(l),
           CanPrint(l, stop) \subseteq CanPrint(life, stopping),
           lines' = [lines EXCEPT ![o[2]] = @ + 1],
           NEW k, k = OnLine(ko, o[2], <<o[2], lines[o[2]] + 1>>)
    PROVE  /\ \E c : StepOutput(k, l, stop, {o[2]}, c)
           /\ k.done = FALSE
<1> DEFINE t == o[2]
           c == StepCtx(l, {t})
           c2 == WithLine(c, t)
<1>1. t \in Task /\ FrontOK(ko) /\ ko.out = <<>> /\ lines \in [Task -> Nat]
  BY OccParts, LinesAssumption DEF IInv, Types
<1>2. ko.done = FALSE
  BY NotDone
<1>3. Sound(ko, c, {}, {}) /\ c \in Context
  BY <1>1, StepBegin, StepContext
<1>4. /\ c.pr = printed /\ c.ln = lines /\ c.exempt = Exempt
      /\ c.quiet = (Task \ CanPrint(life, stopping)) \cup Slots(ko) \cup {t}
      /\ c.held = Holders(l) /\ c.busy = Begun(l) /\ c.done = ko.done
  BY StepFields
<1>5. o \in Alive(life, t) /\ t \in CanPrint(life, stopping) /\ t \in Begun(life)
  <2>1. o \in Alive(life, t)
    BY DEF Alive
  <2> QED
    BY <1>1, <2>1 DEF CanPrint, Begun
<1>6. t \in Begun(l) /\ t \in Holders(l)
  BY <1>5, BegunHolds
<1>7. ko \in KState
  BY <1>3 DEF Sound, Shape
<1> HIDE DEF t
<1>8. Room(c, t) \/ HasSlot(ko, t)
  <2> SUFFICES ASSUME ~HasSlot(ko, t), NEW i \in DOMAIN printed, printed[i][1] = t, t \notin Exempt
               PROVE  FALSE
    BY <1>4, <1>6 DEF Room
  <2>1. t \notin Slots(ko)
    BY <1>7, SlotIndex
  <2>2. Ended(ko, printed, Exempt, Ctx.quiet)
    <3>1. Ended(ko, Full(ko, Ctx), Ctx.exempt, Ctx.quiet)
      BY DEF IInv, Sound, BlocksOK
    <3>2. Full(ko, Ctx) = printed /\ Ctx.exempt = Exempt
      <4>1. printed \in Seq(Line) /\ Ctx.pr = printed
        BY StepFields DEF IInv, Types
      <4> QED
        BY <1>1, <4>1, StepFields, ConcatEmptySeq DEF Full
    <3> QED
      BY <3>1, <3>2
  <2>3. t \notin Ctx.quiet
    BY <1>5, <2>1, StepFields
  <2>4. t = ko.active
    BY <2>2, <2>3 DEF Ended
  <2>5. ko.active # None => ko.active \in Slots(ko)
    BY <1>3, <1>7, KParts, FirstSlot DEF Sound, Shape, Slots
  <2> QED
    BY <1>1, <2>1, <2>4, <2>5, TopAssumption DEF None
<1> HIDE DEF c
<1>9. k = OnLine(ko, t, <<t, c.ln[t] + 1>>) /\ c2 = WithLine(c, t)
  BY <1>4 DEF t
<1>10. /\ c2.pr = printed /\ c2.ln = lines' /\ c2.exempt = Exempt
       /\ c2.quiet = (Task \ CanPrint(life, stopping)) \cup Slots(ko) \cup {t}
       /\ c2.held = Holders(l) /\ c2.busy = Begun(l) /\ c2.done = ko.done
  <2> DEFINE ln2 == [c.ln EXCEPT ![t] = @ + 1]
  <2>1. ln2 = lines'
    BY <1>4 DEF t
  <2>2. c2 = [c EXCEPT !.ln = ln2]
    BY DEF WithLine
  <2> HIDE DEF c2, ln2
  <2> QED
    BY <1>3, <1>4, <2>1, <2>2 DEF Context
<1> HIDE DEF c2
<1>11. Lined(ko, k, c2, {}, {}, t)
  <2>1. t \in c.busy
    BY <1>4, <1>6
  <2> QED
    BY <1>1, <1>2, <1>3, <1>8, <1>9, <2>1, LineSound
<1>12. StepOutput(k, l, stop, {t}, c2)
  BY <1>10, <1>11 DEF StepOutput, Lined
<1>13. k.done = FALSE
  BY <1>2, <1>11 DEF Lined
<1> QED
  BY <1>12, <1>13 DEF t

(* A line of the task's own command.                                       *)
LEMMA PrintLineInv ==
    ASSUME IInv, NEW o \in Occ, PrintLine(o)
    PROVE  IInv'
<1> DEFINE t == o[2]
           k == OnLine(ko, t, <<t, lines[t] + 1>>)
<1>1. /\ life[o] = "running" /\ t \in prog.prints /\ lines[t] < MaxLines
      /\ lines' = [lines EXCEPT ![t] = @ + 1] /\ Commit(k, life, stopping)
      /\ UNCHANGED <<prog, entry, known>>
  BY DEF PrintLine, Free
<1>2. /\ life \in [Occ -> Life] /\ stopping \in BOOLEAN /\ lines \in [Task -> 0 .. MaxLines + 1]
      /\ entry' \in [Task -> Nat] /\ (~stopping => \A u \in Task : lines[u] <= MaxLines)
      /\ known' \in [Task -> SUBSET Task] /\ t \in Task
  BY <1>1, OccParts DEF IInv, Types, Life
<1>3. PICK c : StepOutput(k, life, stopping, {t}, c)
  BY <1>1, LineOutput
<1>4. k.done = FALSE
  BY <1>1, LineOutput
<1> HIDE DEF k, t
<1>5. lines' \in [Task -> 0 .. MaxLines + 1] /\ (~stopping => \A u \in Task : lines'[u] <= MaxLines)
  BY <1>1, <1>2, LinesAssumption
<1>6. StepTypes(life, stopping)
  BY <1>1, <1>2, <1>5 DEF StepTypes
<1>7. Forward(life)
  BY DEF Forward
<1>8. \A u \in Task : lines'[u] > 0 =>
          \/ lines[u] > 0
          \/ \E q \in Occ : /\ q[2] = u /\ life[q] # "none"
                            /\ u \in prog.prints \/ life[q] \in {"failed", "over"}
  <2> SUFFICES ASSUME NEW u \in Task, lines'[u] > 0, u # t PROVE lines[u] > 0
    BY <1>1 DEF t
  <2> QED
    BY <1>1, <1>2
<1>9. StepLives(k, life)
  BY <1>4, <1>7, <1>8 DEF StepLives
<1> QED
  BY <1>1, <1>3, <1>6, <1>9, StepInv

(* A failure, with the line of its error unless the run was stopping.      *)
LEMMA FailInv ==
    ASSUME IInv, NEW o \in Occ, Fail(o)
    PROVE  IInv'
<1> DEFINE t == o[2]
           l == MoveTo(o, "failed")
<1>1. /\ life[o] = "running" /\ Awaited(t) = {} /\ UNCHANGED <<prog, entry, known>>
      /\ \/ stopping /\ Commit(ko, l, TRUE) /\ lines' = lines
         \/ /\ ~stopping /\ Commit(OnLine(ko, t, <<t, lines[t] + 1>>), l, TRUE)
            /\ lines' = [lines EXCEPT ![t] = @ + 1]
  BY DEF Fail, Free, MoveTo
<1>2. /\ life \in [Occ -> Life] /\ stopping \in BOOLEAN /\ lines \in [Task -> 0 .. MaxLines + 1]
      /\ entry' \in [Task -> Nat] /\ (~stopping => \A u \in Task : lines[u] <= MaxLines)
      /\ known' \in [Task -> SUBSET Task] /\ t \in Task /\ FrontOK(ko)
  BY <1>1, OccParts DEF IInv, Types, Life
<1>3. Moved(l, o, "failed", TRUE)
  <2>1. Moves(life[o], "failed")
    BY <1>1 DEF Moves
  <2> QED
    BY <1>2, <2>1, Move
<1>4. \A u \in Task : life[<<t, u>>] # "waiting"
  <2> SUFFICES ASSUME NEW u \in Task, life[<<t, u>>] = "waiting" PROVE FALSE
    OBVIOUS
  <2>1. <<t, u>> \in Occ
    BY <1>2 DEF Occ
  <2>2. <<t, u>> \in Awaited(t)
    BY <1>2, <2>1 DEF Awaited
  <2> QED
    BY <1>1, <2>2
<1>5. l[o] = "failed"
  BY <1>2 DEF MoveTo
<1> HIDE DEF l
<1>6. Holders(life) \subseteq Holders(l) /\ Begun(life) \subseteq Begun(l)
  BY <1>3, <1>4, BegunHolds DEF Moved
<1>7. /\ l \in [Occ -> Life] /\ Forward(l) /\ CanPrint(l, TRUE) \subseteq CanPrint(life, stopping)
      /\ \A q \in Occ : life[q] = "none" => l[q] = "none"
  BY <1>3 DEF Moved
<1>8. CASE stopping /\ Commit(ko, l, TRUE) /\ lines' = lines
  <2> DEFINE c == StepCtx(l, {})
  <2>1. Sound(ko, c, {}, {})
    BY <1>6, StepBegin
  <2>2. /\ c.pr = printed /\ c.ln = lines /\ c.exempt = Exempt
        /\ c.quiet = (Task \ CanPrint(life, stopping)) \cup Slots(ko) \cup {}
        /\ c.held = Holders(l) /\ c.busy = Begun(l) /\ c.done = ko.done
    BY StepFields
  <2> HIDE DEF c
  <2>3. StepOutput(ko, l, TRUE, {}, c)
    BY <1>2, <1>7, <1>8, <2>1, <2>2 DEF StepOutput
  <2>4. StepTypes(l, TRUE)
    BY <1>1, <1>2, <1>7, <1>8 DEF StepTypes
  <2>5. ko.done = FALSE
    BY <1>1, NotDone
  <2>6. StepLives(ko, l)
    BY <1>7, <1>8, <2>5 DEF StepLives
  <2> QED
    BY <1>8, <2>3, <2>4, <2>6, StepInv
<1>9. CASE /\ ~stopping /\ Commit(OnLine(ko, t, <<t, lines[t] + 1>>), l, TRUE)
           /\ lines' = [lines EXCEPT ![t] = @ + 1]
  <2> DEFINE k == OnLine(ko, t, <<t, lines[t] + 1>>)
  <2>1. PICK c : StepOutput(k, l, TRUE, {t}, c)
    BY <1>1, <1>6, <1>7, <1>9, LineOutput
  <2>2. k.done = FALSE
    BY <1>1, <1>6, <1>7, <1>9, LineOutput
  <2> HIDE DEF k, t
  <2>3. lines' \in [Task -> 0 .. MaxLines + 1]
    BY <1>2, <1>9, LinesAssumption
  <2>4. StepTypes(l, TRUE)
    BY <1>1, <1>2, <1>7, <2>3 DEF StepTypes
  <2>5. \A u \in Task : lines'[u] > 0 =>
            \/ lines[u] > 0
            \/ \E q \in Occ : /\ q[2] = u /\ life[q] # "none"
                              /\ u \in prog.prints \/ l[q] \in {"failed", "over"}
    <3> SUFFICES ASSUME NEW u \in Task, lines'[u] > 0, u # t PROVE lines[u] > 0
      BY <1>1, <1>5 DEF t
    <3> QED
      BY <1>2, <1>9
  <2>6. StepLives(k, l)
    BY <1>7, <2>2, <2>5 DEF StepLives
  <2>7. Commit(k, l, TRUE)
    BY <1>9 DEF k
  <2> QED
    BY <2>1, <2>4, <2>6, <2>7, StepInv
<1> QED
  BY <1>1, <1>8, <1>9

(* A stop seen while a task waits for what it injected: those of the tasks *)
(* that do not run give up their slots, so the orphans hold none.          *)
LEMMA AbandonInv ==
    ASSUME IInv, NEW o \in Occ, Abandon(o)
    PROVE  IInv'
<1> DEFINE p == o[2]
           S == {t \in Task : life[<<p, t>>] \in {"waiting", "starting"}}
           tasks == Among(Names(p), S)
           k == RetireUnusedSlots(ko, tasks)
           l == MoveTo(o, "failed")
           c == StepCtx(l, {})
<1>1. /\ life[o] = "running" /\ stopping /\ UNCHANGED <<prog, entry, known, lines>>
      /\ Commit(k, l, TRUE)
  BY DEF Abandon, MoveTo
<1>2. /\ life \in [Occ -> Life] /\ stopping \in BOOLEAN /\ lines' \in [Task -> 0 .. MaxLines + 1]
      /\ entry' \in [Task -> Nat] /\ known' \in [Task -> SUBSET Task] /\ p \in Task /\ FrontOK(ko)
      /\ prog \in Programs /\ Origins
  BY <1>1, OccParts DEF IInv, Types, Life, LivesOK
<1>3. Moved(l, o, "failed", TRUE)
  <2>1. Moves(life[o], "failed")
    BY <1>1 DEF Moves
  <2> QED
    BY <1>2, <2>1, Move
<1>4. tasks \in Seq(Task) /\ \A x : x \in ToSet(tasks) <=> x \in ToSet(Names(p)) /\ x \in S
  <2>1. Names(p) \in Seq(Task)
    BY <1>2, NamesOf
  <2> HIDE DEF S
  <2> QED
    BY <2>1, AmongProperties
<1>5. \A u \in Task : life[<<p, u>>] = "waiting" => u \in ToSet(tasks)
  <2> SUFFICES ASSUME NEW u \in Task, life[<<p, u>>] = "waiting" PROVE u \in ToSet(tasks)
    OBVIOUS
  <2>1. <<p, u>> \in Occ /\ <<p, u>>[1] = p /\ <<p, u>>[2] = u
    BY <1>2 DEF Occ
  <2>2. NamedBy(prog, p, u)
    BY <1>2, <2>1 DEF Origins
  <2>3. u \in ToSet(Names(p))
    BY <1>2, <2>2, NamesOf
  <2> QED
    BY <1>4, <2>3
<1> HIDE DEF l, tasks
<1>6. Holders(life) \subseteq Holders(l) \cup ToSet(tasks) /\ Begun(life) \subseteq Begun(l) \cup {}
  BY <1>3, <1>5, BegunHolds DEF Moved
<1>7. /\ l \in [Occ -> Life] /\ Forward(l) /\ CanPrint(l, TRUE) \subseteq CanPrint(life, stopping)
      /\ \A q \in Occ : life[q] = "none" => l[q] = "none"
  BY <1>3 DEF Moved
<1>8. Sound(ko, c, ToSet(tasks), {})
  BY <1>6, StepBegin
<1>9. /\ c.pr = printed /\ c.ln = lines /\ c.exempt = Exempt
      /\ c.quiet = (Task \ CanPrint(life, stopping)) \cup Slots(ko) \cup {}
      /\ c.held = Holders(l) /\ c.busy = Begun(l) /\ c.done = ko.done
  BY StepFields
<1> HIDE DEF c
<1>10. Sound(k, c, {}, {}) /\ FrontOK(k)
  BY <1>2, <1>4, <1>8, AllUnusedSound
<1> HIDE DEF k
<1>11. StepOutput(k, l, TRUE, {}, c)
  BY <1>1, <1>7, <1>9, <1>10 DEF StepOutput
<1>12. StepTypes(l, TRUE)
  BY <1>1, <1>2, <1>7 DEF StepTypes
<1>13. k.done = FALSE
  <2>1. ko.done = FALSE
    BY <1>1, NotDone
  <2> QED
    BY <1>9, <1>10, <2>1 DEF Sound
<1>14. StepLives(k, l)
  BY <1>1, <1>7, <1>13 DEF StepLives
<1> QED
  BY <1>1, <1>11, <1>12, <1>14, StepInv

(* A task of which the terminal has a line has produced one.               *)
LEMMA PrintedBegan ==
    ASSUME IInv, NEW i \in DOMAIN printed
    PROVE  printed[i][1] \in Task /\ lines[printed[i][1]] > 0
<1> DEFINE t == printed[i][1]
           n == printed[i][2]
<1>1. printed \in Seq(Line) /\ lines \in [Task -> Nat] /\ ko \in KState /\ ko.out = <<>>
  BY LinesAssumption DEF IInv, Types, Sound, Shape
<1>2. t \in Task /\ n \in Nat /\ printed[i] = <<t, n>>
  <2>1. printed[i] \in Line
    BY <1>1, ElementOfSeq, LenProperties
  <2> QED
    BY <2>1, LineParts
<1>3. Shown(printed, ko.buf, lines)
  <2>1. Shown(Full(ko, Ctx), ko.buf, Ctx.ln)
    BY DEF IInv, Sound, LinesOK
  <2>2. Full(ko, Ctx) = printed /\ Ctx.ln = lines
    BY <1>1, StepFields, ConcatEmptySeq DEF Full
  <2> QED
    BY <2>1, <2>2
<1>4. 1 <= n /\ n + Len(ko.buf[t]) <= lines[t]
  BY <1>2, <1>3 DEF Shown
<1>5. Len(ko.buf[t]) \in Nat /\ lines[t] \in Nat
  BY <1>1, <1>2, KParts, LenProperties
<1> QED
  BY <1>2, <1>4, <1>5

(* inject_and_wait: the tasks of a run entry get their slots.              *)
LEMMA InjectInv ==
    ASSUME IInv, NEW o \in Occ, Inject(o)
    PROVE  IInv'
<1> DEFINE p == o[2]
           fresh == {t \in Task : t \notin known[p] /\ life[<<p, t>>] = "none"}
           e == prog.entries[p][entry[p] + 1]
           tasks == Among(e, fresh)
           N == ToSet(tasks)
           l == [q \in Occ |-> IF q[1] = p /\ Contains(tasks, q[2]) THEN "waiting" ELSE life[q]]
           k == InsertInjectedTasks(ko, p, tasks)
           c == StepCtx(l, N)
<1>1. /\ life[o] = "running" /\ entry[p] < Len(prog.entries[p])
      /\ entry' = [entry EXCEPT ![p] = @ + 1] /\ Commit(k, l, stopping)
      /\ UNCHANGED <<prog, known, lines>>
  BY DEF Inject, Free
<1>2. /\ life \in [Occ -> Life] /\ stopping \in BOOLEAN /\ lines' \in [Task -> 0 .. MaxLines + 1]
      /\ (~stopping => \A u \in Task : lines'[u] <= MaxLines)
      /\ entry \in [Task -> Nat] /\ known' \in [Task -> SUBSET Task] /\ p \in Task /\ p # Top
      /\ FrontOK(ko) /\ ko.out = <<>>
      /\ prog \in Programs /\ Origins /\ Printers /\ lines \in [Task -> Nat]
  BY <1>1, OccParts, LinesAssumption DEF IInv, Types, Life, LivesOK
<1>3. /\ entry' \in [Task -> Nat] /\ entry[p] + 1 \in DOMAIN prog.entries[p]
      /\ e \in Seq(Task) /\ prog.entries[p] # <<>>
  <2> DEFINE s == prog.entries[p]
             m == entry[p]
  <2>1. s \in Seq(Seq(Task)) /\ Len(s) \in Nat /\ DOMAIN s = 1 .. Len(s) /\ m \in Nat /\ m < Len(s)
    BY <1>1, <1>2, ProgramParts, LenProperties
  <2>2. entry' \in [Task -> Nat]
    BY <1>1, <1>2
  <2> HIDE DEF s, m
  <2>3. m + 1 \in 1 .. Len(s) /\ Len(s) > 0
    BY <2>1
  <2>4. s[m + 1] \in Seq(Task) /\ s # <<>>
    BY <2>1, <2>3, ElementOfSeq
  <2> QED
    BY <2>1, <2>2, <2>3, <2>4 DEF s, m
<1>4. /\ tasks \in Seq(Task) /\ N \subseteq Task
      /\ \A t \in N : t \in ToSet(e) /\ life[<<p, t>>] = "none"
      /\ \A t : Contains(tasks, t) <=> t \in N
  <2>1. tasks \in Seq(Task) /\ \A x : x \in ToSet(tasks) <=> x \in ToSet(e) /\ x \in fresh
    <3> HIDE DEF e, fresh
    <3> QED
      BY <1>3, AmongProperties
  <2> HIDE DEF tasks
  <2>2. \A t : Contains(tasks, t) <=> t \in N
    BY <2>1, InToSet DEF Contains
  <2> QED
    BY <2>1, <2>2
<1>5. \A t \in N : NamedBy(prog, p, t)
  <2> SUFFICES ASSUME NEW t \in N PROVE NamedBy(prog, p, t)
    OBVIOUS
  <2>1. t \in ToSet(e)
    BY <1>4
  <2>2. Contains(e, t)
    <3> HIDE DEF e
    <3> QED
      BY <1>3, <2>1, InToSet DEF Contains
  <2> QED
    BY <1>2, <1>3, <2>2 DEF NamedBy
<1> HIDE DEF tasks, e, fresh
<1>6. /\ l \in [Occ -> Life]
      /\ \A q \in Occ : life[q] # "none" => l[q] = life[q]
      /\ \A q \in Occ : l[q] # "waiting" => l[q] = life[q]
      /\ \A q \in Occ : life[q] = "none" /\ l[q] # "none" => q[1] = p /\ q[2] \in N /\ l[q] = "waiting"
      /\ \A t \in N : l[<<p, t>>] = "waiting" /\ <<p, t>> \in Occ
  <2>1. \A q \in Occ : q[1] = p /\ Contains(tasks, q[2]) => life[q] = "none" /\ q[2] \in N
    BY <1>4, OccParts
  <2>2. "waiting" \in Life
    BY DEF Life
  <2>3. \A t \in N : <<p, t>> \in Occ /\ <<p, t>>[1] = p /\ <<p, t>>[2] = t /\ Contains(tasks, t)
    BY <1>2, <1>4 DEF Occ
  <2> HIDE DEF N
  <2> QED
    BY <1>2, <2>1, <2>2, <2>3
<1> HIDE DEF l
<1>7. \A q \in Occ : q[2] = p /\ life[q] # "none" => q = o
  BY <1>1, <1>2, <1>3, OneOccurrence
<1>8. Forward(l)
  BY <1>6 DEF Forward
<1>9. \A q \in Occ : Orphan(l, q) => l[q] = "waiting" /\ q[1] # p /\ (life[q] # "none" => Orphan(life, q))
  <2> SUFFICES ASSUME NEW q \in Occ, Orphan(l, q)
               PROVE  l[q] = "waiting" /\ q[1] # p /\ (life[q] # "none" => Orphan(life, q))
    OBVIOUS
  <2>1. PICK r \in Occ : r[2] = q[1] /\ l[r] \in {"failed", "over"}
    BY DEF Orphan
  <2>2. life[r] = l[r]
    BY <1>6, <2>1
  <2>3. q[1] # p
    BY <1>1, <1>7, <2>1, <2>2
  <2>4. l[q] = "waiting"
    BY DEF Orphan
  <2> QED
    BY <1>6, <2>1, <2>2, <2>3, <2>4 DEF Orphan
<1>10. Holders(life) \subseteq Holders(l)
  <2> SUFFICES ASSUME NEW u \in Holders(life) PROVE u \in Holders(l)
    OBVIOUS
  <2>1. PICK q \in Alive(life, u) : ~Orphan(life, q)
    BY DEF Holders
  <2>2. /\ u \in Task /\ q \in Occ /\ q[2] = u
        /\ life[q] \in {"waiting", "starting", "running", "failed"}
    BY <2>1 DEF Holders, Alive
  <2>3. q \in Alive(l, u) /\ ~Orphan(l, q)
    BY <1>6, <1>9, <2>1, <2>2 DEF Alive
  <2> QED
    BY <2>2, <2>3 DEF Holders
<1>11. Begun(life) \subseteq Begun(l)
  <2> SUFFICES ASSUME NEW u \in Begun(life) PROVE u \in Begun(l)
    OBVIOUS
  <2>1. PICK q \in Alive(life, u) : life[q] \in {"running", "failed"}
    BY DEF Begun
  <2>2. u \in Task /\ q \in Occ /\ q[2] = u
    BY <2>1 DEF Begun, Alive
  <2>3. q \in Alive(l, u) /\ l[q] = life[q]
    BY <1>6, <2>1, <2>2 DEF Alive
  <2> QED
    BY <2>1, <2>2, <2>3 DEF Begun
<1>12. N \subseteq Holders(l)
  <2> SUFFICES ASSUME NEW t \in N PROVE t \in Holders(l)
    OBVIOUS
  <2>1. <<p, t>> \in Occ /\ l[<<p, t>>] = "waiting" /\ <<p, t>>[1] = p /\ <<p, t>>[2] = t /\ t \in Task
    BY <1>4, <1>6
  <2>2. <<p, t>> \in Alive(l, t)
    BY <2>1 DEF Alive
  <2>3. ~Orphan(l, <<p, t>>)
    BY <1>9, <2>1
  <2> QED
    BY <2>1, <2>2, <2>3 DEF Holders
<1>13. CanPrint(l, stopping) \subseteq CanPrint(life, stopping) \cup N
  <2> SUFFICES ASSUME NEW u \in CanPrint(l, stopping), u \notin N PROVE u \in CanPrint(life, stopping)
    OBVIOUS
  <2>1. PICK q \in Alive(l, u) : l[q] # "waiting" \/ ~stopping
    BY DEF CanPrint
  <2>2. u \in Task /\ q \in Occ /\ q[2] = u /\ l[q] \in {"waiting", "starting", "running", "failed"}
    BY <2>1 DEF CanPrint, Alive
  <2>3. l[q] = life[q]
    BY <1>6, <2>2
  <2>4. q \in Alive(life, u)
    BY <2>2, <2>3 DEF Alive
  <2> QED
    BY <2>1, <2>2, <2>3, <2>4 DEF CanPrint
<1>14. \A t \in N : t \in Exempt \/ \A i \in DOMAIN printed : printed[i][1] # t
  <2> SUFFICES ASSUME NEW t \in N, t \notin Exempt, NEW i \in DOMAIN printed, printed[i][1] = t
               PROVE  FALSE
    OBVIOUS
  <2>1. t \in Task /\ NamedBy(prog, p, t) /\ RunsOnce(t)
    BY <1>4, <1>5 DEF Exempt
  <2>2. lines[t] > 0
    BY PrintedBegan
  <2>3. PICK q \in Occ : q[2] = t /\ life[q] # "none"
    BY <1>2, <2>1, <2>2 DEF Printers
  <2>4. q[1] \in Task \cup {Top} /\ q = <<q[1], t>> /\ NamedBy(prog, q[1], t)
    BY <1>2, <2>3, OccParts DEF Origins
  <2>5. q[1] = p
    BY <1>2, <2>1, <2>4, OneOrigin
  <2> QED
    BY <1>4, <2>3, <2>4, <2>5
<1>15. Sound(ko, c, {}, {})
  BY <1>4, <1>10, <1>11, StepBegin
<1>16. /\ c.pr = printed /\ c.ln = lines /\ c.exempt = Exempt
       /\ c.quiet = (Task \ CanPrint(life, stopping)) \cup Slots(ko) \cup N
       /\ c.held = Holders(l) /\ c.busy = Begun(l) /\ c.done = ko.done
  BY StepFields
<1> HIDE DEF c
<1>17. \A t \in N : Room(c, t)
  BY <1>12, <1>14, <1>16 DEF Room
<1>18. p \notin prog.prints => ko.active # p
  <2> SUFFICES ASSUME p \notin prog.prints, ko.active = p PROVE FALSE
    OBVIOUS
  <2>1. lines[p] > 0
    BY <1>2, <1>15, <1>16 DEF Sound, BuffersOK, None
  <2>2. PICK q \in Occ : q[2] = p /\ life[q] \in {"failed", "over"}
    BY <1>2, <2>1 DEF Printers
  <2> QED
    BY <1>1, <1>7, <2>2
<1>19. /\ Sound(k, c, {}, {}) /\ FrontOK(k)
       /\ k.done = ko.done /\ Slots(k) = Slots(ko) \cup N
  BY <1>2, <1>4, <1>15, <1>17, <1>18, InsertTasksSound
<1> HIDE DEF k, N
<1>20. StepOutput(k, l, stopping, N, c)
  BY <1>1, <1>13, <1>16, <1>19 DEF StepOutput
<1>21. StepTypes(l, stopping)
  BY <1>1, <1>2, <1>3, <1>6 DEF StepTypes
<1>22. k.done = FALSE
  <2>1. ko.done = FALSE
    BY <1>1, NotDone
  <2> QED
    BY <1>19, <2>1
<1>23. StepLives(k, l)
  <2>1. \A q \in Occ : life[q] = "none" /\ l[q] # "none" =>
          NamedBy(prog, q[1], q[2]) /\ \E r \in Occ : r[2] = q[1] /\ life[r] = "running"
    BY <1>1, <1>5, <1>6
  <2>2. lines' = lines
    BY <1>1
  <2> QED
    BY <1>8, <1>22, <2>1, <2>2 DEF StepLives
<1> QED
  BY <1>1, <1>20, <1>21, <1>23, StepInv

(* When every occurrence is over, no slot is left.                         *)
LEMMA NothingLeft ==
    ASSUME IInv, \A o \in Occ : life[o] \in {"none", "over"}
    PROVE  ko.slots = <<>> /\ ko.active = None /\ \A t \in Task : ko.buf[t] = <<>>
<1>1. Holders(life) = {}
  BY DEF Holders, Alive
<1>2. /\ ko \in KState /\ ko.slots \in Seq(Task) /\ HeldOK(ko, Holders(life), Begun(life), {}, {})
      /\ FrontOK(ko) /\ (ko.active # None => ko.slots # <<>>)
      /\ \A t \in Task : ko.buf[t] # <<>> => t \in Slots(ko)
  BY KParts, StepFields DEF IInv, Sound, Shape, BuffersOK
<1>3. Slots(ko) \subseteq ko.finished
  BY <1>1, <1>2 DEF HeldOK
<1>4. ko.slots = <<>>
  BY <1>2, <1>3, FirstSlot DEF FrontOK, Slots
<1>5. Slots(ko) = {}
  BY <1>4 DEF Slots, ToSet
<1> QED
  BY <1>2, <1>4, <1>5

(* display_keep_order_output: there is nothing left to flush.              *)
LEMMA DisplayInv ==
    ASSUME IInv, Display
    PROVE  IInv'
<1> DEFINE c == StepCtx(life, {})
           f == FlushFinished([ko EXCEPT !.active = None])
           g == RetireAll(f, f.slots)
           k == [g EXCEPT !.done = TRUE]
           d == [c EXCEPT !.done = TRUE]
<1>1. /\ \A o \in Occ : life[o] \in {"none", "over"}
      /\ Commit(k, life, stopping) /\ UNCHANGED <<prog, entry, known, lines>>
  BY DEF Display, FlushAll
<1>2. /\ life \in [Occ -> Life] /\ stopping \in BOOLEAN /\ lines' \in [Task -> 0 .. MaxLines + 1]
      /\ entry' \in [Task -> Nat] /\ (~stopping => \A u \in Task : lines'[u] <= MaxLines)
      /\ known' \in [Task -> SUBSET Task] /\ FrontOK(ko)
  BY <1>1 DEF IInv, Types, Life
<1>3. ko.slots = <<>> /\ ko.active = None
  BY <1>1, NothingLeft
<1>4. Sound(ko, c, {}, {}) /\ c \in Context /\ ko \in KState
  <2>1. Sound(ko, c, {}, {})
    BY StepBegin
  <2> QED
    BY <2>1 DEF Sound, Shape
<1>5. [ko EXCEPT !.active = None] = ko
  BY <1>3, <1>4 DEF KState
<1>6. f = FlushFinished(ko)
  BY <1>5
<1>7. /\ c.pr = printed /\ c.ln = lines /\ c.exempt = Exempt
      /\ c.quiet = (Task \ CanPrint(life, stopping)) \cup Slots(ko) \cup {}
      /\ c.held = Holders(life) /\ c.busy = Begun(life) /\ c.done = ko.done
  BY StepFields
<1> HIDE DEF c, f
<1>8. Sound(f, c, {}, {}) /\ f.active = None /\ FrontOK(f) /\ f.slots = <<>>
  BY <1>2, <1>3, <1>4, <1>6, FlushSound DEF FrontOK
<1>9. g = f
  <2>1. DOMAIN f.slots = 1 .. 0 /\ 0 \in Nat
    BY <1>8
  <2>2. PICK h : Retired(h, f, f.slots, 0) /\ g = h[0]
    BY <2>1, FoldRetire
  <2> QED
    BY <2>2 DEF Retired
<1>10. f \in KState
  BY <1>8 DEF Sound, Shape
<1>11. /\ k \in KState /\ k.slots = f.slots /\ k.buf = f.buf /\ k.active = f.active
       /\ k.finished = f.finished /\ k.out = f.out /\ k.done = TRUE
  BY <1>9, <1>10 DEF KState
<1>12. /\ d \in Context /\ d.pr = printed /\ d.ln = lines /\ d.exempt = Exempt
       /\ d.quiet = (Task \ CanPrint(life, stopping)) \cup Slots(ko) \cup {}
       /\ d.held = Holders(life) /\ d.busy = Begun(life) /\ d.done = TRUE
  BY <1>4, <1>7 DEF Context
<1> HIDE DEF g, k, d
<1>13. Sound(k, d, {}, {})
  <2>1. Full(k, d) = Full(f, c)
    BY <1>7, <1>11, <1>12 DEF Full
  <2>2. /\ d.busy \subseteq d.held /\ k.done = d.done /\ d.ln = c.ln /\ c.exempt \subseteq d.exempt
        /\ Slots(f) \subseteq d.quiet /\ \A t \in c.quiet \ Slots(f) : t \in d.exempt \/ t \in d.quiet
        /\ c.held \cup {} \subseteq d.held \cup {} /\ c.busy \cup {} \subseteq d.busy \cup {}
    BY <1>7, <1>8, <1>11, <1>12, BegunHolds DEF Sound, BlocksOK
  <2> QED
    BY <1>8, <1>11, <1>12, <2>1, <2>2, ContextChange
<1>14. FrontOK(k)
  BY <1>8, <1>11 DEF FrontOK, Slots
<1>15. StepOutput(k, life, stopping, {}, d)
  BY <1>1, <1>12, <1>13, <1>14 DEF StepOutput
<1>16. StepTypes(life, stopping)
  BY <1>1, <1>2 DEF StepTypes
<1>17. StepLives(k, life)
  BY <1>1 DEF StepLives, Forward
<1>18. Commit(k, life, stopping)
  BY <1>1 DEF k
<1> QED
  BY <1>15, <1>16, <1>17, <1>18, StepInv

-----------------------------------------------------------------------------
(***************************************************************************)
(* The invariant, and what follows from it.                                *)
(***************************************************************************)

(* The output starts with the slots of the tasks of the main graph.        *)
LEMMA InitInv ==
    ASSUME Init
    PROVE  IInv
<1> DEFINE top == prog.top
           c == [pr |-> <<>>, ln |-> lines, exempt |-> Exempt, quiet |-> Task,
                 held |-> Holders(life), busy |-> Begun(life), done |-> FALSE]
<1>1. /\ prog \in Programs /\ ko = InitTasks(NewState, top) /\ printed = <<>>
      /\ life = [o \in Occ |-> IF o[1] = Top /\ Contains(top, o[2]) THEN "waiting" ELSE "none"]
      /\ entry = [t \in Task |-> 0] /\ known = [t \in Task |-> {}] /\ lines = [t \in Task |-> 0]
      /\ stopping = FALSE /\ stranded = {}
  BY DEF Init
<1>2. Types
  <2>1. printed \in Seq(Line)
    BY <1>1
  <2>2. /\ life \in [Occ -> {"none", "waiting", "starting", "running", "failed", "over"}]
        /\ entry \in [Task -> Nat] /\ known \in [Task -> SUBSET Task]
    BY <1>1
  <2>3. lines \in [Task -> 0 .. MaxLines + 1] /\ \A t \in Task : lines[t] <= MaxLines
    BY <1>1, LinesAssumption
  <2> QED
    BY <1>1, <2>1, <2>2, <2>3 DEF Types
<1>3. top \in Seq(Task) /\ ToSet(top) \subseteq Task /\ \A t : Contains(top, t) <=> t \in ToSet(top)
  <2>1. top \in Seq(Task)
    BY <1>1, ProgramParts
  <2> HIDE DEF top
  <2>2. \A t : t \in ToSet(top) <=> \E i \in 1 .. Len(top) : top[i] = t
    BY <2>1, InToSet
  <2>3. \A i \in 1 .. Len(top) : top[i] \in Task
    BY <2>1, ElementOfSeq
  <2> QED
    BY <2>1, <2>2, <2>3 DEF Contains
<1> HIDE DEF top
<1>4. /\ \A o \in Occ : life[o] \in {"none", "waiting"}
      /\ \A o \in Occ : life[o] # "none" => o[1] = Top /\ o[2] \in ToSet(top)
      /\ \A t \in ToSet(top) : <<Top, t>> \in Occ /\ life[<<Top, t>>] = "waiting"
  <2>1. \A t \in ToSet(top) : <<Top, t>> \in Occ /\ <<Top, t>>[1] = Top /\ <<Top, t>>[2] = t
    BY <1>3 DEF Occ
  <2> QED
    BY <1>1, <1>3, <2>1
<1>5. c \in Context
  <2>1. Exempt \subseteq Task /\ Holders(life) \subseteq Task /\ Begun(life) \subseteq Task
    BY BegunHolds DEF Exempt
  <2>2. lines \in [Task -> Nat] /\ <<>> \in Seq(Line)
    BY <1>1
  <2> QED
    BY <2>1, <2>2 DEF Context
<1>6. /\ c.pr = <<>> /\ c.ln = lines /\ c.exempt = Exempt /\ c.quiet = Task
      /\ c.held = Holders(life) /\ c.busy = Begun(life) /\ c.done = FALSE
  OBVIOUS
<1> HIDE DEF c
<1>7. /\ NewState \in KState /\ NewState.slots = <<>> /\ NewState.active = None
      /\ NewState.finished = {} /\ NewState.out = <<>> /\ NewState.done = FALSE
      /\ \A t \in Task : NewState.buf[t] = <<>>
  <2>1. <<>> \in Seq(Line) /\ <<>> \in Seq(Task)
    OBVIOUS
  <2>2. [t \in Task |-> <<>>] \in [Task -> Seq(Line)]
    BY <2>1
  <2> QED
    BY <2>1, <2>2 DEF NewState, KState
<1>8. FrontOK(NewState) /\ Slots(NewState) = {}
  BY <1>7 DEF FrontOK, Slots, ToSet
<1>9. Sound(NewState, c, {}, {})
  <2>1. Shape(NewState)
    BY <1>7 DEF Shape, IsInjective
  <2>2. Full(NewState, c) = <<>>
    BY <1>6, <1>7 DEF Full
  <2>3. LinesOK(<<>>, NewState.buf, lines)
    <3>1. \A t \in Task : Len(NewState.buf[t]) = 0 /\ lines[t] = 0
      BY <1>1, <1>7
    <3>2. Increasing(<<>>)
      BY DEF Increasing
    <3>3. Shown(<<>>, NewState.buf, lines)
      BY <3>1 DEF Shown
    <3>4. Buffered(NewState.buf, lines)
      BY <3>1 DEF Buffered
    <3> QED
      BY <3>2, <3>3, <3>4 DEF LinesOK
  <2>4. BuffersOK(NewState, lines)
    BY <1>7 DEF BuffersOK
  <2>5. BlocksOK(NewState, <<>>, c.exempt, c.quiet)
    BY <1>8 DEF BlocksOK, Ended, Unbroken
  <2>6. HeldOK(NewState, c.held, c.busy, {}, {})
    BY <1>8 DEF HeldOK
  <2>7. c.busy \subseteq c.held
    BY <1>6, BegunHolds
  <2> QED
    BY <1>5, <1>6, <1>7, <2>1, <2>2, <2>3, <2>4, <2>5, <2>6, <2>7 DEF Sound
<1>10. \A t \in ToSet(top) : t \in Holders(life)
  <2> SUFFICES ASSUME NEW t \in ToSet(top) PROVE t \in Holders(life)
    OBVIOUS
  <2>1. <<Top, t>> \in Alive(life, t) /\ t \in Task
    BY <1>3, <1>4 DEF Alive
  <2>2. ~Orphan(life, <<Top, t>>)
    BY <1>4 DEF Orphan
  <2> QED
    BY <2>1, <2>2 DEF Holders
<1>11. \A t \in ToSet(top) : Room(c, t)
  BY <1>3, <1>6, <1>10 DEF Room
<1>12. /\ Sound(ko, c, {}, {}) /\ FrontOK(ko) /\ ko.out = <<>> /\ ko.done = FALSE
       /\ Slots(ko) = Slots(NewState) \cup ToSet(top)
  BY <1>1, <1>3, <1>7, <1>8, <1>9, <1>11, InitTasksSound
<1>13. ko \in KState /\ Slots(ko) = ToSet(top)
  BY <1>8, <1>12 DEF Sound, Shape
<1> DEFINE d == Ctx
<1>14. /\ d.pr = <<>> /\ d.ln = lines /\ d.exempt = Exempt
       /\ d.quiet = (Task \ CanPrint(life, stopping)) \cup Slots(ko)
       /\ d.held = Holders(life) /\ d.busy = Begun(life) /\ d.done = FALSE
  BY <1>1, <1>12, StepFields
<1>15. d \in Context
  <2>1. Exempt \subseteq Task /\ Holders(life) \subseteq Task /\ Begun(life) \subseteq Task
    BY BegunHolds DEF Exempt
  <2>2. lines \in [Task -> Nat] /\ printed \in Seq(Line)
    BY <1>1
  <2>3. Slots(ko) \subseteq Task /\ ko.done \in BOOLEAN
    BY <1>3, <1>12, <1>13
  <2> QED
    BY <2>1, <2>2, <2>3 DEF Context, Ctx
<1>16. \A t \in CanPrint(life, stopping) : t \in ToSet(top)
  BY <1>4 DEF CanPrint, Alive
<1> HIDE DEF d
<1>17. Sound(ko, d, {}, {})
  <2>1. Full(ko, d) = Full(ko, c)
    BY <1>6, <1>14 DEF Full
  <2>2. /\ d.busy \subseteq d.held /\ ko.done = d.done /\ d.ln = c.ln /\ c.exempt \subseteq d.exempt
        /\ Slots(ko) \subseteq d.quiet /\ \A t \in c.quiet \ Slots(ko) : t \in d.exempt \/ t \in d.quiet
        /\ c.held \cup {} \subseteq d.held \cup {} /\ c.busy \cup {} \subseteq d.busy \cup {}
    BY <1>6, <1>12, <1>13, <1>14, <1>16, BegunHolds
  <2> QED
    BY <1>12, <1>13, <1>15, <2>1, <2>2, ContextChange
<1>18. LivesOK
  <2>1. Origins
    <3> SUFFICES ASSUME NEW o \in Occ, life[o] # "none"
                 PROVE  NamedBy(prog, o[1], o[2]) /\ o[1] \notin Task
      BY DEF Origins
    <3>1. o[1] = Top /\ o[2] \in ToSet(top)
      BY <1>4
    <3> QED
      BY <1>3, <3>1, TopAssumption DEF NamedBy, top
  <2>2. Printers
    BY <1>1 DEF Printers
  <2> QED
    BY <1>12, <2>1, <2>2 DEF LivesOK
<1> QED
  BY <1>2, <1>12, <1>17, <1>18 DEF IInv, d

(* Every step keeps the invariant.                                         *)
LEMMA NextInv ==
    ASSUME IInv, [Next]_vars
    PROVE  IInv'
<1>1. ASSUME NEW o \in Occ, Admit(o) PROVE IInv'
  BY <1>1, AdmitInv
<1>2. ASSUME NEW o \in Occ, Start(o) PROVE IInv'
  BY <1>2, StartInv
<1>3. ASSUME NEW o \in Occ, PrintLine(o) PROVE IInv'
  BY <1>3, PrintLineInv
<1>4. ASSUME NEW o \in Occ, Inject(o) PROVE IInv'
  BY <1>4, InjectInv
<1>5. ASSUME NEW o \in Occ, Abandon(o) PROVE IInv'
  BY <1>5, AbandonInv
<1>6. ASSUME NEW o \in Occ, Fail(o) PROVE IInv'
  BY <1>6, FailInv
<1>7. ASSUME NEW o \in Occ, Finish(o) PROVE IInv'
  BY <1>7, FinishInv
<1>8. ASSUME NEW o \in Occ, Drop(o) PROVE IInv'
  BY <1>8, DropInv
<1>9. ASSUME NEW o \in Occ, Forget(o) PROVE IInv'
  BY <1>9, ForgetInv
<1>10. CASE Display
  BY <1>10, DisplayInv
<1>11. CASE UNCHANGED vars
  <2>1. /\ prog' = prog /\ ko' = ko /\ printed' = printed /\ life' = life /\ entry' = entry
        /\ known' = known /\ lines' = lines /\ stopping' = stopping /\ stranded' = stranded
    BY <1>11 DEF vars
  <2>2. Types' /\ LivesOK' /\ FrontOK(ko)' /\ ko'.out = <<>>
    BY <2>1 DEF IInv, Types, LivesOK, Origins, Printers
  <2>3. Ctx' = Ctx
    BY <2>1 DEF Ctx, Exempt, RunsOnce, Parents, Names
  <2>4. Sound(ko, Ctx, {}, {})'
    BY <2>1, <2>3 DEF IInv
  <2> QED
    BY <2>2, <2>4 DEF IInv
<1> QED
  BY <1>1, <1>2, <1>3, <1>4, <1>5, <1>6, <1>7, <1>8, <1>9, <1>10, <1>11 DEF Next, Displayed

(* The invariant says what the run checks of the lines.                    *)
LEMMA InvLines ==
    ASSUME IInv
    PROVE  LinesInOrder
<1>1. /\ printed \in Seq(Line) /\ lines \in [Task -> Nat] /\ ko \in KState /\ ko.out = <<>>
      /\ ko.buf \in [Task -> Seq(Line)]
  BY LinesAssumption, KParts DEF IInv, Types, Sound, Shape
<1>2. LinesOK(printed, ko.buf, lines) /\ BuffersOK(ko, lines)
  <2>1. LinesOK(Full(ko, Ctx), ko.buf, Ctx.ln) /\ BuffersOK(ko, Ctx.ln)
    BY DEF IInv, Sound
  <2>2. Full(ko, Ctx) = printed /\ Ctx.ln = lines
    BY <1>1, StepFields, ConcatEmptySeq DEF Full
  <2> QED
    BY <2>1, <2>2
<1>3. \A i, j \in DOMAIN printed :
          i < j /\ printed[i][1] = printed[j][1] => printed[i][2] < printed[j][2]
  BY <1>2 DEF LinesOK, Increasing
<1>4. ASSUME NEW t \in Task
      PROVE  LET shown == lines[t] - Len(ko.buf[t]) IN
             /\ {printed[i][2] : i \in {j \in DOMAIN printed : printed[j][1] = t}} = 1 .. shown
             /\ ko.buf[t] = [i \in 1 .. Len(ko.buf[t]) |-> <<t, shown + i>>]
  <2> DEFINE b == ko.buf[t]
             m == Len(b)
             n == lines[t]
             S == {printed[i][2] : i \in {j \in DOMAIN printed : printed[j][1] = t}}
  <2>1. b \in Seq(Line) /\ m \in Nat /\ n \in Nat /\ DOMAIN b = 1 .. m
    BY <1>1, LenProperties
  <2>2. m <= n /\ \A i \in 1 .. m : b[i] = <<t, n - m + i>>
    BY <1>2 DEF LinesOK, Buffered
  <2>3. \A i \in DOMAIN printed :
           printed[i][1] \in Task /\ printed[i][2] \in Nat /\ printed[i] = <<printed[i][1], printed[i][2]>>
    BY <1>1, ElementOfSeq, LenProperties, LineParts
  <2>4. \A x \in Nat : x \in S <=> \E i \in DOMAIN printed : printed[i] = <<t, x>>
    BY <2>3
  <2>5. \A x \in Nat : (\E i \in DOMAIN printed : printed[i] = <<t, x>>) <=> 1 <= x /\ x + m <= n
    BY <1>2 DEF LinesOK, Shown
  <2>6. S \subseteq Nat
    BY <2>3
  <2> HIDE DEF S, m, n
  <2>7. S = 1 .. n - m
    <3>1. \A x \in Nat : x \in 1 .. n - m <=> 1 <= x /\ x + m <= n
      BY <2>1, <2>2
    <3>2. 1 .. n - m \subseteq Nat
      BY <2>1
    <3>3. \A x \in Nat : x \in S <=> x \in 1 .. n - m
      BY <2>4, <2>5, <3>1
    <3> QED
      BY <2>6, <3>2, <3>3
  <2>8. b = [i \in 1 .. m |-> <<t, n - m + i>>]
    <3>1. b \in [1 .. m -> Line]
      BY <2>1, LenProperties DEF m
    <3>2. b = [i \in 1 .. m |-> b[i]]
      BY <3>1
    <3> HIDE DEF b
    <3> QED
      BY <2>2, <3>2
  <2> QED
    BY <2>7, <2>8 DEF S, m, n
<1>5. \A t \in Task : ko.buf[t] # <<>> => HasSlot(ko, t)
  BY <1>1, <1>2, SlotIndex DEF BuffersOK
<1>6. ko.done => \A t \in Task : ko.buf[t] = <<>>
  BY NothingLeft DEF IInv, LivesOK
<1> QED
  BY <1>3, <1>4, <1>5, <1>6 DEF LinesInOrder

(* The invariant holds in every state of the run.                          *)
THEOREM KeepOrderInv == Spec => []IInv
<1>1. Init => IInv
  BY InitInv
<1>2. IInv /\ [Next]_vars => IInv'
  BY NextInv
<1> QED
  BY <1>1, <1>2, PTL DEF Spec

(* Every variable has its type: in particular no task has two slots.       *)
THEOREM KeepOrderTypes == Spec => []TypeOK
<1>1. IInv => TypeOK
  <2> SUFFICES ASSUME IInv PROVE TypeOK
    OBVIOUS
  <2>1. ko \in KState /\ IsInjective(ko.slots)
    BY DEF IInv, Sound, Shape
  <2> QED
    BY <2>1, KParts DEF IInv, Types, TypeOK
<1> QED
  BY <1>1, KeepOrderInv, PTL

(* No line is lost, printed twice or reordered, and nothing is left in a   *)
(* buffer that no slot will flush, whatever the tasks, the programs, the   *)
(* order in which tasks start, print, inject, end, and the run stops.      *)
THEOREM KeepOrderLines == Spec => []LinesInOrder
<1>1. IInv => LinesInOrder
  BY InvLines
<1> QED
  BY <1>1, KeepOrderInv, PTL

(* The lines of a task that runs once and was not stranded by a stop are   *)
(* one block on the terminal.                                              *)
THEOREM KeepOrderBlocks == Spec => []OneBlock
<1>1. IInv => OneBlock
  <2> SUFFICES ASSUME IInv PROVE OneBlock
    OBVIOUS
  <2>1. Full(ko, Ctx) = printed /\ Ctx.exempt = Exempt
    <3>1. printed \in Seq(Line) /\ ko.out = <<>>
      BY DEF IInv, Types
    <3> QED
      BY <3>1, StepFields, ConcatEmptySeq DEF Full
  <2>2. Unbroken(printed, Exempt)
    BY <2>1 DEF IInv, Sound, BlocksOK
  <2>3. \A t \in Exempt : ~Keeps(t)
    BY DEF Exempt, Keeps, RunsOnce
  <2> QED
    BY <2>2, <2>3 DEF OneBlock, Unbroken
<1> QED
  BY <1>1, KeepOrderInv, PTL

(* The live stream is held by a task that is still to run or running, so   *)
(* nothing is left for the final flush once every task is over.            *)
THEOREM KeepOrderStream == Spec => []StreamNotPinned
<1>1. IInv => StreamNotPinned
  <2> SUFFICES ASSUME IInv, ko.slots # <<>> PROVE Alive(life, Head(ko.slots)) # {}
    BY DEF StreamNotPinned
  <2>1. ko.slots \in Seq(Task) /\ HeldOK(ko, Holders(life), Begun(life), {}, {}) /\ FrontOK(ko)
    BY KParts, StepFields DEF IInv, Sound, Shape
  <2>2. Head(ko.slots) \in Slots(ko) \ ko.finished
    BY <2>1, FirstSlot DEF FrontOK, Slots
  <2>3. Head(ko.slots) \in Holders(life)
    BY <2>1, <2>2 DEF HeldOK
  <2> QED
    BY <2>3 DEF Holders
<1> QED
  BY <1>1, KeepOrderInv, PTL

-----------------------------------------------------------------------------
(***************************************************************************)
(* The lineage of a task: the least set with the task that is closed under *)
(* parents.                                                                *)
(***************************************************************************)

(* It has the task, and the parents of what it has.                        *)
LEMMA LineageParts ==
    ASSUME NEW t \in Task
    PROVE  /\ Lineage(t) \subseteq Task /\ t \in Lineage(t)
           /\ \A a \in Lineage(t) : Parents(a) \subseteq Lineage(t)
<1>1. \A a \in Task : Parents(a) \subseteq Task
  BY DEF Parents
<1> QED
  BY <1>1 DEF Lineage

(* It is within every such set.                                            *)
LEMMA LineageWithin ==
    ASSUME NEW t \in Task, NEW D, t \in D, \A a \in D \cap Lineage(t) : Parents(a) \subseteq D
    PROVE  Lineage(t) \subseteq D
<1> DEFINE C == D \cap Lineage(t)
<1>1. C \in SUBSET Task /\ t \in C /\ \A a \in C : Parents(a) \subseteq C
  BY LineageParts
<1>2. \A a \in Lineage(t) : a \in C
  <2> HIDE DEF C
  <2> QED
    BY <1>1 DEF Lineage
<1> QED
  BY <1>2

(* Lineages of a lineage are within it.                                    *)
LEMMA LineageDown ==
    ASSUME NEW t \in Task, NEW a \in Lineage(t)
    PROVE  a \in Task /\ Lineage(a) \subseteq Lineage(t)
BY LineageParts, LineageWithin

(* What is above a task is above one of its parents.                       *)
LEMMA LineageStep ==
    ASSUME NEW t \in Task, NEW a \in Lineage(t), a # t
    PROVE  \E q \in Parents(t) : a \in Lineage(q)
<1> DEFINE D == {t} \cup UNION {Lineage(q) : q \in Parents(t)}
<1>1. Parents(t) \subseteq Task
  BY DEF Parents
<1>2. \A x \in D : Parents(x) \subseteq D
  <2>1. \A q \in Parents(t) : q \in D
    BY <1>1, LineageParts
  <2>2. ASSUME NEW q \in Parents(t), NEW x \in Lineage(q) PROVE Parents(x) \subseteq D
    BY <1>1, <2>2, LineageParts
  <2> QED
    BY <2>1, <2>2
<1>3. Lineage(t) \subseteq D
  <2> HIDE DEF D
  <2>1. t \in D
    BY DEF D
  <2> QED
    BY <1>2, <2>1, LineageWithin
<1> QED
  BY <1>3

(* What is above a task is the parent of one in its lineage.               *)
LEMMA LineageLast ==
    ASSUME NEW t \in Task, NEW a \in Lineage(t), a # t
    PROVE  \E s \in Lineage(t) : a \in Parents(s)
<1> SUFFICES ASSUME \A s \in Lineage(t) : a \notin Parents(s) PROVE FALSE
  OBVIOUS
<1> DEFINE D == Task \ {a}
<1>1. t \in D /\ \A s \in D \cap Lineage(t) : Parents(s) \subseteq D
  BY DEF Parents
<1>2. a \notin D
  OBVIOUS
<1> HIDE DEF D
<1> QED
  BY <1>1, <1>2, LineageWithin

(* The parents of a task that runs once.                                   *)
LEMMA OnlyParent ==
    ASSUME prog \in Programs, NEW t \in Task, RunsOnce(t), NEW p \in Parents(t)
    PROVE  /\ p \in Task /\ NamedBy(prog, p, t) /\ Parents(t) = {p} /\ Home(t) = {p}
           /\ Lineage(t) = {t} \cup Lineage(p)
           /\ \A h \in Task \cup {Top} : NamedBy(prog, h, t) => h = p
<1>1. p \in Task /\ NamedBy(prog, p, t)
  BY DEF Parents
<1>2. \A h \in Task \cup {Top} : NamedBy(prog, h, t) => h = p
  BY <1>1, OneOrigin
<1>3. Parents(t) = {p}
  BY <1>2 DEF Parents
<1>4. ~Contains(prog.top, t)
  BY <1>1, <1>2, TopAssumption DEF NamedBy
<1>5. Lineage(t) \subseteq {t} \cup Lineage(p)
  BY <1>3, LineageStep
<1>6. {t} \cup Lineage(p) \subseteq Lineage(t)
  BY <1>3, LineageParts, LineageDown
<1> QED
  BY <1>1, <1>2, <1>3, <1>4, <1>5, <1>6 DEF Home

(* A lineage of tasks that run once is a chain.                            *)
LEMMA LineageChain ==
    ASSUME prog \in Programs, NEW t \in Task, \A a \in Lineage(t) : RunsOnce(a),
           NEW p \in Lineage(t), NEW q \in Lineage(t)
    PROVE  p \in Lineage(q) \/ q \in Lineage(p)
<1> DEFINE D == {a \in Task : p \in Lineage(a) \/ a \in Lineage(p)}
<1>1. p \in Task /\ Lineage(t) \subseteq Task
  BY LineageParts
<1>2. ASSUME NEW a \in D \cap Lineage(t), NEW b \in Parents(a) PROVE b \in D
  <2>1. a \in Task /\ b \in Task /\ Lineage(a) = {a} \cup Lineage(b)
    BY <1>1, <1>2, OnlyParent
  <2>2. CASE p = a
    BY <1>1, <2>1, <2>2, LineageParts
  <2>3. CASE p # a /\ p \in Lineage(a)
    BY <2>1, <2>3
  <2>4. CASE a \in Lineage(p)
    BY <1>1, <1>2, <2>1, <2>4, LineageParts
  <2> QED
    BY <1>2, <2>2, <2>3, <2>4
<1>3. t \in D
  OBVIOUS
<1>4. Lineage(t) \subseteq D
  <2> HIDE DEF D
  <2> QED
    BY <1>2, <1>3, LineageWithin
<1> QED
  BY <1>4

-----------------------------------------------------------------------------
(***************************************************************************)
(* Settled tasks and the definition order.                                 *)
(***************************************************************************)

(* What NamedBefore says of a task: its entries name the first.            *)
LEMMA NamedBeforeParts ==
    ASSUME prog \in Programs, NEW p \in Task, NEW a \in Task, NEW b, NamedBefore(p, a, b)
    PROVE  NamedBy(prog, p, a) /\ p \in Parents(a)
<1>1. Groups(p) = prog.entries[p]
  BY TopAssumption DEF Groups
<1>2. PICK m \in DOMAIN prog.entries[p] : \E x \in DOMAIN prog.entries[p][m] : prog.entries[p][m][x] = a
  BY <1>1 DEF NamedBefore
<1>3. Contains(prog.entries[p][m], a)
  <2>1. prog.entries[p] \in Seq(Seq(Task)) /\ DOMAIN prog.entries[p] = 1 .. Len(prog.entries[p])
    BY ProgramParts, LenProperties
  <2>2. prog.entries[p][m] \in Seq(Task)
    BY <1>2, <2>1, ElementOfSeq
  <2> QED
    BY <1>2, <2>2, LenProperties DEF Contains
<1>4. NamedBy(prog, p, a)
  BY <1>2, <1>3, TopAssumption DEF NamedBy
<1> QED
  BY <1>4 DEF Parents

(* The order of the entries is transitive.                                 *)
LEMMA NamedBeforeTrans ==
    ASSUME prog \in Programs, NEW p \in Task, NEW a, NEW b, NEW c,
           NamedBefore(p, a, b), NamedBefore(p, b, c)
    PROVE  NamedBefore(p, a, c)
<1> DEFINE G == Groups(p)
<1>1. /\ DOMAIN G = 1 .. Len(G) /\ Len(G) \in Nat
      /\ \A m \in DOMAIN G : Len(G[m]) \in Nat /\ DOMAIN G[m] = 1 .. Len(G[m])
  <2>1. G \in Seq(Seq(Task))
    BY ProgramParts, TopAssumption DEF Groups
  <2>2. DOMAIN G = 1 .. Len(G) /\ Len(G) \in Nat /\ \A m \in DOMAIN G : G[m] \in Seq(Task)
    BY <2>1, LenProperties, ElementOfSeq
  <2> HIDE DEF G
  <2> QED
    BY <2>2, LenProperties
<1>2. \E m \in DOMAIN G : \E x \in DOMAIN G[m] :
          /\ G[m][x] = a
          /\ \A n \in 1 .. m : \A y \in DOMAIN G[n] : G[n][y] = b => n = m /\ y > x
  BY DEF NamedBefore
<1>3. \E m2 \in DOMAIN G : \E x2 \in DOMAIN G[m2] :
          /\ G[m2][x2] = b
          /\ \A n \in 1 .. m2 : \A y \in DOMAIN G[n] : G[n][y] = c => n = m2 /\ y > x2
  BY DEF NamedBefore
<1> HIDE DEF G
<1>m. PICK m \in DOMAIN G : \E x \in DOMAIN G[m] :
          /\ G[m][x] = a
          /\ \A n \in 1 .. m : \A y \in DOMAIN G[n] : G[n][y] = b => n = m /\ y > x
  BY <1>2
<1>x. PICK x \in DOMAIN G[m] :
          /\ G[m][x] = a
          /\ \A n \in 1 .. m : \A y \in DOMAIN G[n] : G[n][y] = b => n = m /\ y > x
  BY <1>m
<1>n. PICK m2 \in DOMAIN G : \E x2 \in DOMAIN G[m2] :
          /\ G[m2][x2] = b
          /\ \A n \in 1 .. m2 : \A y \in DOMAIN G[n] : G[n][y] = c => n = m2 /\ y > x2
  BY <1>3
<1>y. PICK x2 \in DOMAIN G[m2] :
          /\ G[m2][x2] = b
          /\ \A n \in 1 .. m2 : \A y \in DOMAIN G[n] : G[n][y] = c => n = m2 /\ y > x2
  BY <1>n
<1>4. m2 > m \/ (m2 = m /\ x2 > x)
  BY <1>1, <1>x, <1>y
<1>5. ASSUME NEW n \in 1 .. m, NEW y \in DOMAIN G[n], G[n][y] = c PROVE n = m /\ y > x
  <2>1. n \in 1 .. m2 /\ n \in DOMAIN G
    BY <1>1, <1>4
  <2>2. n = m2 /\ y > x2
    BY <1>y, <1>5, <2>1
  <2> QED
    BY <1>1, <1>4, <2>1, <2>2
<1> QED
  BY <1>x, <1>5 DEF NamedBefore, G

(* The lineage of a settled task is settled and runs once.                 *)
LEMMA SettledParts ==
    ASSUME NEW t \in Task, Settled(t), NEW a \in Lineage(t)
    PROVE  /\ a \in Task /\ Settled(a) /\ Keeps(a) /\ RunsOnce(a) /\ a \notin stranded
           /\ \A h \in Parents(a) \cap prog.prints : \A x \in Task : \A s \in Lineage(x) :
                 NamedBefore(h, s, a) => Keeps(x)
<1>1. a \in Task /\ Lineage(a) \subseteq Lineage(t)
  BY LineageDown
<1>2. Settled(a)
  BY <1>1 DEF Settled
<1>3. /\ Keeps(a)
      /\ \A h \in Parents(a) \cap prog.prints : \A x \in Task :
            Keeps(x) \/ \A s \in Lineage(x) : ~NamedBefore(h, s, a)
  BY DEF Settled
<1> QED
  BY <1>1, <1>2, <1>3 DEF Keeps, RunsOnce

(* What descends from a task that a parent that prints names before a      *)
(* settled one is settled.                                                 *)
LEMMA EarlierSettled ==
    ASSUME prog \in Programs, NEW u \in Task, Settled(u), NEW p \in Parents(u) \cap prog.prints,
           NEW s \in Task, NamedBefore(p, s, u), NEW z \in Task, s \in Lineage(z)
    PROVE  Settled(z)
<1>1. p \in Task /\ p \in Parents(s) /\ u \in Lineage(u) /\ p \in Lineage(u) /\ s \in Lineage(s)
  <2>1. p \in Task /\ u \in Lineage(u) /\ p \in Lineage(u) /\ s \in Lineage(s)
    BY LineageParts DEF Parents
  <2> QED
    BY <2>1, NamedBeforeParts
<1>2. Settled(p)
  BY <1>1, SettledParts
<1>3. \A x \in Task : s \in Lineage(x) => Keeps(x) /\ RunsOnce(x)
  <2>1. \A x \in Task : s \in Lineage(x) => Keeps(x)
    BY <1>1, SettledParts
  <2> QED
    BY <2>1 DEF Keeps, RunsOnce
<1> DEFINE D == {x \in Task : s \in Lineage(x) \/ x \in Lineage(p)}
<1>4. Lineage(z) \subseteq D
  <2>1. ASSUME NEW x \in D \cap Lineage(z), NEW q \in Parents(x) PROVE q \in D
    <3>1. q \in Task /\ x \in Task
      BY <2>1 DEF Parents
    <3>2. CASE x \in Lineage(p)
      BY <1>1, <2>1, <3>1, <3>2, LineageParts
    <3>3. CASE x = s
      <4>1. q = p
        BY <1>1, <1>3, <2>1, <3>1, <3>3, OnlyParent
      <4> QED
        BY <1>1, <4>1, LineageParts
    <3>4. CASE s \in Lineage(x) /\ x # s
      <4>1. Lineage(x) = {x} \cup Lineage(q)
        BY <1>3, <2>1, <3>1, <3>4, OnlyParent
      <4> QED
        BY <3>1, <3>4, <4>1
    <3> QED
      BY <2>1, <3>2, <3>3, <3>4
  <2>2. z \in D
    OBVIOUS
  <2> HIDE DEF D
  <2> QED
    BY <2>1, <2>2, LineageWithin
<1>5. ASSUME NEW a \in Lineage(z)
      PROVE  /\ Keeps(a)
             /\ \A h \in Parents(a) \cap prog.prints : \A x \in Task :
                   Keeps(x) \/ \A s2 \in Lineage(x) : ~NamedBefore(h, s2, a)
  <2>1. a \in Task /\ (s \in Lineage(a) \/ a \in Lineage(p))
    BY <1>4, <1>5
  <2>2. CASE a \in Lineage(p)
    BY <1>1, <1>2, <2>2, SettledParts
  <2>3. CASE s \in Lineage(a)
    <3>1. Keeps(a) /\ RunsOnce(a)
      BY <1>3, <2>1, <2>3
    <3> SUFFICES ASSUME NEW h \in Parents(a) \cap prog.prints, NEW x \in Task,
                        NEW s2 \in Lineage(x), NamedBefore(h, s2, a)
                 PROVE  Keeps(x)
      BY <3>1
    <3>2. h \in Task /\ s2 \in Task /\ h \in Parents(s2)
      <4>1. h \in Task /\ s2 \in Task
        BY LineageParts DEF Parents
      <4> QED
        BY <4>1, NamedBeforeParts
    <3>3. CASE a = s
      <4>1. h = p
        BY <1>1, <3>1, <3>3, OnlyParent
      <4>2. NamedBefore(p, s2, u)
        BY <1>1, <3>3, <4>1, NamedBeforeTrans
      <4> QED
        BY <1>1, <4>2, SettledParts
    <3>4. CASE a # s
      <4>1. Lineage(a) = {a} \cup Lineage(h)
        BY <2>1, <3>1, OnlyParent
      <4>2. s \in Lineage(h)
        BY <2>3, <3>4, <4>1
      <4>3. h \in Lineage(x)
        BY <3>2, LineageParts
      <4>4. s \in Lineage(x)
        BY <4>2, <4>3, LineageDown
      <4> QED
        BY <1>3, <4>4
    <3> QED
      BY <3>3, <3>4
  <2> QED
    BY <2>1, <2>2, <2>3
<1> QED
  BY <1>5 DEF Settled

(* What is ahead of a parent, or is one that prints itself, is ahead of    *)
(* its child, unless it is of the parent's own group.                      *)
LEMMA AheadOfChild ==
    ASSUME prog \in Programs, NEW u \in Task, RunsOnce(u), NEW p \in Parents(u), NEW t \in Task,
           \/ t # p /\ Ahead(t, p)
           \/ t = p /\ p \in prog.prints,
           p \in Lineage(t) /\ t # p => \E a \in Lineage(t) : p \in Home(a) /\ NamedBefore(p, a, u)
    PROVE  Ahead(t, u)
<1>1. p \in Task /\ Home(u) = {p} /\ Lineage(u) = {u} \cup Lineage(p) /\ p \in Lineage(p)
  BY OnlyParent, LineageParts
<1>2. CASE t = p /\ p \in prog.prints
  BY <1>1, <1>2 DEF Ahead
<1>3. CASE p \in Lineage(t) /\ t # p
  BY <1>1, <1>3 DEF Ahead
<1>4. CASE Ahead(t, p) /\ p \notin Lineage(t)
  BY <1>1, <1>4 DEF Ahead
<1> QED
  BY <1>2, <1>3, <1>4

(* What its parent is ahead of a child is ahead of, unless it is of the    *)
(* group of a parent that prints.                                          *)
LEMMA ChildAhead ==
    ASSUME prog \in Programs, NEW u \in Task, RunsOnce(u), NEW p \in Parents(u), NEW t \in Task,
           \/ Ahead(p, t)
           \/ t = p /\ p \notin prog.prints,
           p \notin Lineage(t) \cap prog.prints
    PROVE  Ahead(u, t)
<1>1. p \in Task /\ Home(u) = {p} /\ Lineage(u) = {u} \cup Lineage(p) /\ p \in Lineage(p)
  BY OnlyParent, LineageParts
<1> QED
  BY <1>1 DEF Ahead

-----------------------------------------------------------------------------
(***************************************************************************)
(* The order of the output, for any relation R on tasks: earlier slots are *)
(* related to later ones, and what is on the terminal to the tasks printed *)
(* later and to those that have slots. Only the first slot is ever printed *)
(* from, so no operation disturbs it, but for the slots it adds.           *)
(***************************************************************************)
Related(R, t, u) == t = u \/ <<t, u>> \in R

OrderedBy(k, R) ==
    \A i, j \in DOMAIN k.slots : i < j => <<k.slots[i], k.slots[j]>> \in R

Follows(S, full, R) ==
    /\ \A i \in DOMAIN full : \A u \in S : Related(R, full[i][1], u)
    /\ \A i, j \in DOMAIN full : i < j => Related(R, full[i][1], full[j][1])

Tidy(k) ==
    /\ k \in KState /\ IsInjective(k.slots)
    /\ k.active # None => k.slots # <<>> /\ Head(k.slots) = k.active
    /\ \A t \in Task : IsBlock(k.buf[t], t)

Ranked(k, pr, R) == Tidy(k) /\ OrderedBy(k, R) /\ Follows(Slots(k), pr \o k.out, R)

(* The task in the first slot may print.                                   *)
LEMMA HeadFollows ==
    ASSUME NEW k \in KState, NEW R, OrderedBy(k, R), k.slots # <<>>,
           NEW full \in Seq(Line), Follows(Slots(k), full, R), NEW b, IsBlock(b, Head(k.slots))
    PROVE  Follows(Slots(k), full \o b, R)
<1> DEFINE t == Head(k.slots)
           n == Len(full)
           g == full \o b
<1>1. k.slots \in Seq(Task) /\ t = k.slots[1] /\ t \in Slots(k) /\ Len(k.slots) \in Nat
      /\ Len(k.slots) > 0 /\ DOMAIN k.slots = 1 .. Len(k.slots)
  BY KParts, FirstSlot, LenProperties DEF Slots
<1>2. \A u \in Slots(k) : Related(R, t, u)
  <2> SUFFICES ASSUME NEW j \in 1 .. Len(k.slots) PROVE Related(R, t, k.slots[j])
    BY <1>1, InToSet DEF Slots
  <2>1. CASE j = 1
    BY <1>1, <2>1 DEF Related
  <2>2. CASE j # 1
    <3>1. 1 < j /\ 1 \in DOMAIN k.slots /\ j \in DOMAIN k.slots
      BY <1>1, <2>2
    <3> QED
      BY <1>1, <3>1 DEF OrderedBy, Related
  <2> QED
    BY <2>1, <2>2
<1>3. /\ n \in Nat /\ Len(g) \in Nat /\ n <= Len(g)
      /\ DOMAIN full = 1 .. n /\ DOMAIN g = 1 .. Len(g)
      /\ \A i \in 1 .. n : g[i] = full[i]
      /\ \A i \in 1 .. Len(g) : i > n => g[i][1] = t
  BY BlockAfter
<1> HIDE DEF t, n, g
<1>4. ASSUME NEW i \in DOMAIN g, NEW u \in Slots(k) PROVE Related(R, g[i][1], u)
  <2>1. CASE i <= n
    <3>1. i \in 1 .. n
      BY <1>3, <2>1
    <3> QED
      BY <1>3, <3>1 DEF Follows
  <2>2. CASE ~(i <= n)
    BY <1>2, <1>3, <2>2
  <2> QED
    BY <2>1, <2>2
<1>5. ASSUME NEW i \in DOMAIN g, NEW j \in DOMAIN g, i < j PROVE Related(R, g[i][1], g[j][1])
  <2>1. CASE j <= n
    <3>1. i \in 1 .. n /\ j \in 1 .. n
      BY <1>3, <1>5, <2>1
    <3> QED
      BY <1>3, <1>5, <3>1 DEF Follows
  <2>2. CASE ~(j <= n)
    <3>1. g[j][1] = t
      BY <1>3, <2>2
    <3> QED
      BY <1>1, <1>4, <3>1
  <2> QED
    BY <2>1, <2>2
<1> QED
  BY <1>4, <1>5 DEF Follows, g

(* Another state with the same slots, buffers and output.                  *)
LEMMA RankedSame ==
    ASSUME NEW k, NEW pr, NEW R, Ranked(k, pr, R), NEW r \in KState, r.slots = k.slots,
           r.buf = k.buf, r.out = k.out, r.active = k.active \/ r.active = None
    PROVE  Ranked(r, pr, R)
BY DEF Ranked, Tidy, OrderedBy, Slots

(* A removed slot leaves the order of the others.                          *)
LEMMA RemovedOrder ==
    ASSUME NEW k \in KState, IsInjective(k.slots), NEW R, OrderedBy(k, R), NEW i \in 1 .. Len(k.slots),
           NEW r, r.slots = RemoveAt(k.slots, i)
    PROVE  OrderedBy(r, R)
<1> DEFINE s == k.slots
           n == Len(s)
<1>1. s \in Seq(Task) /\ n \in Nat /\ DOMAIN s = 1 .. n
  BY KParts, LenProperties
<1>2. /\ RemoveAt(s, i) \in Seq(Task) /\ Len(RemoveAt(s, i)) = n - 1
      /\ \A j \in 1 .. n - 1 : RemoveAt(s, i)[j] = IF j < i THEN s[j] ELSE s[j + 1]
  BY <1>1, RemoveAtProperties
<1>3. DOMAIN r.slots = 1 .. n - 1
  BY <1>1, <1>2, LenProperties
<1>4. \A x, y \in 1 .. n : x < y => <<s[x], s[y]>> \in R
  BY <1>1 DEF OrderedBy
<1> HIDE DEF s, n
<1> SUFFICES ASSUME NEW x \in 1 .. n - 1, NEW y \in 1 .. n - 1, x < y
             PROVE  <<r.slots[x], r.slots[y]>> \in R
  BY <1>3 DEF OrderedBy
<1>5. r.slots[x] = (IF x < i THEN s[x] ELSE s[x + 1]) /\ r.slots[y] = (IF y < i THEN s[y] ELSE s[y + 1])
  BY <1>2 DEF s
<1>6. /\ i \in Nat /\ x \in 1 .. n /\ x + 1 \in 1 .. n /\ y \in 1 .. n /\ y + 1 \in 1 .. n
      /\ x < y + 1 /\ x + 1 < y + 1 /\ (x < i => y < i \/ x < y + 1) /\ (~(x < i) => ~(y < i))
  BY <1>1 DEF n, s
<1> QED
  BY <1>4, <1>5, <1>6

(* The terminal, then what an operation printed, then more.                *)
LEMMA LinesAssociative ==
    ASSUME NEW x \in Seq(Line), NEW y \in Seq(Line), NEW z \in Seq(Line)
    PROVE  x \o (y \o z) = (x \o y) \o z /\ x \o y \in Seq(Line)
<1>1. x \o (y \o z) = (x \o y) \o z
  BY ConcatAssociative
<1>2. x \o y \in Seq(Line)
  BY ConcatProperties
<1> QED
  BY <1>1, <1>2, Zenon

(* The first slot is retired.                                              *)
LEMMA RetireRanked ==
    ASSUME NEW k, NEW pr \in Seq(Line), NEW R, Ranked(k, pr, R), k.slots # <<>>, NEW t, t = Head(k.slots),
           k.active = None
    PROVE  /\ Ranked(Retire(k, t), pr, R) /\ Retire(k, t).active = None
           /\ Retire(k, t).slots = RemoveAt(k.slots, 1)
           /\ Retire(k, t).injected_by = k.injected_by /\ Slots(Retire(k, t)) = Slots(k) \ {t}
<1> DEFINE r == Retire(k, t)
<1>1. k \in KState /\ IsInjective(k.slots) /\ k.slots \in Seq(Task) /\ pr \o k.out \in Seq(Line)
      /\ k.out \in Seq(Line) /\ k.buf \in [Task -> Seq(Line)]
  BY KParts, ConcatProperties DEF Ranked, Tidy
<1>2. t \in Task /\ t = k.slots[1] /\ HasSlot(k, t) /\ DOMAIN k.slots = 1 .. Len(k.slots)
      /\ 1 \in 1 .. Len(k.slots)
  <2>1. t \in Task /\ t = k.slots[1] /\ t \in Slots(k) /\ Len(k.slots) > 0 /\ Len(k.slots) \in Nat
    BY <1>1, FirstSlot, LenProperties DEF Slots
  <2> QED
    BY <1>1, <2>1, SlotIndex, LenProperties
<1>3. IndexOf(k, t) = 1
  BY <1>1, <1>2, SlotIndex DEF IsInjective
<1>4. /\ r \in KState /\ r.slots = RemoveAt(k.slots, 1) /\ IsInjective(r.slots)
      /\ Slots(r) = Slots(k) \ {t} /\ r.buf = [k.buf EXCEPT ![t] = <<>>]
      /\ r.out = k.out \o k.buf[t] /\ r.active = k.active
  BY <1>1, <1>2, <1>3, RetireParts
<1>5. r.injected_by = k.injected_by
  BY <1>1 DEF Retire, KState
<1> HIDE DEF r
<1>6. OrderedBy(r, R)
  BY <1>1, <1>2, <1>4, RemovedOrder DEF Ranked
<1>7. IsBlock(k.buf[t], t) /\ k.buf[t] \in Seq(Line)
  BY <1>1, <1>2 DEF Ranked, Tidy
<1>8. Follows(Slots(k), (pr \o k.out) \o k.buf[t], R)
  BY <1>1, <1>7, HeadFollows DEF Ranked
<1>9. pr \o r.out = (pr \o k.out) \o k.buf[t]
  <2> DEFINE o == k.out
             b == k.buf[t]
  <2>1. r.out = o \o b /\ o \in Seq(Line) /\ b \in Seq(Line)
    BY <1>1, <1>4, <1>7
  <2> HIDE DEF o, b
  <2>2. pr \o r.out = (pr \o o) \o b
    BY <2>1, LinesAssociative
  <2> QED
    BY <2>2 DEF o, b
<1>10. Tidy(r)
  <2>1. \A u \in Task : IsBlock(r.buf[u], u)
    <3>1. IsBlock(<<>>, t)
      BY DEF IsBlock
    <3>2. \A u \in Task : IsBlock(k.buf[u], u)
      BY DEF Ranked, Tidy
    <3>3. \A u \in Task : r.buf[u] = IF u = t THEN <<>> ELSE k.buf[u]
      BY <1>1, <1>4
    <3> QED
      BY <3>1, <3>2, <3>3
  <2> QED
    BY <1>4, <2>1 DEF Tidy
<1>11. Follows(Slots(r), pr \o r.out, R)
  BY <1>4, <1>8, <1>9 DEF Follows
<1> QED
  BY <1>4, <1>5, <1>6, <1>10, <1>11 DEF Ranked, r

(* The slots at the front are retired one after the other.                 *)
LEMMA RetireFront ==
    ASSUME NEW k, NEW pr \in Seq(Line), NEW R, Ranked(k, pr, R), k.active = None,
           NEW m \in 0 .. Len(k.slots)
    PROVE  LET r == RetireAll(k, SubSeq(k.slots, 1, m)) IN
           /\ Ranked(r, pr, R) /\ r.active = None /\ r.injected_by = k.injected_by
           /\ Slots(r) \subseteq Slots(k)
<1> DEFINE n == Len(k.slots)
           fl == SubSeq(k.slots, 1, m)
<1>1. /\ k \in KState /\ k.slots \in Seq(Task) /\ n \in Nat
      /\ DOMAIN k.slots = 1 .. n /\ \A i \in 1 .. n : k.slots[i] \in Task
  <2>1. k \in KState
    BY DEF Ranked, Tidy
  <2> QED
    BY <2>1, KParts, LenProperties, ElementOfSeq
<1> HIDE DEF n
<1>2. /\ m \in Nat /\ m <= n /\ DOMAIN fl = 1 .. m /\ \A i \in 1 .. m : fl[i] = k.slots[i]
  <2>1. m \in Nat /\ m <= n /\ 1 \in Int /\ m \in Int /\ \A i \in 1 .. m : k.slots[i] \in Task
    BY <1>1 DEF n
  <2>2. /\ fl \in Seq(Task) /\ Len(fl) = IF 1 <= m THEN m - 1 + 1 ELSE 0
        /\ \A i \in 1 .. m - 1 + 1 : fl[i] = k.slots[1 + i - 1]
    BY <2>1, SubSeqProperties
  <2> HIDE DEF fl
  <2>3. m - 1 + 1 = m /\ (IF 1 <= m THEN m - 1 + 1 ELSE 0) = m /\ \A i \in 1 .. m : 1 + i - 1 = i
    BY <2>1
  <2>4. Len(fl) = m
    BY <2>2, <2>3
  <2> QED
    BY <2>1, <2>2, <2>3, <2>4, LenProperties
<1> HIDE DEF fl
<1>3. PICK f : Retired(f, k, fl, m) /\ RetireAll(k, fl) = f[m]
  BY <1>2, FoldRetire
<1> DEFINE P(i) == /\ Ranked(f[i], pr, R) /\ f[i].active = None
                   /\ f[i].injected_by = k.injected_by /\ Slots(f[i]) \subseteq Slots(k)
                   /\ Len(f[i].slots) = n - i
                   /\ \A j \in 1 .. n - i : f[i].slots[j] = k.slots[i + j]
           Good == {i \in 0 .. m : P(i)}
<1>4. 0 \in Good
  <2>1. f[0] = k
    BY <1>3 DEF Retired
  <2>2. \A j \in 1 .. n - 0 : k.slots[j] = k.slots[0 + j]
    BY <1>1
  <2>3. P(0)
    BY <1>1, <2>1, <2>2 DEF n
  <2> HIDE DEF P
  <2> QED
    BY <1>2, <2>3
<1>5. ASSUME NEW i \in 0 .. m - 1, i \in Good
      PROVE  i + 1 \in Good
  <2> DEFINE g == f[i]
             t == k.slots[i + 1]
  <2>1. /\ Ranked(g, pr, R) /\ g.active = None
        /\ g.injected_by = k.injected_by /\ Slots(g) \subseteq Slots(k)
        /\ Len(g.slots) = n - i /\ \A j \in 1 .. n - i : g.slots[j] = k.slots[i + j]
    BY <1>5
  <2>2. i \in Nat /\ i + 1 \in 1 .. m /\ i + 1 \in 0 .. m /\ (i + 1) - 1 = i /\ i + 1 \in 1 .. n
    BY <1>1, <1>2
  <2>3. f[i + 1] = Retire(g, t) /\ t \in Task
    BY <1>1, <1>2, <1>3, <2>2 DEF Retired
  <2> HIDE DEF g, t
  <2>4. g \in KState /\ IsInjective(g.slots) /\ g.slots \in Seq(Task)
    BY <2>1, KParts DEF Ranked, Tidy
  <2>5. 1 \in 1 .. n - i /\ g.slots[1] = t /\ g.slots # <<>> /\ t = Head(g.slots)
    <3>1. 1 \in 1 .. n - i /\ g.slots[1] = t
      BY <1>1, <2>1, <2>2 DEF t
    <3>2. Len(g.slots) > 0
      BY <1>1, <2>1, <2>2
    <3> QED
      BY <2>4, <3>1, <3>2, FirstSlot
  <2>6. /\ Ranked(Retire(g, t), pr, R) /\ Retire(g, t).active = None
        /\ Retire(g, t).slots = RemoveAt(g.slots, 1)
        /\ Retire(g, t).injected_by = g.injected_by /\ Slots(Retire(g, t)) = Slots(g) \ {t}
    BY <2>1, <2>5, RetireRanked
  <2>7. /\ Len(RemoveAt(g.slots, 1)) = (n - i) - 1
        /\ \A j \in 1 .. (n - i) - 1 : RemoveAt(g.slots, 1)[j] = IF j < 1 THEN g.slots[j] ELSE g.slots[j + 1]
    <3> DEFINE q == g.slots
    <3>1. q \in Seq(Task) /\ IsInjective(q) /\ 1 \in 1 .. Len(q) /\ Len(q) = n - i
      BY <2>1, <2>4, <2>5
    <3> HIDE DEF q
    <3>2. /\ Len(RemoveAt(q, 1)) = Len(q) - 1
          /\ \A j \in 1 .. Len(q) - 1 : RemoveAt(q, 1)[j] = IF j < 1 THEN q[j] ELSE q[j + 1]
      BY <3>1, RemoveAtProperties
    <3> QED
      BY <3>1, <3>2 DEF q
  <2>8. /\ Len(RemoveAt(g.slots, 1)) = n - (i + 1)
        /\ \A j \in 1 .. n - (i + 1) : RemoveAt(g.slots, 1)[j] = k.slots[(i + 1) + j]
    <3>1. (n - i) - 1 = n - (i + 1)
      BY <1>1, <2>2
    <3> SUFFICES ASSUME NEW j \in 1 .. n - (i + 1)
                 PROVE  RemoveAt(g.slots, 1)[j] = k.slots[(i + 1) + j]
      BY <2>7, <3>1
    <3>2. ~(j < 1) /\ j + 1 \in 1 .. n - i /\ i + (j + 1) = (i + 1) + j
      BY <1>1, <2>2
    <3> QED
      BY <2>1, <2>7, <3>1, <3>2
  <2>9. P(i + 1)
    BY <2>1, <2>3, <2>6, <2>8
  <2> HIDE DEF P
  <2> QED
    BY <2>2, <2>9
<1>6. P(m)
  <2>1. m \in Good
    <3> HIDE DEF Good
    <3> QED
      BY <1>2, <1>4, <1>5, NatInd
  <2> HIDE DEF P
  <2> QED
    BY <2>1
<1> QED
  BY <1>3, <1>6 DEF fl

(* What the operations keep: the order, who injected whom, no new slots.   *)
KeepsRank(k, r, pr, R) ==
    Ranked(r, pr, R) /\ r.injected_by = k.injected_by /\ Slots(r) \subseteq Slots(k)

(* flush_finished.                                                         *)
LEMMA FlushRanked ==
    ASSUME NEW k, NEW pr \in Seq(Line), NEW R, Ranked(k, pr, R), k.active = None
    PROVE  KeepsRank(k, FlushFinished(k), pr, R) /\ FlushFinished(k).active = None
<1>1. k \in KState
  BY DEF Ranked, Tidy
<1>2. PICK m \in 0 .. Len(k.slots) :
          FlushFinished(k) =
              [RetireAll(k, SubSeq(k.slots, 1, m)) EXCEPT !.finished = @ \ ToSet(SubSeq(k.slots, 1, m))]
  BY <1>1, FlushedPrefix
<1> DEFINE fl == SubSeq(k.slots, 1, m)
           g == RetireAll(k, fl)
           r == [g EXCEPT !.finished = @ \ ToSet(fl)]
<1>3. Ranked(g, pr, R) /\ g.active = None /\ g.injected_by = k.injected_by /\ Slots(g) \subseteq Slots(k)
  BY RetireFront
<1>4. FlushFinished(k) = r
  BY <1>2
<1> HIDE DEF g, fl
<1>5. g \in KState
  BY <1>3 DEF Ranked, Tidy
<1>6. /\ r.slots = g.slots /\ r.buf = g.buf /\ r.active = g.active /\ r.out = g.out
      /\ r.injected_by = g.injected_by /\ r \in KState
  BY <1>5 DEF KState
<1> HIDE DEF r
<1>7. Ranked(r, pr, R)
  BY <1>3, <1>6, RankedSame
<1>8. Slots(r) = Slots(g)
  BY <1>6 DEF Slots
<1> QED
  BY <1>3, <1>4, <1>6, <1>7, <1>8 DEF KeepsRank

(* The first task becomes the live one and prints what it has buffered.    *)
LEMMA ActivateRanked ==
    ASSUME NEW k, NEW pr \in Seq(Line), NEW R, Ranked(k, pr, R), k.slots # <<>>, NEW t, t = Head(k.slots)
    PROVE  /\ KeepsRank(k, Activate(k, t), pr, R) /\ Activate(k, t).active = t
           /\ Activate(k, t).buf = [k.buf EXCEPT ![t] = <<>>]
           /\ Activate(k, t).slots = k.slots
<1> DEFINE r == Activate(k, t)
           b2 == [k.buf EXCEPT ![t] = <<>>]
           o2 == k.out \o k.buf[t]
<1>1. /\ k \in KState /\ k.slots \in Seq(Task) /\ k.out \in Seq(Line)
      /\ k.buf \in [Task -> Seq(Line)] /\ OrderedBy(k, R) /\ IsInjective(k.slots)
  BY KParts DEF Ranked, Tidy
<1>2. t \in Task
  BY <1>1, FirstSlot
<1>3. IsBlock(k.buf[t], t) /\ k.buf[t] \in Seq(Line)
  BY <1>1, <1>2 DEF Ranked, Tidy
<1>4. b2 \in [Task -> Seq(Line)] /\ o2 \in Seq(Line)
  BY <1>1, <1>2, <1>3, ConcatProperties
<1>5. /\ r.active = t /\ r.slots = k.slots /\ r.buf = b2 /\ r.out = o2
      /\ r.injected_by = k.injected_by
  BY <1>1 DEF Activate, KState
<1>6. r \in KState
  <2>1. r = [k EXCEPT !.active = t, !.out = o2, !.buf = b2]
    BY <1>1 DEF Activate, KState
  <2> HIDE DEF r, b2, o2
  <2> QED
    BY <1>1, <1>2, <1>4, <2>1 DEF KState
<1>7. pr \o r.out = (pr \o k.out) \o k.buf[t] /\ pr \o k.out \in Seq(Line)
  <2> DEFINE o == k.out
             b == k.buf[t]
  <2>1. r.out = o \o b /\ o \in Seq(Line) /\ b \in Seq(Line)
    BY <1>1, <1>3, <1>5
  <2> HIDE DEF o, b, r
  <2>2. pr \o r.out = (pr \o o) \o b /\ pr \o o \in Seq(Line)
    BY <2>1, LinesAssociative
  <2> QED
    BY <2>2 DEF o, b
<1>8. Follows(Slots(k), (pr \o k.out) \o k.buf[t], R)
  BY <1>1, <1>3, <1>7, HeadFollows DEF Ranked
<1> HIDE DEF r
<1>9. Tidy(r)
  <2>1. \A u \in Task : IsBlock(r.buf[u], u)
    <3>1. IsBlock(<<>>, t)
      BY DEF IsBlock
    <3> QED
      BY <1>1, <1>5, <3>1 DEF Ranked, Tidy
  <2> QED
    BY <1>1, <1>5, <1>6, <2>1 DEF Tidy
<1>10. Slots(r) = Slots(k)
  BY <1>5 DEF Slots
<1>11. OrderedBy(r, R)
  BY <1>1, <1>5 DEF OrderedBy
<1> QED
  BY <1>5, <1>7, <1>8, <1>9, <1>10, <1>11 DEF Ranked, KeepsRank, r

(* The end of a task.                                                      *)
LEMMA FinishedRanked ==
    ASSUME NEW k, NEW pr \in Seq(Line), NEW R, Ranked(k, pr, R), NEW t \in Task
    PROVE  KeepsRank(k, OnTaskFinished(k, t), pr, R)
<1>1. k \in KState /\ k.slots \in Seq(Task)
  BY KParts DEF Ranked, Tidy
<1>2. CASE ~HasSlot(k, t)
  BY <1>2 DEF OnTaskFinished, KeepsRank
<1>3. CASE HasSlot(k, t) /\ IsActive(k, t)
  <2> DEFINE k1 == [k EXCEPT !.active = None]
             k2 == Retire(k1, t)
             k3 == FlushFinished(k2)
  <2>1. OnTaskFinished(k, t) = PromoteNext(k3)
    BY <1>3 DEF OnTaskFinished
  <2>2. k.slots # <<>> /\ Head(k.slots) = t
    <3>1. k.slots # <<>>
      BY <1>1, <1>3, SlotIndex, FirstSlot
    <3> QED
      BY <1>3, <3>1 DEF IsActive, Ranked, Tidy
  <2>3. /\ k1 \in KState /\ k1.slots = k.slots /\ k1.buf = k.buf /\ k1.out = k.out
        /\ k1.active = None /\ k1.injected_by = k.injected_by
    BY <1>1 DEF KState
  <2> HIDE DEF k1
  <2>4. Ranked(k1, pr, R) /\ Slots(k1) = Slots(k)
    BY <2>3, RankedSame DEF Slots
  <2>5. /\ Ranked(k2, pr, R) /\ k2.active = None
        /\ k2.injected_by = k1.injected_by /\ Slots(k2) = Slots(k1) \ {t}
    BY <2>2, <2>3, <2>4, RetireRanked
  <2> HIDE DEF k2
  <2>6. KeepsRank(k2, k3, pr, R) /\ k3.active = None
    BY <2>5, FlushRanked
  <2> HIDE DEF k3
  <2>7. CASE k3.slots # <<>> /\ k3.buf[Head(k3.slots)] # <<>>
    <3>1. PromoteNext(k3) = Activate(k3, Head(k3.slots))
      BY <2>7 DEF PromoteNext
    <3>2. Ranked(k3, pr, R)
      BY <2>6 DEF KeepsRank
    <3>3. KeepsRank(k3, Activate(k3, Head(k3.slots)), pr, R)
      BY <2>6, <2>7, <3>2, ActivateRanked
    <3> QED
      BY <2>1, <2>3, <2>4, <2>5, <2>6, <3>1, <3>3 DEF KeepsRank
  <2>8. CASE ~(k3.slots # <<>> /\ k3.buf[Head(k3.slots)] # <<>>)
    <3>1. PromoteNext(k3) = k3
      BY <2>8 DEF PromoteNext
    <3> QED
      BY <2>1, <2>3, <2>4, <2>5, <2>6, <3>1 DEF KeepsRank
  <2> QED
    BY <2>7, <2>8
<1>4. CASE HasSlot(k, t) /\ ~IsActive(k, t)
  <2> DEFINE r == [k EXCEPT !.finished = @ \cup {t}]
  <2>1. OnTaskFinished(k, t) = r
    BY <1>4 DEF OnTaskFinished
  <2>2. /\ r.slots = k.slots /\ r.buf = k.buf /\ r.active = k.active /\ r.out = k.out
        /\ r.injected_by = k.injected_by /\ r \in KState
    BY <1>1 DEF KState
  <2> HIDE DEF r
  <2>3. Ranked(r, pr, R) /\ Slots(r) = Slots(k)
    BY <2>2, RankedSame DEF Slots
  <2> QED
    BY <2>1, <2>2, <2>3 DEF KeepsRank
<1> QED
  BY <1>2, <1>3, <1>4

(* Slots given up.                                                         *)
LEMMA UnusedRanked ==
    ASSUME NEW k, NEW pr \in Seq(Line), NEW R, Ranked(k, pr, R), NEW tasks \in Seq(Task)
    PROVE  KeepsRank(k, RetireUnusedSlots(k, tasks), pr, R)
<1> DEFINE n == Len(tasks)
<1>1. n \in Nat /\ DOMAIN tasks = 1 .. n /\ \A i \in 1 .. n : tasks[i] \in Task
  BY LenProperties, ElementOfSeq
<1> HIDE DEF n
<1>2. PICK f : Unused(f, k, tasks, n) /\ RetireUnusedSlots(k, tasks) = f[n]
  BY <1>1, FoldRetireUnusedSlot
<1> DEFINE Good == {i \in 0 .. n : KeepsRank(k, f[i], pr, R)}
<1>3. 0 \in Good
  BY <1>1, <1>2 DEF Unused, KeepsRank
<1>4. ASSUME NEW i \in 0 .. n - 1, i \in Good PROVE i + 1 \in Good
  <2> DEFINE g == f[i]
             t == tasks[i + 1]
  <2>1. i + 1 \in 1 .. n /\ i + 1 \in 0 .. n /\ (i + 1) - 1 = i
    BY <1>1
  <2>2. f[i + 1] = RetireUnusedSlot(g, t) /\ t \in Task
    BY <1>1, <1>2, <2>1 DEF Unused
  <2>3. KeepsRank(k, g, pr, R)
    BY <1>4
  <2> HIDE DEF g, t
  <2>4. KeepsRank(g, OnTaskFinished(g, t), pr, R)
    BY <2>2, <2>3, FinishedRanked DEF KeepsRank
  <2>5. KeepsRank(k, f[i + 1], pr, R)
    BY <2>2, <2>3, <2>4 DEF KeepsRank, RetireUnusedSlot
  <2> QED
    BY <2>1, <2>5
<1>5. n \in Good
  <2> HIDE DEF Good
  <2> QED
    BY <1>1, <1>3, <1>4, NatInd
<1> QED
  BY <1>2, <1>5

(* init_task: a slot at the end.                                           *)
LEMMA InitPlace ==
    ASSUME NEW k \in KState, IsInjective(k.slots), NEW t \in Task, ~HasSlot(k, t), NEW r, r = InitTask(k, t)
    PROVE  /\ r \in KState /\ IsInjective(r.slots) /\ Len(r.slots) = Len(k.slots) + 1
           /\ DOMAIN r.slots = 1 .. Len(k.slots) + 1
           /\ \A i \in 1 .. Len(k.slots) : r.slots[i] = k.slots[i]
           /\ r.slots[Len(k.slots) + 1] = t /\ Slots(r) = Slots(k) \cup {t}
           /\ r.slots # <<>> /\ (k.slots # <<>> => Head(r.slots) = Head(k.slots))
           /\ r.buf = k.buf /\ r.active = k.active /\ r.out = k.out /\ r.injected_by = k.injected_by
           /\ r.finished = k.finished /\ r.done = k.done
<1> DEFINE s == k.slots
           a == Append(s, t)
<1>1. s \in Seq(Task) /\ IsInjective(s) /\ t \notin Slots(k)
  BY KParts, SlotIndex
<1>2. /\ a \in Seq(Task) /\ Len(a) = Len(s) + 1 /\ Len(s) \in Nat /\ DOMAIN a = 1 .. Len(s) + 1
      /\ DOMAIN s = 1 .. Len(s)
      /\ \A i \in 1 .. Len(s) : a[i] = s[i]
      /\ a[Len(s) + 1] = t
  BY <1>1, AppendProperties, LenProperties
<1>3. /\ r \in KState /\ r.buf = k.buf /\ r.active = k.active /\ r.finished = k.finished
      /\ r.done = k.done /\ r.out = k.out /\ r.slots = a /\ r.injected_by = k.injected_by
  <2> HIDE DEF a
  <2>1. r = [k EXCEPT !.slots = a]
    BY DEF KState, InitTask, a
  <2> QED
    BY <1>2, <2>1 DEF KState
<1>4. Slots(r) = Slots(k) \cup {t}
  BY <1>1, <1>3, ToSetAppend DEF Slots
<1>5. IsInjective(a)
  <2>1. \A i \in 1 .. Len(s) : s[i] # t
    BY <1>1, InToSet DEF Slots
  <2>2. \A i, j \in 1 .. Len(s) : s[i] = s[j] => i = j
    BY <1>1, <1>2 DEF IsInjective
  <2> SUFFICES ASSUME NEW i \in 1 .. Len(s) + 1, NEW j \in 1 .. Len(s) + 1, a[i] = a[j]
               PROVE  i = j
    BY <1>2 DEF IsInjective
  <2>3. \A x \in 1 .. Len(s) + 1 : x \in 1 .. Len(s) \/ x = Len(s) + 1
    BY <1>2
  <2> HIDE DEF a, s
  <2>4. CASE i = Len(s) + 1
    BY <1>2, <2>1, <2>3, <2>4
  <2>5. CASE i \in 1 .. Len(s)
    BY <1>2, <2>1, <2>2, <2>3, <2>5
  <2> QED
    BY <2>3, <2>4, <2>5
<1>6. a # <<>> /\ (s # <<>> => Head(a) = Head(s))
  <2>1. Len(a) > 0
    BY <1>2
  <2>2. a # <<>> /\ Head(a) = a[1]
    <3> HIDE DEF a
    <3> QED
      BY <1>2, <2>1, FirstSlot
  <2>3. ASSUME s # <<>> PROVE Head(a) = Head(s)
    <3>1. Head(s) = s[1] /\ Len(s) > 0
      BY <1>1, <2>3, FirstSlot
    <3>2. 1 \in 1 .. Len(s)
      BY <1>2, <3>1
    <3> QED
      BY <1>2, <2>2, <3>1, <3>2
  <2> QED
    BY <2>2, <2>3
<1> HIDE DEF a
<1> QED
  BY <1>2, <1>3, <1>4, <1>5, <1>6

(* What it leaves alone.                                                   *)
LEMMA InitKeeps ==
    ASSUME NEW k \in KState, IsInjective(k.slots), NEW t \in Task, NEW r, r = InitTask(k, t)
    PROVE  /\ r \in KState /\ IsInjective(r.slots) /\ Slots(r) = Slots(k) \cup {t}
           /\ r.injected_by = k.injected_by /\ r.out = k.out /\ r.active = k.active
           /\ r.buf = k.buf /\ r.done = k.done /\ r.finished = k.finished
<1>1. CASE HasSlot(k, t)
  BY <1>1, SlotIndex DEF InitTask
<1>2. CASE ~HasSlot(k, t)
  BY <1>2, InitPlace
<1> QED
  BY <1>1, <1>2

(* A task that has a slot, or may have one at the end.                     *)
Accepts(k, t, R) == HasSlot(k, t) \/ \A x \in Task : <<x, t>> \in R

(* A slot at the end for a task that everything is related to.             *)
LEMMA InitRanked ==
    ASSUME NEW k, NEW pr \in Seq(Line), NEW R, Ranked(k, pr, R), NEW t \in Task,
           Accepts(k, t, R), NEW r, r = InitTask(k, t)
    PROVE  Ranked(r, pr, R)
<1>1. k \in KState /\ IsInjective(k.slots) /\ k.slots \in Seq(Task) /\ k.out \in Seq(Line)
  BY KParts DEF Ranked, Tidy
<1>2. CASE HasSlot(k, t)
  BY <1>2 DEF InitTask
<1>3. CASE ~HasSlot(k, t)
  <2> DEFINE n == Len(k.slots)
  <2>1. /\ r \in KState /\ IsInjective(r.slots) /\ DOMAIN r.slots = 1 .. n + 1
        /\ \A i \in 1 .. n : r.slots[i] = k.slots[i]
        /\ r.slots[n + 1] = t /\ Slots(r) = Slots(k) \cup {t}
        /\ r.slots # <<>> /\ (k.slots # <<>> => Head(r.slots) = Head(k.slots))
        /\ r.buf = k.buf /\ r.active = k.active /\ r.out = k.out /\ r.injected_by = k.injected_by
    BY <1>1, <1>3, InitPlace
  <2>2. n \in Nat /\ DOMAIN k.slots = 1 .. n /\ \A i \in 1 .. n : k.slots[i] \in Task
    BY <1>1, LenProperties, ElementOfSeq
  <2>3. \A x \in Task : <<x, t>> \in R
    BY <1>3 DEF Accepts
  <2> HIDE DEF n
  <2>4. OrderedBy(r, R)
    <3> SUFFICES ASSUME NEW i \in 1 .. n + 1, NEW j \in 1 .. n + 1, i < j
                 PROVE  <<r.slots[i], r.slots[j]>> \in R
      BY <2>1 DEF OrderedBy
    <3>1. i \in 1 .. n
      BY <2>2
    <3>2. CASE j = n + 1
      BY <2>1, <2>2, <2>3, <3>1, <3>2
    <3>3. CASE j # n + 1
      <4>1. j \in 1 .. n
        BY <2>2, <3>3
      <4> QED
        BY <2>1, <2>2, <3>1, <4>1 DEF Ranked, OrderedBy
    <3> QED
      BY <3>2, <3>3
  <2>5. Follows(Slots(r), pr \o r.out, R)
    <3> DEFINE full == pr \o k.out
    <3>1. full \in Seq(Line)
      BY <1>1, ConcatProperties
    <3>2. \A i \in DOMAIN full : full[i][1] \in Task
      BY <3>1, LenProperties, ElementOfSeq, LineParts
    <3>3. Follows(Slots(k), full, R)
      BY DEF Ranked
    <3> HIDE DEF full
    <3>4. Follows(Slots(k) \cup {t}, full, R)
      BY <2>3, <3>2, <3>3 DEF Follows, Related
    <3> QED
      BY <2>1, <3>4 DEF full
  <2>6. Tidy(r)
    BY <2>1 DEF Tidy, Ranked
  <2> QED
    BY <2>1, <2>4, <2>5, <2>6 DEF Ranked
<1> QED
  BY <1>2, <1>3

AddsRank(k, r, pr, R, t) ==
    Ranked(r, pr, R) /\ r.injected_by = k.injected_by /\ Slots(r) = Slots(k) \cup {t}

(* A line of a task: it has a slot, or everything is related to it.        *)
LEMMA LineRanked ==
    ASSUME NEW k, NEW pr \in Seq(Line), NEW R, Ranked(k, pr, R), NEW t \in Task, k.done = FALSE,
           Accepts(k, t, R),
           NEW x \in Line, x[1] = t, NEW r, r = OnLine(k, t, x)
    PROVE  AddsRank(k, r, pr, R, t)
<1>1. k \in KState /\ IsInjective(k.slots) /\ k.slots \in Seq(Task) /\ k.out \in Seq(Line)
  BY KParts DEF Ranked, Tidy
<1>2. IsBlock(<<x>>, t) /\ <<x>> \in Seq(Line)
  <2>1. <<x>> \in Seq(Line) /\ Len(<<x>>) = 1 /\ <<x>>[1] = x
    OBVIOUS
  <2> QED
    BY <2>1 DEF IsBlock
<1>3. CASE IsActive(k, t)
  <2> DEFINE a == Activate(k, t)
  <2>1. k.slots # <<>> /\ t = Head(k.slots)
    BY <1>3 DEF IsActive, Ranked, Tidy
  <2>2. Ranked(a, pr, R) /\ a.injected_by = k.injected_by /\ a.active = t /\ a.slots = k.slots
    <3>1. KeepsRank(k, a, pr, R) /\ a.active = t /\ a.slots = k.slots
      BY <2>1, ActivateRanked, ZenonT(60)
    <3> QED
      BY <3>1 DEF KeepsRank
  <2>3. r = [a EXCEPT !.out = Append(@, x)]
    BY <1>3 DEF OnLine
  <2> HIDE DEF a
  <2>4. a \in KState /\ a.out \in Seq(Line) /\ OrderedBy(a, R)
    BY <2>2, KParts DEF Ranked, Tidy
  <2> DEFINE ao == a.out
             o2 == Append(ao, x)
  <2>5. o2 \in Seq(Line) /\ o2 = ao \o <<x>>
    BY <2>4, SMTT(30)
  <2>6. pr \o o2 = (pr \o ao) \o <<x>> /\ pr \o ao \in Seq(Line)
    <3> HIDE DEF o2, ao
    <3>1. ao \in Seq(Line)
      BY <2>4 DEF ao
    <3> QED
      BY <1>2, <2>5, <3>1, LinesAssociative
  <2>7. r = [a EXCEPT !.out = o2]
    BY <2>3, <2>4 DEF KState
  <2> HIDE DEF o2
  <2>8. /\ r \in KState /\ r.slots = k.slots /\ r.buf = a.buf /\ r.active = a.active /\ r.out = o2
        /\ r.injected_by = k.injected_by
    BY <2>2, <2>4, <2>5, <2>7 DEF KState
  <2>9. Follows(Slots(a), (pr \o ao) \o <<x>>, R)
    BY <1>2, <2>1, <2>2, <2>4, <2>6, HeadFollows DEF Ranked
  <2>10. Slots(r) = Slots(k) /\ Slots(r) = Slots(a) /\ t \in Slots(k)
    BY <1>1, <2>1, <2>2, <2>8, FirstSlot DEF Slots
  <2>11. Follows(Slots(r), pr \o r.out, R)
    BY <2>6, <2>8, <2>9, <2>10
  <2>12. Tidy(r)
    BY <2>2, <2>8 DEF Tidy, Ranked
  <2>13. OrderedBy(r, R)
    BY <2>2, <2>4, <2>8 DEF OrderedBy
  <2> QED
    BY <2>8, <2>10, <2>11, <2>12, <2>13 DEF Ranked, AddsRank
<1>4. CASE ~IsActive(k, t)
  <2> DEFINE s == InitTask(k, t)
  <2>1. r = [s EXCEPT !.buf[t] = Append(@, x)]
    BY <1>4 DEF OnLine
  <2>2. /\ Ranked(s, pr, R) /\ s.injected_by = k.injected_by /\ Slots(s) = Slots(k) \cup {t}
    <3>1. s = InitTask(k, t)
      OBVIOUS
    <3> HIDE DEF s
    <3>2. Ranked(s, pr, R)
      BY <3>1, InitRanked
    <3>3. s.injected_by = k.injected_by /\ Slots(s) = Slots(k) \cup {t}
      BY <1>1, <3>1, InitKeeps
    <3> QED
      BY <3>2, <3>3
  <2> HIDE DEF s
  <2>3. s \in KState /\ s.buf \in [Task -> Seq(Line)] /\ IsBlock(s.buf[t], t)
    BY <2>2, KParts DEF Ranked, Tidy
  <2> DEFINE b1 == s.buf[t]
             b2 == Append(b1, x)
             sb == [s.buf EXCEPT ![t] = b2]
  <2>4. IsBlock(b2, t) /\ b2 \in Seq(Line)
    <3>1. b1 \in Seq(Line) /\ IsBlock(b1, t)
      BY <2>3
    <3> HIDE DEF b1
    <3>2. b2 \in Seq(Line) /\ Len(b2) = Len(b1) + 1 /\ Len(b1) \in Nat
          /\ (\A i \in 1 .. Len(b1) : b2[i] = b1[i]) /\ b2[Len(b1) + 1] = x
      BY <3>1, AppendProperties, LenProperties
    <3> HIDE DEF b2
    <3> QED
      BY <3>1, <3>2 DEF IsBlock
  <2>5. r = [s EXCEPT !.buf = sb]
    BY <2>1, <2>3 DEF KState
  <2> HIDE DEF b2
  <2>6. sb \in [Task -> Seq(Line)] /\ \A u \in Task : IsBlock(sb[u], u)
    BY <2>2, <2>3, <2>4 DEF Ranked, Tidy
  <2> HIDE DEF sb
  <2>7. /\ r \in KState /\ r.slots = s.slots /\ r.buf = sb /\ r.active = s.active /\ r.out = s.out
        /\ r.injected_by = s.injected_by
    BY <2>3, <2>5, <2>6 DEF KState
  <2>8. Slots(r) = Slots(s)
    BY <2>7 DEF Slots
  <2> QED
    BY <2>2, <2>6, <2>7, <2>8 DEF Ranked, Tidy, OrderedBy, AddsRank
<1> QED
  BY <1>3, <1>4

-----------------------------------------------------------------------------
(***************************************************************************)
(* The invariant of the order. A task that can print has a slot or was     *)
(* stranded; a slot is that of a task that was injected; injected_by names *)
(* occurrences, and has those of the tasks that run once; the entries a    *)
(* task has injected; the slots and the terminal are in definition order;  *)
(* the slots between a parent that prints and one of its group are of its  *)
(* group; and a parent that prints has what it names in order.             *)
(***************************************************************************)
Before(k, x, y) ==
    \E i, j \in DOMAIN k.slots : i < j /\ k.slots[i] = x /\ k.slots[j] = y

Placed == \A t \in CanPrint(life, stopping) : t \in Slots(ko) \cup stranded

Owned == \A t \in Slots(ko) : \E o \in Occ : o[2] = t /\ life[o] # "none"

Credited == \A e \in ko.injected_by : life[<<e[2], e[1]>>] # "none"

Linked ==
    \A h, t \in Task : RunsOnce(t) /\ life[<<h, t>>] # "none" =>
        <<t, h>> \in ko.injected_by \/ h \in stranded

Entered(p) ==
    /\ entry[p] <= Len(prog.entries[p])
    /\ entry[p] > 0 => \E o \in Occ : o[2] = p /\ life[o] \in {"running", "failed", "over"}
    /\ \A m \in 1 .. entry[p] : \A x \in DOMAIN prog.entries[p][m] :
          life[<<p, prog.entries[p][m][x]>>] # "none" \/ prog.entries[p][m][x] \in known[p]
    /\ \A t \in Task : life[<<p, t>>] # "none" =>
          \E m \in 1 .. entry[p] : \E x \in DOMAIN prog.entries[p][m] : prog.entries[p][m][x] = t

Places(p, a, b) ==
    /\ NamedBefore(p, a, b)
    /\ Home(b) = {p}
    /\ <<a, p>> \in ko.injected_by /\ life[<<p, b>>] # "none"
    /\ ({a, b, p} \cup Parents(a)) \cap stranded = {}
    /\ a \in Slots(ko) /\ b \in Slots(ko)

Sorted == \A p \in prog.prints : \A a, b \in Task : Places(p, a, b) => Before(ko, a, b)

Defined == {r \in Task \X Task : Settled(r[1]) /\ Settled(r[2]) => Ahead(r[1], r[2])}

Contiguous ==
    \A p, y, z \in Task :
        /\ Before(ko, p, y) /\ Before(ko, y, z) /\ p \in prog.prints \cap Lineage(z)
        /\ Settled(y) /\ Settled(z)
        => p \in Lineage(y)

Lived == Placed /\ Owned /\ Credited /\ Linked /\ \A p \in Task : Entered(p)

OInv ==
    /\ Lived
    /\ Sorted
    /\ Ranked(ko, printed, Defined)
    /\ Contiguous

(* What depends on the program only.                                       *)
LEMMA SameProgram ==
    ASSUME prog' = prog, NEW t, NEW u, NEW h
    PROVE  /\ Parents(t)' = Parents(t) /\ Lineage(t)' = Lineage(t) /\ Home(t)' = Home(t)
           /\ NamedBefore(h, t, u)' = NamedBefore(h, t, u) /\ Ahead(t, u)' = Ahead(t, u)
           /\ RunsOnce(t)' = RunsOnce(t)
<1>1. \A x : Parents(x)' = Parents(x)
  BY DEF Parents
<1>2. \A x : Lineage(x)' = Lineage(x)
  BY <1>1 DEF Lineage
<1>3. \A x : Home(x)' = Home(x)
  BY <1>1 DEF Home
<1>4. \A g, x, y : NamedBefore(g, x, y)' = NamedBefore(g, x, y)
  <2>1. \A g : Groups(g)' = Groups(g)
    BY DEF Groups
  <2> QED
    BY <2>1 DEF NamedBefore
<1>5. Ahead(t, u)' = Ahead(t, u)
  BY <1>2, <1>3, <1>4 DEF Ahead
<1>6. RunsOnce(t)' = RunsOnce(t)
  BY <1>1 DEF RunsOnce
<1> QED
  BY <1>1, <1>2, <1>3, <1>4, <1>5, <1>6

(* A settled task was settled before.                                      *)
LEMMA SettledBack ==
    ASSUME prog' = prog, stranded \subseteq stranded', NEW t, Settled(t)'
    PROVE  Settled(t)
<1>1. \A x : Parents(x)' = Parents(x) /\ Lineage(x)' = Lineage(x)
  BY SameProgram
<1>2. \A h, x, y : NamedBefore(h, x, y)' = NamedBefore(h, x, y)
  BY SameProgram
<1>3. \A x : Keeps(x)' => Keeps(x)
  BY <1>1 DEF Keeps
<1> QED
  BY <1>1, <1>2, <1>3 DEF Settled

(* Nothing else changes it.                                                *)
LEMMA SettledSame ==
    ASSUME prog' = prog, stranded' = stranded, NEW t
    PROVE  Settled(t)' = Settled(t)
<1>1. \A x : Parents(x)' = Parents(x) /\ Lineage(x)' = Lineage(x)
  BY SameProgram
<1>2. \A h, x, y : NamedBefore(h, x, y)' = NamedBefore(h, x, y)
  BY SameProgram
<1>3. \A x : Keeps(x)' = Keeps(x)
  BY <1>1 DEF Keeps
<1> QED
  BY <1>1, <1>2, <1>3 DEF Settled

(* A larger relation.                                                      *)
LEMMA RankedWider ==
    ASSUME NEW k, NEW pr, NEW R, NEW S, Ranked(k, pr, R), R \subseteq S
    PROVE  Ranked(k, pr, S)
BY DEF Ranked, OrderedBy, Follows, Related

(* What is to be printed reaches the terminal.                             *)
LEMMA CommitRanked ==
    ASSUME NEW k, NEW pr, NEW R, Ranked(k, pr, R), NEW r, r = [k EXCEPT !.out = <<>>],
           pr \o k.out \in Seq(Line)
    PROVE  /\ Ranked(r, pr \o k.out, R) /\ r.slots = k.slots /\ r.injected_by = k.injected_by
           /\ Slots(r) = Slots(k)
<1>1. k \in KState
  BY DEF Ranked, Tidy
<1>2. /\ r \in KState /\ r.slots = k.slots /\ r.buf = k.buf /\ r.active = k.active
      /\ r.injected_by = k.injected_by /\ r.out = <<>>
  <2>1. <<>> \in Seq(Line)
    OBVIOUS
  <2> QED
    BY <1>1, <2>1 DEF KState
<1>3. (pr \o k.out) \o <<>> = pr \o k.out
  BY ConcatEmptySeq
<1> QED
  BY <1>2, <1>3 DEF Ranked, Tidy, OrderedBy, Slots

(***************************************************************************)
(* A step that injects nothing: no order of slots and terminal that puts   *)
(* stranded tasks last is disturbed.                                       *)
(***************************************************************************)
Upon(R) == \A x \in Task : \A t \in stranded : <<x, t>> \in R

Keeping(k) ==
    \A pr \in Seq(Line) : \A R : Ranked(ko, pr, R) /\ Upon(R) => Ranked(k, pr, R)

CalmLives(l, stop) ==
    /\ Forward(l) /\ \A q \in Occ : life[q] = "none" => l[q] = "none"
    /\ CanPrint(l, stop) \subseteq CanPrint(life, stopping)

CalmSlots(k) ==
    /\ k.injected_by = ko.injected_by
    /\ \A t \in Slots(k) \ Slots(ko) : t \in stranded /\ \E o \in Occ : o[2] = t /\ life[o] # "none"

Calm ==
    /\ prog' = prog /\ entry' = entry /\ stranded \subseteq stranded'
    /\ CalmLives(life', stopping')
    /\ CalmSlots(ko')
    /\ \A t \in Slots(ko) \ Slots(ko') : t \in CanPrint(life', stopping') => t \in stranded'
    /\ \A p \in Task : entry[p] > 0 => known'[p] = known[p]
    /\ \A R : Ranked(ko, printed, R) /\ Upon(R) => Ranked(ko', printed', R)
    /\ \A R : Ranked(ko, <<>>, R) /\ Upon(R) => OrderedBy(ko', R)

(* The tasks that an entry names.                                          *)
LEMMA EntryParts ==
    ASSUME prog \in Programs, NEW p \in Task
    PROVE  /\ prog.entries[p] \in Seq(Seq(Task)) /\ Len(prog.entries[p]) \in Nat
           /\ DOMAIN prog.entries[p] = 1 .. Len(prog.entries[p])
           /\ Groups(p) = prog.entries[p]
           /\ \A m \in 1 .. Len(prog.entries[p]) :
                 /\ prog.entries[p][m] \in Seq(Task) /\ Len(prog.entries[p][m]) \in Nat
                 /\ DOMAIN prog.entries[p][m] = 1 .. Len(prog.entries[p][m])
                 /\ \A x \in DOMAIN prog.entries[p][m] : prog.entries[p][m][x] \in Task
<1> DEFINE s == prog.entries[p]
<1>1. s \in Seq(Seq(Task)) /\ Len(s) \in Nat /\ DOMAIN s = 1 .. Len(s) /\ Groups(p) = s
  BY ProgramParts, LenProperties, TopAssumption DEF Groups
<1> HIDE DEF s
<1>2. ASSUME NEW m \in 1 .. Len(s)
      PROVE  /\ s[m] \in Seq(Task) /\ Len(s[m]) \in Nat /\ DOMAIN s[m] = 1 .. Len(s[m])
             /\ \A x \in DOMAIN s[m] : s[m][x] \in Task
  <2>1. s[m] \in Seq(Task)
    BY <1>1, ElementOfSeq
  <2> QED
    BY <2>1, LenProperties, ElementOfSeq
<1> QED
  BY <1>1, <1>2 DEF s

(* The lives after a calm step.                                            *)
LEMMA CalmLived ==
    ASSUME IInv, Lived, Calm
    PROVE  Lived'
<1>1. /\ prog' = prog /\ entry' = entry /\ Forward(life') /\ ko'.injected_by = ko.injected_by
      /\ \A q \in Occ : life[q] = "none" => life'[q] = "none"
  BY DEF Calm, CalmLives, CalmSlots
<1>2. Placed'
  <2> SUFFICES ASSUME NEW t \in CanPrint(life', stopping') PROVE t \in Slots(ko') \cup stranded'
    BY DEF Placed
  <2>1. t \in Slots(ko) \cup stranded
    BY DEF Calm, CalmLives, Lived, Placed
  <2> QED
    BY <2>1 DEF Calm
<1>3. Owned'
  <2> SUFFICES ASSUME NEW t \in Slots(ko') PROVE \E o \in Occ : o[2] = t /\ life'[o] # "none"
    BY DEF Owned
  <2>1. \E o \in Occ : o[2] = t /\ life[o] # "none"
    BY DEF Calm, CalmSlots, Lived, Owned
  <2> QED
    BY <1>1, <2>1 DEF Forward
<1>4. \A h, t \in Task : <<h, t>> \in Occ /\ (life[<<h, t>>] = "none" <=> life'[<<h, t>>] = "none")
  <2> SUFFICES ASSUME NEW h \in Task, NEW t \in Task
               PROVE  <<h, t>> \in Occ /\ (life[<<h, t>>] = "none" <=> life'[<<h, t>>] = "none")
    OBVIOUS
  <2>1. <<h, t>> \in Occ
    BY DEF Occ
  <2> QED
    BY <1>1, <2>1 DEF Forward
<1>5. Credited'
  <2>1. ko.injected_by \subseteq Task \X Task
    BY KParts DEF IInv, Sound, Shape
  <2>2. ASSUME NEW e \in ko.injected_by PROVE life'[<<e[2], e[1]>>] # "none"
    BY <1>4, <2>1 DEF Lived, Credited
  <2> QED
    BY <1>1, <2>2 DEF Credited
<1>6. Linked'
  <2>1. \A t : RunsOnce(t)' = RunsOnce(t)
    BY <1>1, SameProgram
  <2>2. stranded \subseteq stranded'
    BY DEF Calm
  <2> QED
    BY <1>1, <1>4, <2>1, <2>2 DEF Lived, Linked
<1>7. ASSUME NEW p \in Task PROVE Entered(p)'
  <2> DEFINE s == prog.entries[p]
             n == entry[p]
  <2>1. prog \in Programs /\ n \in Nat
    BY DEF IInv, Types
  <2>2. Len(s) \in Nat /\ \A m \in 1 .. Len(s) : \A x \in DOMAIN s[m] : s[m][x] \in Task
    BY <2>1, EntryParts
  <2>3. /\ n <= Len(s)
        /\ n > 0 => \E o \in Occ : o[2] = p /\ life[o] \in {"running", "failed", "over"}
        /\ \A m \in 1 .. n : \A x \in DOMAIN s[m] : life[<<p, s[m][x]>>] # "none" \/ s[m][x] \in known[p]
        /\ \A t \in Task : life[<<p, t>>] # "none" => \E m \in 1 .. n : \E x \in DOMAIN s[m] : s[m][x] = t
    BY DEF Lived, Entered
  <2>4. (n > 0 => known'[p] = known[p]) /\ prog' = prog /\ entry' = entry
    BY DEF Calm
  <2> HIDE DEF s, n
  <2>5. n > 0 => \E o \in Occ : o[2] = p /\ life'[o] \in {"running", "failed", "over"}
    BY <1>1, <2>3 DEF Forward
  <2>6. \A m \in 1 .. n : \A x \in DOMAIN s[m] : life'[<<p, s[m][x]>>] # "none" \/ s[m][x] \in known'[p]
    <3> SUFFICES ASSUME NEW m \in 1 .. n, NEW x \in DOMAIN s[m]
                 PROVE  life'[<<p, s[m][x]>>] # "none" \/ s[m][x] \in known'[p]
      OBVIOUS
    <3>1. m \in 1 .. Len(s) /\ n > 0
      BY <2>1, <2>2, <2>3
    <3>2. s[m][x] \in Task
      BY <2>2, <3>1
    <3> QED
      BY <1>4, <2>3, <2>4, <3>1, <3>2
  <2>7. \A t \in Task : life'[<<p, t>>] # "none" => \E m \in 1 .. n : \E x \in DOMAIN s[m] : s[m][x] = t
    BY <1>4, <2>3
  <2> QED
    BY <2>3, <2>4, <2>5, <2>6, <2>7 DEF Entered, s, n
<1> QED
  BY <1>2, <1>3, <1>5, <1>6, <1>7 DEF Lived

(* The slots and their places.                                             *)
LEMMA SlotPlaces ==
    ASSUME NEW k \in KState
    PROVE  /\ k.slots \in Seq(Task) /\ Len(k.slots) \in Nat
           /\ DOMAIN k.slots = 1 .. Len(k.slots) /\ DOMAIN k.slots \subseteq Nat
           /\ \A i \in DOMAIN k.slots : k.slots[i] \in Task /\ k.slots[i] \in Slots(k)
           /\ \A t \in Slots(k) : t \in Task /\ \E i \in DOMAIN k.slots : k.slots[i] = t
           /\ \A t : HasSlot(k, t) <=> t \in Slots(k)
<1>2. k.slots \in Seq(Task) /\ Len(k.slots) \in Nat /\ DOMAIN k.slots = 1 .. Len(k.slots)
  BY KParts, LenProperties
<1>3. \A i \in DOMAIN k.slots : k.slots[i] \in Task /\ k.slots[i] \in Slots(k)
  BY <1>2, InToSet, ElementOfSeq DEF Slots
<1>4. \A t \in Slots(k) : t \in Task /\ \E i \in DOMAIN k.slots : k.slots[i] = t
  BY <1>2, <1>3, InToSet DEF Slots
<1>6. \A t : HasSlot(k, t) <=> t \in Slots(k)
  BY SlotIndex
<1> QED
  BY <1>2, <1>3, <1>4, <1>6

(* What the invariant says of the slots.                                   *)
LEMMA SlotsTyped ==
    ASSUME IInv
    PROVE  /\ ko \in KState /\ IsInjective(ko.slots) /\ ko.out = <<>> /\ prog \in Programs
           /\ printed \in Seq(Line) /\ \A i \in DOMAIN printed : printed[i][1] \in Task
BY PrintedBegan DEF IInv, Types, Sound, Shape

(* The order of two slots, by their places.                                *)
LEMMA BeforePlaces ==
    ASSUME NEW k, IsInjective(k.slots), NEW i \in DOMAIN k.slots, NEW j \in DOMAIN k.slots,
           DOMAIN k.slots \subseteq Nat
    PROVE  /\ Before(k, k.slots[i], k.slots[j]) <=> i < j
           /\ k.slots[i] = k.slots[j] <=> i = j
<1>1. \A x, y \in DOMAIN k.slots : k.slots[x] = k.slots[y] => x = y
  BY DEF IsInjective
<1> QED
  BY <1>1 DEF Before

(* The slots are tidy.                                                     *)
LEMMA OutputTidy ==
    ASSUME IInv
    PROVE  Tidy(ko)
<1>1. ko \in KState /\ ko.buf \in [Task -> Seq(Line)] /\ Buffered(ko.buf, Ctx.ln) /\ Shape(ko)
  BY KParts DEF IInv, Sound, Shape, LinesOK
<1>2. \A t \in Task : IsBlock(ko.buf[t], t)
  BY <1>1, BufferIsBlock
<1> QED
  BY <1>1, <1>2 DEF Tidy, Shape

(* An order of the slots alone.                                            *)
LEMMA SlotsRanked ==
    ASSUME IInv, NEW R, OrderedBy(ko, R)
    PROVE  Ranked(ko, <<>>, R)
<1>1. <<>> \o ko.out = <<>> /\ DOMAIN <<>> = {}
  <2>1. ko.out = <<>>
    BY DEF IInv
  <2>2. <<>> \o <<>> = <<>>
    OBVIOUS
  <2> QED
    BY <2>1, <2>2
<1>2. Follows(Slots(ko), <<>>, R)
  BY <1>1 DEF Follows
<1> QED
  BY <1>1, <1>2, OutputTidy DEF Ranked

(* A calm step leaves the order of the slots, stranded tasks aside.        *)
LEMMA CalmBefore ==
    ASSUME IInv, Calm, NEW x, NEW y, Before(ko', x, y), y \notin stranded
    PROVE  Before(ko, x, y)
<1> DEFINE R == {r \in Task \X Task : Before(ko, r[1], r[2]) \/ r[2] \in stranded}
<1>1. stranded \subseteq Task
  BY DEF IInv, Types
<1>2. Upon(R)
  BY <1>1 DEF Upon
<1>3. OrderedBy(ko, R)
  <2> SUFFICES ASSUME NEW i \in DOMAIN ko.slots, NEW j \in DOMAIN ko.slots, i < j
               PROVE  <<ko.slots[i], ko.slots[j]>> \in R
    BY DEF OrderedBy
  <2>1. ko.slots[i] \in Task /\ ko.slots[j] \in Task
    BY SlotsTyped, SlotPlaces
  <2>2. Before(ko, ko.slots[i], ko.slots[j])
    BY DEF Before
  <2> QED
    BY <2>1, <2>2
<1> HIDE DEF R
<1>4. OrderedBy(ko', R)
  BY <1>2, <1>3, SlotsRanked DEF Calm
<1>5. <<x, y>> \in R
  BY <1>4 DEF OrderedBy, Before
<1> QED
  BY <1>5 DEF R

(* A calm step keeps the order.                                            *)
LEMMA CalmOrder ==
    ASSUME IInv, IInv', OInv, Calm
    PROVE  OInv'
<1>1. prog' = prog /\ stranded \subseteq stranded' /\ stranded \subseteq Task
  BY DEF Calm, IInv, Types
<1>2. \A t : Settled(t)' => Settled(t)
  BY <1>1, SettledBack
<1>3. \A t, u : Ahead(t, u)' = Ahead(t, u)
  BY <1>1, SameProgram
<1>4. \A t : Lineage(t)' = Lineage(t) /\ Parents(t)' = Parents(t) /\ Home(t)' = Home(t)
  BY <1>1, SameProgram
<1>5. /\ ko' \in KState /\ IsInjective(ko'.slots) /\ DOMAIN ko'.slots \subseteq Nat
      /\ \A i \in DOMAIN ko'.slots : ko'.slots[i] \in Task /\ ko'.slots[i] \in Slots(ko')
      /\ \A t \in Slots(ko') : t \in Task /\ \E i \in DOMAIN ko'.slots : ko'.slots[i] = t
  <2>1. ko' \in KState /\ IsInjective(ko'.slots)
    BY DEF IInv, Sound, Shape
  <2> QED
    BY <2>1, SlotPlaces
<1>6. /\ ko \in KState /\ IsInjective(ko.slots) /\ DOMAIN ko.slots \subseteq Nat
      /\ \A i \in DOMAIN ko.slots : ko.slots[i] \in Task /\ ko.slots[i] \in Slots(ko)
      /\ \A t \in Slots(ko) : t \in Task /\ \E i \in DOMAIN ko.slots : ko.slots[i] = t
  BY SlotsTyped, SlotPlaces
<1>7. Lived'
  BY CalmLived DEF OInv
<1>8. Ranked(ko, printed, Defined)'
  <2>1. Defined \subseteq Defined'
    BY <1>2, <1>3 DEF Defined
  <2>2. \A t \in stranded : ~Settled(t)'
    <3> SUFFICES ASSUME NEW t \in stranded, Settled(t)' PROVE FALSE
      OBVIOUS
    <3>1. t \in Lineage(t)
      BY <1>1, LineageParts
    <3>2. Keeps(t)'
      BY <1>4, <3>1 DEF Settled
    <3> QED
      BY <1>1, <3>2 DEF Keeps
  <2>3. Upon(Defined')
    BY <1>1, <2>2 DEF Upon, Defined
  <2>4. Ranked(ko, printed, Defined')
    BY <2>1, RankedWider DEF OInv
  <2>5. Ranked(ko', printed', Defined')
    BY <2>3, <2>4 DEF Calm
  <2> QED
    BY <2>5
<1>9. ASSUME NEW t, Settled(t)', t \in Task PROVE t \notin stranded
  <2>1. t \in Lineage(t)
    BY <1>1, <1>9, LineageParts
  <2>2. Keeps(t)'
    BY <1>4, <1>9, <2>1 DEF Settled
  <2> QED
    BY <1>1, <2>2 DEF Keeps
<1>10. Contiguous'
  <2> SUFFICES ASSUME NEW p \in Task, NEW y \in Task, NEW z \in Task,
                      Before(ko', p, y), Before(ko', y, z), p \in prog.prints \cap Lineage(z),
                      Settled(y)', Settled(z)'
               PROVE  p \in Lineage(y)
    BY <1>1, <1>4 DEF Contiguous, Before
  <2>1. Before(ko, p, y) /\ Before(ko, y, z) /\ Settled(y) /\ Settled(z)
    BY <1>2, <1>9, CalmBefore
  <2> QED
    BY <2>1 DEF OInv, Contiguous
<1>11. Sorted'
  <2> SUFFICES ASSUME NEW p \in prog.prints, NEW a \in Task, NEW b \in Task, Places(p, a, b)'
               PROVE  Before(ko', a, b)
    BY <1>1 DEF Sorted, Before
  <2>1. p \in Task
    BY ProgramParts, SlotsTyped
  <2>2. /\ a \in Slots(ko') /\ b \in Slots(ko') /\ a \notin stranded /\ b \notin stranded
        /\ a \in Slots(ko) /\ b \in Slots(ko)
    <3>1. /\ a \in Slots(ko') /\ b \in Slots(ko') /\ a \notin stranded /\ b \notin stranded
      BY <1>1 DEF Places, Slots
    <3> QED
      BY <3>1 DEF Calm, CalmSlots
  <2>3. Places(p, a, b)
    <3>1. NamedBefore(p, a, b)' = NamedBefore(p, a, b)
      BY <1>1, SameProgram
    <3>2. <<p, b>> \in Occ
      BY <2>1 DEF Occ
    <3>3. life'[<<p, b>>] # "none" => life[<<p, b>>] # "none"
      BY <3>2 DEF Calm, CalmLives
    <3>4. ko'.injected_by = ko.injected_by
      BY DEF Calm, CalmSlots
    <3> QED
      BY <1>1, <1>4, <2>2, <3>1, <3>3, <3>4 DEF Places
  <2>4. Before(ko, a, b)
    BY <2>3 DEF OInv, Sorted
  <2>5. PICK i \in DOMAIN ko'.slots, j \in DOMAIN ko'.slots : ko'.slots[i] = a /\ ko'.slots[j] = b
    BY <1>5, <2>2
  <2>6. ~Before(ko, b, a) /\ a # b
    BY <1>6, <2>4, BeforePlaces DEF Before
  <2>7. ~Before(ko', b, a)
    BY <2>2, <2>6, CalmBefore
  <2>8. i \in Nat /\ j \in Nat /\ i # j /\ ~(j < i)
    BY <1>5, <2>5, <2>6, <2>7 DEF Before
  <2> QED
    BY <2>5, <2>8 DEF Before
<1> QED
  BY <1>7, <1>8, <1>10, <1>11 DEF OInv

(* A step that commits an output which keeps every such order is calm.     *)
LEMMA CalmCommit ==
    ASSUME IInv, NEW k, NEW l, NEW stop, Commit(k, l, stop), prog' = prog, entry' = entry,
           CalmLives(l, stop), CalmSlots(k), Keeping(k), k \in KState,
           \A p \in Task : entry[p] > 0 => known'[p] = known[p]
    PROVE  Calm
<1>1. /\ ko' = [k EXCEPT !.out = <<>>] /\ printed' = printed \o k.out /\ life' = l /\ stopping' = stop
      /\ stranded \subseteq stranded'
  BY DEF Commit
<1>2. k.out \in Seq(Line) /\ printed \in Seq(Line) /\ printed \o k.out \in Seq(Line)
  BY KParts, SlotsTyped, ConcatProperties
<1>3. ko'.slots = k.slots /\ ko'.injected_by = k.injected_by /\ Slots(ko') = Slots(k)
  <2>1. ko'.slots = k.slots /\ ko'.injected_by = k.injected_by
    BY <1>1 DEF KState
  <2> QED
    BY <2>1 DEF Slots
<1>4. CalmLives(life', stopping') /\ CalmSlots(ko')
  BY <1>1, <1>3 DEF CalmSlots
<1>5. \A t \in Slots(ko) \ Slots(ko') : t \in CanPrint(life', stopping') => t \in stranded'
  <2> SUFFICES ASSUME NEW t \in Slots(ko) \ Slots(k), t \in CanPrint(l, stop) PROVE t \in stranded'
    BY <1>1, <1>3
  <2>1. HasSlot(ko, t) /\ ~HasSlot(k, t) /\ t \in Task
    BY SlotsTyped, SlotPlaces
  <2>2. \E o \in Alive(l, t) : l[o] # "waiting" \/ ~stop
    BY DEF CanPrint
  <2> QED
    BY <2>1, <2>2 DEF Commit
<1>6. ASSUME NEW R, Ranked(ko, printed, R), Upon(R) PROVE Ranked(ko', printed', R)
  <2>1. Ranked(k, printed, R)
    BY <1>2, <1>6 DEF Keeping
  <2> QED
    BY <1>1, <1>2, <2>1, CommitRanked
<1>7. ASSUME NEW R, Ranked(ko, <<>>, R), Upon(R) PROVE OrderedBy(ko', R)
  <2>1. <<>> \in Seq(Line)
    OBVIOUS
  <2>2. Ranked(k, <<>>, R)
    BY <1>7, <2>1 DEF Keeping
  <2> QED
    BY <1>3, <2>2 DEF Ranked, OrderedBy
<1> QED
  BY <1>1, <1>4, <1>5, <1>6, <1>7 DEF Calm

(* A step that leaves the output alone, and moves one occurrence.          *)
LEMMA CalmMove ==
    ASSUME IInv, NEW o \in Occ, NEW v, Moves(life[o], v), v = "starting" => ~stopping,
           NEW stop \in BOOLEAN, stopping => stop,
           NEW k, Commit(k, MoveTo(o, v), stop), CalmSlots(k), Keeping(k), k \in KState,
           prog' = prog, entry' = entry, \A p \in Task : entry[p] > 0 => known'[p] = known[p]
    PROVE  Calm
<1>1. life \in [Occ -> Life]
  BY DEF IInv, Types, Life
<1>2. Moved(MoveTo(o, v), o, v, stop)
  BY <1>1, Move
<1>3. CalmLives(MoveTo(o, v), stop)
  BY <1>2 DEF Moved, CalmLives
<1> QED
  BY <1>3, CalmCommit

(* The output as it is.                                                    *)
LEMMA KeepingSame ==
    ASSUME IInv
    PROVE  CalmSlots(ko) /\ Keeping(ko) /\ ko \in KState
BY SlotsTyped DEF CalmSlots, Keeping

(* A retired slot, or several.                                             *)
LEMMA KeepingRetired ==
    ASSUME IInv, NEW k, \A pr \in Seq(Line) : \A R : Ranked(ko, pr, R) => KeepsRank(ko, k, pr, R)
    PROVE  CalmSlots(k) /\ Keeping(k) /\ k \in KState
<1>1. Keeping(k)
  BY DEF Keeping, KeepsRank
<1> DEFINE R == Task \X Task
<1>2. OrderedBy(ko, R)
  BY SlotsTyped, SlotPlaces DEF OrderedBy
<1>3. Ranked(ko, <<>>, R) /\ <<>> \in Seq(Line)
  BY <1>2, SlotsRanked
<1> HIDE DEF R
<1>4. KeepsRank(ko, k, <<>>, R)
  BY <1>3
<1>5. CalmSlots(k) /\ k \in KState
  BY <1>4 DEF KeepsRank, CalmSlots, Ranked, Tidy
<1> QED
  BY <1>1, <1>5

(* mark_executed.                                                          *)
LEMMA AdmitCalm ==
    ASSUME IInv, NEW o \in Occ, Admit(o)
    PROVE  Calm
<1>1. /\ life[o] = "waiting" /\ ~stopping /\ life' = MoveTo(o, "starting")
      /\ UNCHANGED <<prog, ko, printed, entry, known, lines, stopping, stranded>>
  BY DEF Admit, MoveTo
<1>2. Commit(ko, MoveTo(o, "starting"), stopping) /\ stopping \in BOOLEAN
  BY <1>1, QuietCommit DEF IInv, Types
<1>3. Moves(life[o], "starting")
  BY <1>1 DEF Moves
<1> QED
  BY <1>1, <1>2, <1>3, KeepingSame, CalmMove

(* A job begins.                                                           *)
LEMMA StartCalm ==
    ASSUME IInv, Lived, NEW o \in Occ, Start(o)
    PROVE  Calm
<1>1. /\ life[o] = "starting" /\ life' = MoveTo(o, "running")
      /\ known' = [known EXCEPT ![o[2]] = {t \in Task : life[<<o[1], t>>] = "over"} \cup
                                          (IF o[1] = Top THEN {} ELSE known[o[1]])]
      /\ UNCHANGED <<prog, ko, printed, entry, lines, stopping, stranded>>
  BY DEF Start, MoveTo
<1>2. Commit(ko, MoveTo(o, "running"), stopping) /\ stopping \in BOOLEAN
  BY <1>1, QuietCommit DEF IInv, Types
<1>3. Moves(life[o], "running") /\ known \in [Task -> SUBSET Task] /\ o[2] \in Task
  BY <1>1, OccParts DEF Moves, IInv, Types
<1>4. ~(entry[o[2]] > 0)
  <2> SUFFICES ASSUME entry[o[2]] > 0 PROVE FALSE
    OBVIOUS
  <2>1. prog \in Programs /\ entry[o[2]] \in Nat /\ Origins
    BY <1>3 DEF IInv, Types, LivesOK
  <2>2. PICK q \in Occ : q[2] = o[2] /\ life[q] \in {"running", "failed", "over"}
    BY <1>3 DEF Lived, Entered
  <2>3. prog.entries[o[2]] # <<>>
    <3>1. Len(prog.entries[o[2]]) > 0
      BY <1>3, <2>1, EntryParts DEF Lived, Entered
    <3> QED
      BY <3>1
  <2>4. q = o
    BY <1>1, <2>1, <2>2, <2>3, OneOccurrence
  <2> QED
    BY <1>1, <2>2, <2>4
<1>5. \A p \in Task : entry[p] > 0 => known'[p] = known[p]
  BY <1>1, <1>3, <1>4
<1> QED
  BY <1>1, <1>2, <1>3, <1>5, KeepingSame, CalmMove

(* An occurrence that its parent abandoned is forgotten.                   *)
LEMMA ForgetCalm ==
    ASSUME IInv, NEW o \in Occ, Forget(o)
    PROVE  Calm
<1>1. /\ life[o] = "waiting" /\ life' = MoveTo(o, "over")
      /\ UNCHANGED <<prog, ko, printed, entry, known, lines, stopping, stranded>>
  BY DEF Forget, MoveTo
<1>2. Commit(ko, MoveTo(o, "over"), stopping) /\ stopping \in BOOLEAN
  BY <1>1, QuietCommit DEF IInv, Types
<1>3. Moves(life[o], "over")
  BY <1>1 DEF Moves
<1> QED
  BY <1>1, <1>2, <1>3, KeepingSame, CalmMove

(* An occurrence ends.                                                     *)
LEMMA EndCalm ==
    ASSUME IInv, NEW o \in Occ, Moves(life[o], "over"),
           Commit(OnTaskFinished(ko, o[2]), MoveTo(o, "over"), stopping),
           UNCHANGED <<prog, entry, known, lines>>
    PROVE  Calm
<1> DEFINE k == OnTaskFinished(ko, o[2])
<1>1. \A pr \in Seq(Line) : \A R : Ranked(ko, pr, R) => KeepsRank(ko, k, pr, R)
  BY OccParts, FinishedRanked
<1>2. Commit(k, MoveTo(o, "over"), stopping) /\ stopping \in BOOLEAN
  BY DEF IInv, Types
<1> HIDE DEF k
<1>3. CalmSlots(k) /\ Keeping(k) /\ k \in KState
  BY <1>1, KeepingRetired
<1> QED
  BY <1>2, <1>3, CalmMove

(* A stop seen while a task waits for what it injected.                    *)
LEMMA AbandonCalm ==
    ASSUME IInv, NEW o \in Occ, Abandon(o)
    PROVE  Calm
<1> DEFINE p == o[2]
           S == {t \in Task : life[<<p, t>>] \in {"waiting", "starting"}}
           tasks == Among(Names(p), S)
           k == RetireUnusedSlots(ko, tasks)
<1>1. /\ life[o] = "running" /\ stopping /\ UNCHANGED <<prog, entry, known, lines>>
      /\ Commit(k, MoveTo(o, "failed"), TRUE)
  BY DEF Abandon, MoveTo
<1>2. tasks \in Seq(Task)
  <2>1. Names(p) \in Seq(Task)
    BY OccParts, SlotsTyped, NamesOf
  <2> HIDE DEF S
  <2> QED
    BY <2>1, AmongProperties
<1> HIDE DEF tasks
<1>3. \A pr \in Seq(Line) : \A R : Ranked(ko, pr, R) => KeepsRank(ko, k, pr, R)
  BY <1>2, UnusedRanked
<1> HIDE DEF k
<1>4. CalmSlots(k) /\ Keeping(k) /\ k \in KState
  BY <1>3, KeepingRetired
<1>5. Moves(life[o], "failed")
  BY <1>1 DEF Moves
<1> QED
  BY <1>1, <1>4, <1>5, CalmMove

(* A line of a running task: it has a slot, or was stranded.               *)
LEMMA KeepingLine ==
    ASSUME IInv, Lived, NEW o \in Occ, life[o] = "running",
           NEW k, k = OnLine(ko, o[2], <<o[2], lines[o[2]] + 1>>)
    PROVE  CalmSlots(k) /\ Keeping(k) /\ k \in KState
<1> DEFINE t == o[2]
           x == <<t, lines[t] + 1>>
<1>1. t \in Task /\ x \in Line /\ x[1] = t /\ ko.done = FALSE
  <2>1. t \in Task /\ lines \in [Task -> Nat]
    BY OccParts, LinesAssumption DEF IInv, Types
  <2>2. ko.done = FALSE
    BY NotDone
  <2>3. lines[t] + 1 \in Nat
    BY <2>1
  <2> QED
    BY <2>1, <2>2, <2>3 DEF Line
<1>2. t \in Slots(ko) \cup stranded
  <2>1. o \in Alive(life, t)
    BY DEF Alive
  <2>2. t \in CanPrint(life, stopping)
    BY <1>1, <2>1 DEF CanPrint
  <2> QED
    BY <2>2 DEF Lived, Placed
<1>3. k = OnLine(ko, t, x)
  OBVIOUS
<1> HIDE DEF t, x
<1>4. ASSUME NEW R, Upon(R) PROVE Accepts(ko, t, R)
  <2>1. HasSlot(ko, t) \/ t \in stranded
    BY <1>2, SlotsTyped, SlotPlaces
  <2> QED
    BY <1>4, <2>1 DEF Accepts, Upon
<1>5. ASSUME NEW pr \in Seq(Line), NEW R, Ranked(ko, pr, R), Upon(R)
      PROVE  AddsRank(ko, k, pr, R, t)
  <2>1. Accepts(ko, t, R)
    BY <1>4, <1>5
  <2> QED
    BY <1>1, <1>3, <1>5, <2>1, LineRanked
<1>6. Keeping(k)
  BY <1>5 DEF Keeping, AddsRank
<1>7. k.injected_by = ko.injected_by /\ Slots(k) = Slots(ko) \cup {t} /\ k \in KState
  <2> DEFINE R == Task \X Task
  <2>1. OrderedBy(ko, R)
    BY SlotsTyped, SlotPlaces DEF OrderedBy
  <2>2. Ranked(ko, <<>>, R) /\ <<>> \in Seq(Line)
    BY <2>1, SlotsRanked
  <2>3. Upon(R)
    BY DEF Upon, IInv, Types
  <2> HIDE DEF R
  <2>4. Ranked(k, <<>>, R) /\ k.injected_by = ko.injected_by /\ Slots(k) = Slots(ko) \cup {t}
    BY <1>5, <2>2, <2>3 DEF AddsRank
  <2> QED
    BY <2>4 DEF Ranked, Tidy
<1>8. CalmSlots(k)
  BY <1>2, <1>7 DEF CalmSlots, t
<1> QED
  BY <1>6, <1>7, <1>8

(* A line of the task's own command.                                       *)
LEMMA PrintLineCalm ==
    ASSUME IInv, Lived, NEW o \in Occ, PrintLine(o)
    PROVE  Calm
<1> DEFINE k == OnLine(ko, o[2], <<o[2], lines[o[2]] + 1>>)
<1>1. life[o] = "running" /\ Commit(k, life, stopping) /\ UNCHANGED <<prog, entry, known>>
  BY DEF PrintLine, Free
<1>2. CalmSlots(k) /\ Keeping(k) /\ k \in KState
  BY <1>1, KeepingLine
<1>3. CalmLives(life, stopping)
  BY DEF CalmLives, Forward
<1> HIDE DEF k
<1> QED
  BY <1>1, <1>2, <1>3, CalmCommit

(* A failure.                                                              *)
LEMMA FailCalm ==
    ASSUME IInv, Lived, NEW o \in Occ, Fail(o)
    PROVE  Calm
<1> DEFINE k == OnLine(ko, o[2], <<o[2], lines[o[2]] + 1>>)
           l == MoveTo(o, "failed")
<1>1. /\ life[o] = "running" /\ UNCHANGED <<prog, entry, known>>
      /\ Commit(ko, l, TRUE) \/ Commit(k, l, TRUE)
  BY DEF Fail, Free, MoveTo
<1>2. CalmSlots(k) /\ Keeping(k) /\ k \in KState
  BY <1>1, KeepingLine
<1>3. Moves(life[o], "failed")
  BY <1>1 DEF Moves
<1> HIDE DEF k
<1>4. CASE Commit(ko, l, TRUE)
  BY <1>1, <1>3, <1>4, KeepingSame, CalmMove
<1>5. CASE Commit(k, l, TRUE)
  BY <1>1, <1>2, <1>3, <1>5, CalmMove
<1> QED
  BY <1>1, <1>4, <1>5

(* display_keep_order_output.                                              *)
LEMMA DisplayCalm ==
    ASSUME IInv, Display
    PROVE  Calm
<1> DEFINE f == FlushFinished([ko EXCEPT !.active = None])
           g == RetireAll(f, f.slots)
           k == [g EXCEPT !.done = TRUE]
<1>1. /\ \A o \in Occ : life[o] \in {"none", "over"}
      /\ Commit(k, life, stopping) /\ UNCHANGED <<prog, entry, known, lines>>
  BY DEF Display, FlushAll
<1>2. ko.slots = <<>> /\ ko.active = None /\ ko \in KState
  BY <1>1, NothingLeft, SlotsTyped
<1>3. [ko EXCEPT !.active = None] = ko
  BY <1>2 DEF KState
<1>4. f = FlushFinished(ko)
  BY <1>3
<1> HIDE DEF f
<1>5. ASSUME NEW pr \in Seq(Line), NEW R, Ranked(ko, pr, R) PROVE KeepsRank(ko, k, pr, R)
  <2>1. KeepsRank(ko, f, pr, R)
    BY <1>2, <1>4, <1>5, FlushRanked
  <2>2. f \in KState /\ Slots(f) \subseteq Slots(ko) /\ Slots(ko) = {}
    <3>1. Slots(ko) = {}
      BY <1>2 DEF Slots, ToSet
    <3> QED
      BY <2>1, <3>1 DEF KeepsRank, Ranked, Tidy
  <2>3. f.slots = <<>>
    BY <2>2, KParts, FirstSlot DEF Slots
  <2>4. g = f
    <3>1. DOMAIN f.slots = 1 .. 0 /\ 0 \in Nat
      BY <2>3
    <3>2. PICK h : Retired(h, f, f.slots, 0) /\ g = h[0]
      BY <3>1, FoldRetire
    <3> QED
      BY <3>2 DEF Retired
  <2>5. /\ k \in KState /\ k.slots = f.slots /\ k.buf = f.buf /\ k.active = f.active
        /\ k.out = f.out /\ k.injected_by = f.injected_by
    BY <2>2, <2>4 DEF KState
  <2> HIDE DEF k
  <2>6. Ranked(k, pr, R)
    BY <2>1, <2>5, RankedSame DEF KeepsRank
  <2> QED
    BY <2>1, <2>5, <2>6 DEF KeepsRank, Slots
<1> HIDE DEF k
<1>6. CalmSlots(k) /\ Keeping(k) /\ k \in KState
  BY <1>5, KeepingRetired
<1>7. CalmLives(life, stopping)
  BY DEF CalmLives, Forward
<1> QED
  BY <1>1, <1>6, <1>7, CalmCommit

-----------------------------------------------------------------------------
(***************************************************************************)
(* The tasks of a run entry get their slots. The argument is about the     *)
(* order of the slots, Before, and about the slots in front of the place   *)
(* at which the next one is inserted, InFront.                               *)
(***************************************************************************)
InFront(a) == {a.k.slots[i] : i \in 1 .. a.idx - 1}

WellPlaced(a) == a.k \in KState /\ IsInjective(a.k.slots) /\ a.idx \in 1 .. Len(a.k.slots) + 1

(* The slots are in a line.                                                *)
LEMMA BeforeLine ==
    ASSUME NEW k \in KState, IsInjective(k.slots)
    PROVE  /\ \A x, y : Before(k, x, y) => x \in Slots(k) /\ y \in Slots(k) /\ x # y /\ ~Before(k, y, x)
           /\ \A x, y \in Slots(k) : x = y \/ Before(k, x, y) \/ Before(k, y, x)
           /\ \A x, y, z : Before(k, x, y) /\ Before(k, y, z) => Before(k, x, z)
<1> DEFINE s == k.slots
           n == Len(s)
<1>1. /\ n \in Nat /\ DOMAIN s = 1 .. n /\ \A i \in 1 .. n : s[i] \in Slots(k)
      /\ \A t \in Slots(k) : \E i \in 1 .. n : s[i] = t
  BY SlotPlaces
<1>2. \A i, j \in 1 .. n : s[i] = s[j] => i = j
  BY <1>1 DEF IsInjective
<1>3. \A x, y : Before(k, x, y) <=> \E i, j \in 1 .. n : i < j /\ s[i] = x /\ s[j] = y
  BY <1>1 DEF Before
<1> HIDE DEF s, n
<1>4. \A x, y : Before(k, x, y) => x \in Slots(k) /\ y \in Slots(k) /\ x # y /\ ~Before(k, y, x)
  <2> SUFFICES ASSUME NEW i \in 1 .. n, NEW j \in 1 .. n, i < j
               PROVE  /\ s[i] \in Slots(k) /\ s[j] \in Slots(k) /\ s[i] # s[j]
                      /\ ~Before(k, s[j], s[i])
    BY <1>3
  <2>1. s[i] \in Slots(k) /\ s[j] \in Slots(k) /\ s[i] # s[j]
    BY <1>1, <1>2
  <2>2. ASSUME NEW c \in 1 .. n, NEW d \in 1 .. n, c < d, s[c] = s[j], s[d] = s[i] PROVE FALSE
    <3>1. c = j /\ d = i
      BY <1>2, <2>2
    <3> QED
      BY <1>1, <2>2, <3>1
  <2> QED
    BY <1>3, <2>1, <2>2
<1>5. \A x, y \in Slots(k) : x = y \/ Before(k, x, y) \/ Before(k, y, x)
  <2> SUFFICES ASSUME NEW i \in 1 .. n, NEW j \in 1 .. n
               PROVE  s[i] = s[j] \/ Before(k, s[i], s[j]) \/ Before(k, s[j], s[i])
    BY <1>1
  <2>1. i = j \/ i < j \/ j < i
    BY <1>1
  <2> QED
    BY <1>3, <2>1
<1>6. \A x, y, z : Before(k, x, y) /\ Before(k, y, z) => Before(k, x, z)
  <2> SUFFICES ASSUME NEW i \in 1 .. n, NEW j \in 1 .. n, NEW c \in 1 .. n, NEW d \in 1 .. n,
                      i < j, c < d, s[j] = s[c]
               PROVE  Before(k, s[i], s[d])
    BY <1>3, SMTT(30)
  <2>1. j = c
    BY <1>2
  <2>2. i < d
    BY <1>1, <2>1
  <2> QED
    BY <1>3, <2>2
<1> QED
  BY <1>4, <1>5, <1>6

(* What is in front of a place.                                            *)
LEMMA FrontParts ==
    ASSUME NEW a, WellPlaced(a)
    PROVE  /\ InFront(a) \subseteq Slots(a.k)
           /\ \A x \in InFront(a) : \A y \in Slots(a.k) \ InFront(a) : Before(a.k, x, y)
           /\ \A i \in 1 .. Len(a.k.slots) : a.k.slots[i] \in InFront(a) <=> i < a.idx
<1> DEFINE k == a.k
           s == k.slots
           n == Len(s)
           d == a.idx
<1>1. /\ n \in Nat /\ DOMAIN s = 1 .. n /\ \A i \in 1 .. n : s[i] \in Slots(k)
      /\ \A t \in Slots(k) : \E i \in 1 .. n : s[i] = t
  BY SlotPlaces DEF WellPlaced
<1>2. (\A i, j \in 1 .. n : s[i] = s[j] => i = j) /\ d \in 1 .. n + 1
  BY <1>1 DEF IsInjective, WellPlaced
<1>3. \A x, y : Before(k, x, y) <=> \E i, j \in 1 .. n : i < j /\ s[i] = x /\ s[j] = y
  BY <1>1 DEF Before
<1>4. InFront(a) = {s[i] : i \in 1 .. d - 1}
  BY DEF InFront
<1> HIDE DEF s, n, d, k
<1>5. \A i \in 1 .. n : s[i] \in InFront(a) <=> i < d
  <2> SUFFICES ASSUME NEW i \in 1 .. n PROVE s[i] \in InFront(a) <=> i < d
    OBVIOUS
  <2>1. ASSUME i < d PROVE s[i] \in InFront(a)
    <3>1. i \in 1 .. d - 1
      BY <1>1, <1>2, <2>1
    <3> QED
      BY <1>4, <3>1
  <2>2. ASSUME s[i] \in InFront(a) PROVE i < d
    <3>1. PICK j \in 1 .. d - 1 : s[i] = s[j]
      BY <1>4, <2>2
    <3>2. j \in 1 .. n /\ j < d
      BY <1>1, <1>2
    <3> QED
      BY <1>2, <3>1, <3>2
  <2> QED
    BY <2>1, <2>2
<1>6. InFront(a) \subseteq Slots(k)
  <2> SUFFICES ASSUME NEW i \in 1 .. d - 1 PROVE s[i] \in Slots(k)
    BY <1>4
  <2>1. i \in 1 .. n
    BY <1>1, <1>2
  <2> QED
    BY <1>1, <2>1
<1>7. \A x \in InFront(a) : \A y \in Slots(k) \ InFront(a) : Before(k, x, y)
  <2> SUFFICES ASSUME NEW i \in 1 .. n, NEW j \in 1 .. n, s[i] \in InFront(a), s[j] \notin InFront(a)
               PROVE  Before(k, s[i], s[j])
    BY <1>1, <1>6
  <2>1. i < d /\ ~(j < d)
    BY <1>5
  <2>2. i < j
    BY <1>1, <1>2, <2>1
  <2> QED
    BY <1>3, <2>2
<1> QED
  BY <1>5, <1>6, <1>7 DEF s, n, d, k

(* What stays when the next task of a run entry gets its slot.             *)
Stays(k, r) ==
    /\ r.buf = k.buf /\ r.active = k.active /\ r.finished = k.finished
    /\ r.done = k.done /\ r.out = k.out

(* The task has a slot, and keeps it.                                      *)
LEMMA InsertKept ==
    ASSUME NEW a, WellPlaced(a), NEW parent \in Task, NEW after, NEW t \in Slots(a.k),
           NEW b, b = InsertInjected(a, parent, after, t)
    PROVE  /\ WellPlaced(b) /\ Stays(a.k, b.k) /\ b.k.slots = a.k.slots
           /\ a.k.injected_by \subseteq b.k.injected_by
           /\ b.k.injected_by \subseteq a.k.injected_by \cup {<<t, parent>>}
           /\ InFront(a) \subseteq InFront(b)
           /\ after => t \in InFront(b)
           /\ ~after \/ t \in InFront(a) => InFront(b) = InFront(a)
<1> DEFINE k == a.k
           x == a.idx
           n == Len(k.slots)
           j == IndexOf(k, t)
<1>1. /\ k \in KState /\ IsInjective(k.slots) /\ n \in Nat /\ x \in 1 .. n + 1
      /\ k.injected_by \subseteq Task \X Task /\ t \in Task
      /\ HasSlot(k, t) /\ j \in 1 .. n /\ k.slots[j] = t
  <2>1. k \in KState /\ IsInjective(k.slots) /\ x \in 1 .. n + 1
    BY DEF WellPlaced
  <2> QED
    BY <2>1, KParts, SlotPlaces, SlotIndex
<1>2. /\ b.k = IF DescendsFrom(k, parent, t) THEN k
               ELSE [k EXCEPT !.injected_by = @ \cup {<<t, parent>>}]
      /\ b.idx = IF after /\ j >= x THEN j + 1 ELSE x
  BY <1>1 DEF InsertInjected
<1>3. /\ b.k \in KState /\ b.k.slots = k.slots /\ Stays(k, b.k)
      /\ k.injected_by \subseteq b.k.injected_by
      /\ b.k.injected_by \subseteq k.injected_by \cup {<<t, parent>>}
  <2> DEFINE inj == k.injected_by \cup {<<t, parent>>}
  <2>1. b.k = k \/ b.k = [k EXCEPT !.injected_by = inj]
    BY <1>1, <1>2 DEF KState
  <2>2. inj \in SUBSET (Task \X Task)
    BY <1>1
  <2>3. k.injected_by \subseteq inj
    OBVIOUS
  <2> HIDE DEF inj, k
  <2>4. CASE b.k = k
    BY <1>1, <2>4 DEF Stays
  <2>5. CASE b.k = [k EXCEPT !.injected_by = inj]
    <3>1. /\ b.k \in KState /\ b.k.slots = k.slots /\ b.k.buf = k.buf /\ b.k.active = k.active
          /\ b.k.finished = k.finished /\ b.k.done = k.done /\ b.k.out = k.out /\ b.k.injected_by = inj
      BY <1>1, <2>2, <2>5 DEF KState
    <3> QED
      BY <2>3, <3>1 DEF Stays, inj
  <2> QED
    BY <2>1, <2>4, <2>5
<1> HIDE DEF j, x, n, k
<1>4. b.idx \in 1 .. n + 1 /\ b.idx >= x /\ (after => j < b.idx) /\ (~after \/ j < x => b.idx = x)
  BY <1>1, <1>2
<1>5. WellPlaced(b)
  BY <1>1, <1>3, <1>4 DEF WellPlaced, n
<1>6. /\ \A i \in 1 .. n : k.slots[i] \in InFront(a) <=> i < x
      /\ \A i \in 1 .. n : k.slots[i] \in InFront(b) <=> i < b.idx
      /\ InFront(a) \subseteq Slots(k) /\ InFront(b) \subseteq Slots(k)
      /\ \A u \in Slots(k) : \E i \in 1 .. n : k.slots[i] = u
  <2>1. /\ \A i \in 1 .. n : k.slots[i] \in InFront(a) <=> i < x
        /\ InFront(a) \subseteq Slots(k)
    BY FrontParts DEF n, k, x
  <2>2. /\ \A i \in 1 .. n : k.slots[i] \in InFront(b) <=> i < b.idx
        /\ InFront(b) \subseteq Slots(k)
    <3>1. Slots(b.k) = Slots(k) /\ Len(b.k.slots) = n
      BY <1>3 DEF Slots, n
    <3>2. /\ \A i \in 1 .. Len(b.k.slots) : b.k.slots[i] \in InFront(b) <=> i < b.idx
          /\ InFront(b) \subseteq Slots(b.k)
      BY <1>5, FrontParts
    <3> QED
      BY <1>3, <3>1, <3>2
  <2> QED
    BY <1>1, <2>1, <2>2, SlotPlaces DEF n
<1>7. InFront(a) \subseteq InFront(b) /\ (after => t \in InFront(b)) /\ (~after \/ t \in InFront(a) => InFront(b) = InFront(a))
  <2>1. InFront(a) \subseteq InFront(b)
    <3> SUFFICES ASSUME NEW i \in 1 .. n, i < x PROVE k.slots[i] \in InFront(b)
      BY <1>6
    <3>1. i < b.idx
      BY <1>1, <1>4
    <3> QED
      BY <1>6, <3>1
  <2>2. after => t \in InFront(b)
    BY <1>1, <1>4, <1>6
  <2>3. ASSUME ~after \/ t \in InFront(a) PROVE InFront(b) \subseteq InFront(a)
    <3>1. b.idx = x
      BY <1>1, <1>4, <1>6, <2>3
    <3> QED
      BY <1>6, <3>1
  <2> QED
    BY <2>1, <2>2, <2>3
<1> QED
  BY <1>3, <1>5, <1>7 DEF k

(* The task has none, and gets one at the place.                           *)
LEMMA InsertNew ==
    ASSUME NEW a, WellPlaced(a), NEW parent \in Task, NEW after, NEW t \in Task, t \notin Slots(a.k),
           NEW b, b = InsertInjected(a, parent, after, t)
    PROVE  /\ WellPlaced(b) /\ Stays(a.k, b.k) /\ Slots(b.k) = Slots(a.k) \cup {t}
           /\ b.k.injected_by = {e \in a.k.injected_by : e[1] # t} \cup {<<t, parent>>}
           /\ InFront(b) = InFront(a) \cup {t}
           /\ \A x, y : Before(b.k, x, y) <=>
                 \/ Before(a.k, x, y)
                 \/ x \in InFront(a) /\ y = t
                 \/ x = t /\ y \in Slots(a.k) \ InFront(a)
<1> DEFINE k == a.k
           d == a.idx
           s == k.slots
           n == Len(s)
           q == InsertAt(s, d, t)
           inj == {e \in k.injected_by : e[1] # t} \cup {<<t, parent>>}
           r == b.k
<1>1. /\ k \in KState /\ IsInjective(s) /\ n \in Nat /\ d \in 1 .. n + 1 /\ s \in Seq(Task)
      /\ k.injected_by \subseteq Task \X Task
      /\ ~HasSlot(k, t) /\ DOMAIN s = 1 .. n /\ t \notin ToSet(s)
      /\ (\A i \in 1 .. n : s[i] \in Slots(k)) /\ (\A u \in Slots(k) : \E i \in 1 .. n : s[i] = u)
  <2>1. k \in KState /\ IsInjective(k.slots) /\ d \in 1 .. n + 1
    BY DEF WellPlaced
  <2>2. /\ n \in Nat /\ s \in Seq(Task) /\ DOMAIN s = 1 .. n
        /\ (\A i \in 1 .. n : s[i] \in Slots(k)) /\ (\A u \in Slots(k) : \E i \in 1 .. n : s[i] = u)
    BY <2>1, SlotPlaces
  <2>3. ~HasSlot(k, t) /\ t \notin ToSet(s)
    BY <2>1, SlotPlaces DEF Slots
  <2>4. k.injected_by \subseteq Task \X Task
    BY <2>1, KParts
  <2> QED
    BY <2>1, <2>2, <2>3, <2>4
<1>2. r = [k EXCEPT !.slots = q, !.injected_by = inj] /\ b.idx = d + 1
  BY <1>1 DEF InsertInjected, KState
<1>3. /\ q \in Seq(Task) /\ Len(q) = n + 1
      /\ \A j \in 1 .. n + 1 : q[j] = IF j < d THEN s[j] ELSE IF j = d THEN t ELSE s[j - 1]
      /\ IsInjective(q) /\ ToSet(q) = ToSet(s) \cup {t}
  <2> HIDE DEF d, s
  <2> QED
    BY <1>1, InsertAtProperties
<1>4. inj \in SUBSET (Task \X Task)
  BY <1>1
<1> HIDE DEF q, inj
<1>5. /\ r \in KState /\ r.slots = q /\ r.buf = k.buf /\ r.active = k.active /\ r.finished = k.finished
      /\ r.done = k.done /\ r.out = k.out /\ r.injected_by = inj
  BY <1>1, <1>2, <1>3, <1>4 DEF KState
<1>6. Slots(r) = Slots(k) \cup {t}
  BY <1>3, <1>5 DEF Slots
<1>7. d + 1 \in 1 .. (n + 1) + 1
  <2> HIDE DEF d, n
  <2> QED
    BY <1>1
<1>8. WellPlaced(b)
  BY <1>2, <1>3, <1>5, <1>7 DEF WellPlaced
<1>9. \A x, y : Before(k, x, y) <=> \E i, j \in 1 .. n : i < j /\ s[i] = x /\ s[j] = y
  BY <1>1 DEF Before
<1>10. \A x, y : Before(r, x, y) <=> \E i, j \in 1 .. n + 1 : i < j /\ q[i] = x /\ q[j] = y
  <2>1. DOMAIN r.slots = 1 .. n + 1
    BY <1>3, <1>5, LenProperties
  <2> QED
    BY <1>5, <2>1 DEF Before
<1>11. /\ \A i \in 1 .. n : s[i] \in InFront(a) <=> i < d
       /\ InFront(a) \subseteq Slots(k)
  BY FrontParts
<1>12. /\ \A i \in 1 .. n + 1 : q[i] \in InFront(b) <=> i < d + 1
       /\ InFront(b) \subseteq Slots(r)
  <2>1. /\ \A i \in 1 .. Len(b.k.slots) : b.k.slots[i] \in InFront(b) <=> i < b.idx
        /\ InFront(b) \subseteq Slots(b.k)
    BY <1>8, FrontParts
  <2>2. b.k.slots = q /\ Len(q) = n + 1 /\ b.idx = d + 1
    BY <1>2, <1>3, <1>5
  <2> QED
    BY <2>1, <2>2
<1>13. Stays(k, r)
  BY <1>5 DEF Stays
<1> HIDE DEF r, k, d, s, n
<1>14. /\ \A i \in 1 .. n : i < d => i \in 1 .. n + 1 /\ q[i] = s[i]
       /\ \A i \in 1 .. n : ~(i < d) => i + 1 \in 1 .. n + 1 /\ q[i + 1] = s[i]
       /\ d \in 1 .. n + 1 /\ q[d] = t
       /\ \A i \in 1 .. n + 1 : i = d \/ (i < d /\ i \in 1 .. n) \/ (i > d /\ i - 1 \in 1 .. n /\ q[i] = s[i - 1])
  <2>1. \A i \in 1 .. n : i < d => i \in 1 .. n + 1 /\ q[i] = s[i]
    BY <1>1, <1>3
  <2>2. ASSUME NEW i \in 1 .. n, ~(i < d) PROVE i + 1 \in 1 .. n + 1 /\ q[i + 1] = s[i]
    <3>1. i + 1 \in 1 .. n + 1 /\ ~(i + 1 < d) /\ i + 1 # d /\ (i + 1) - 1 = i
      BY <1>1, <2>2
    <3> QED
      BY <1>3, <3>1
  <2>3. ASSUME NEW i \in 1 .. n + 1
        PROVE  i = d \/ (i < d /\ i \in 1 .. n) \/ (i > d /\ i - 1 \in 1 .. n /\ q[i] = s[i - 1])
    BY <1>1, <1>3
  <2> QED
    BY <1>1, <1>3, <2>1, <2>2, <2>3
<1>15. InFront(b) = InFront(a) \cup {t}
  <2>1. t \in InFront(b)
    BY <1>1, <1>12, <1>14
  <2>2. ASSUME NEW x \in InFront(a) PROVE x \in InFront(b)
    <3>1. PICK i \in 1 .. n : s[i] = x
      BY <1>1, <1>11
    <3>2. i < d
      BY <1>11, <3>1
    <3>3. q[i] = x /\ i \in 1 .. n + 1 /\ i < d + 1
      BY <1>1, <1>14, <3>1, <3>2
    <3> QED
      BY <1>12, <3>3
  <2>3. ASSUME NEW x \in InFront(b), x # t PROVE x \in InFront(a)
    <3>1. PICK i \in 1 .. n : s[i] = x
      BY <1>1, <1>6, <1>12, <2>3
    <3>2. CASE i < d
      BY <1>11, <3>1, <3>2
    <3>3. CASE ~(i < d)
      <4>1. q[i + 1] = x /\ i + 1 \in 1 .. n + 1 /\ ~(i + 1 < d + 1)
        BY <1>1, <1>14, <3>1, <3>3
      <4> QED
        BY <1>12, <2>3, <4>1
    <3> QED
      BY <3>2, <3>3
  <2> QED
    BY <2>1, <2>2, <2>3
<1>16. ASSUME NEW x, NEW y, Before(k, x, y) PROVE Before(r, x, y)
  <2>1. PICK i \in 1 .. n, j \in 1 .. n : i < j /\ s[i] = x /\ s[j] = y
    BY <1>9, <1>16
  <2>2. CASE j < d
    <3>1. i < d
      BY <1>1, <2>1, <2>2
    <3> QED
      BY <1>10, <1>14, <2>1, <2>2, <3>1
  <2>3. CASE ~(j < d) /\ i < d
    <3>1. i < j + 1
      BY <1>1, <2>1
    <3> QED
      BY <1>10, <1>14, <2>1, <2>3, <3>1
  <2>4. CASE ~(j < d) /\ ~(i < d)
    <3>1. i + 1 < j + 1
      BY <1>1, <2>1
    <3> QED
      BY <1>10, <1>14, <2>1, <2>4, <3>1
  <2> QED
    BY <2>2, <2>3, <2>4
<1>17. ASSUME NEW x \in InFront(a) PROVE Before(r, x, t)
  <2>1. PICK i \in 1 .. n : s[i] = x
    BY <1>1, <1>11
  <2>2. i < d
    BY <1>11, <2>1
  <2> QED
    BY <1>10, <1>14, <2>1, <2>2
<1>18. ASSUME NEW y \in Slots(k) \ InFront(a) PROVE Before(r, t, y)
  <2>1. PICK i \in 1 .. n : s[i] = y
    BY <1>1
  <2>2. ~(i < d)
    BY <1>11, <2>1
  <2>3. d < i + 1
    BY <1>1, <2>2
  <2> QED
    BY <1>10, <1>14, <2>1, <2>2, <2>3
<1>19. ASSUME NEW x, NEW y, Before(r, x, y)
       PROVE  \/ Before(k, x, y)
              \/ x \in InFront(a) /\ y = t
              \/ x = t /\ y \in Slots(k) \ InFront(a)
  <2>1. r \in KState /\ IsInjective(r.slots)
    BY <1>3, <1>5
  <2>2. x \in Slots(r) /\ y \in Slots(r) /\ x # y /\ ~Before(r, y, x)
    BY <1>19, <2>1, BeforeLine
  <2>3. CASE y = t
    BY <1>6, <1>18, <2>2, <2>3
  <2>4. CASE x = t
    BY <1>6, <1>17, <2>2, <2>4
  <2>5. CASE x # t /\ y # t
    <3>1. x \in Slots(k) /\ y \in Slots(k)
      BY <1>6, <2>2, <2>5
    <3>2. Before(k, x, y) \/ Before(k, y, x)
      BY <1>1, <2>2, <3>1, BeforeLine DEF s
    <3> QED
      BY <1>16, <2>2, <3>2
  <2> QED
    BY <2>3, <2>4, <2>5
<1>20. \A x, y : Before(r, x, y) <=>
             \/ Before(k, x, y)
             \/ x \in InFront(a) /\ y = t
             \/ x = t /\ y \in Slots(k) \ InFront(a)
  BY <1>16, <1>17, <1>18, <1>19
<1> QED
  BY <1>5, <1>6, <1>8, <1>13, <1>15, <1>20 DEF r, k, inj

-----------------------------------------------------------------------------
(***************************************************************************)
(* What inject_and_wait offers to the output: the tasks of the next entry  *)
(* that the parent has not injected yet, in the order of the entry.        *)
(***************************************************************************)
Upto(tasks, i) == {tasks[j] : j \in 1 .. i}

Siblings(p, N) ==
    \A t \in N : /\ t \in Task /\ p \in Parents(t) /\ life[<<p, t>>] = "none"
                 /\ \A a \in Task : life[<<p, a>>] # "none" =>
                       NamedBefore(p, a, t) /\ ~NamedBefore(p, t, a)

InSequence(p, tasks) ==
    \A j \in 1 .. Len(tasks) : tasks[j] \notin Upto(tasks, j - 1) =>
        /\ \A a \in Upto(tasks, j - 1) : NamedBefore(p, a, tasks[j])
        /\ \A a \in ToSet(tasks) : NamedBefore(p, a, tasks[j]) => a \in Upto(tasks, j - 1)

(* A task that Among keeps, and those it kept before.                      *)
LEMMA AmongPlaces ==
    ASSUME NEW seq \in Seq(Task), NEW S, NEW r, r = Among(seq, S), NEW j \in 1 .. Len(r)
    PROVE  \E x \in 1 .. Len(seq) :
               /\ seq[x] = r[j]
               /\ \A y \in 1 .. x : seq[y] \in S => \E i \in 1 .. j : r[i] = seq[y]
<1> DEFINE n == Len(seq)
<1>1. n \in Nat /\ DOMAIN seq = 1 .. n /\ \A i \in 1 .. n : seq[i] \in Task
  BY LenProperties, ElementOfSeq
<1> HIDE DEF n
<1>2. PICK f : AmongChain(f, S, seq, n) /\ Among(seq, S) = f[n]
  BY <1>1, FoldAmong
<1> DEFINE All(m) == \A y \in 1 .. m : seq[y] \in S => \E i \in 1 .. Len(f[m]) : f[m][i] = seq[y]
           Each(m) == \A c \in 1 .. Len(f[m]) : \E x \in 1 .. m :
                          /\ seq[x] = f[m][c]
                          /\ \A y \in 1 .. x : seq[y] \in S => \E i \in 1 .. c : f[m][i] = seq[y]
           P(m) == f[m] \in Seq(Task) /\ All(m) /\ Each(m)
           Good == {m \in 0 .. n : P(m)}
<1>3. 0 \in Good
  <2>1. f[0] = <<>>
    BY <1>2 DEF AmongChain
  <2>2. <<>> \in Seq(Task) /\ Len(<<>>) = 0
    OBVIOUS
  <2>3. P(0) /\ 0 \in 0 .. n
    BY <1>1, <2>1, <2>2
  <2> HIDE DEF P
  <2> QED
    BY <2>3
<1>4. ASSUME NEW m \in 0 .. n - 1, m \in Good
      PROVE  m + 1 \in Good
  <2> DEFINE g == f[m]
             h == f[m + 1]
             v == seq[m + 1]
             c == Len(g)
  <2>1. m \in Nat /\ m + 1 \in 1 .. n /\ m + 1 \in 0 .. n /\ (m + 1) - 1 = m
        /\ h = IF v \in S THEN Append(g, v) ELSE g
    <3>1. m \in Nat /\ m + 1 \in 1 .. n /\ m + 1 \in 0 .. n /\ (m + 1) - 1 = m
      BY <1>1
    <3>2. f[m + 1] = Kept(S, f[m], seq[m + 1])
      BY <1>2, <3>1 DEF AmongChain
    <3> QED
      BY <3>1, <3>2 DEF Kept
  <2>2. v \in Task
    BY <1>1, <2>1
  <2>3. P(m)
    BY <1>4
  <2>4. g \in Seq(Task) /\ c \in Nat
    BY <2>3, LenProperties
  <2>5. \A y \in 1 .. m + 1 : y = m + 1 \/ y \in 1 .. m
    BY <2>1
  <2> HIDE DEF g, h, v
  <2>6. CASE v \notin S
    <3>1. h = g
      BY <2>1, <2>6
    <3>2. All(m + 1)
      BY <2>3, <2>5, <2>6, <3>1 DEF g, h, v
    <3>3. Each(m + 1)
      <4>1. 1 .. m \subseteq 1 .. m + 1
        BY <2>1
      <4>2. f[m + 1] = f[m]
        BY <3>1 DEF g, h
      <4>3. Each(m)
        BY <2>3
      <4> SUFFICES ASSUME NEW d \in 1 .. Len(f[m + 1])
                   PROVE  \E x \in 1 .. m + 1 :
                              /\ seq[x] = f[m + 1][d]
                              /\ \A y \in 1 .. x : seq[y] \in S => \E i \in 1 .. d : f[m + 1][i] = seq[y]
        OBVIOUS
      <4>4. PICK x \in 1 .. m : /\ seq[x] = f[m][d]
                                /\ \A y \in 1 .. x : seq[y] \in S => \E i \in 1 .. d : f[m][i] = seq[y]
        BY <4>2, <4>3
      <4> HIDE DEF All, Each, P, Good
      <4> QED
        BY <4>1, <4>2, <4>4
    <3> HIDE DEF All, Each
    <3>4. P(m + 1) /\ m + 1 \in 0 .. n
      BY <2>1, <2>4, <3>1, <3>2, <3>3 DEF h
    <3> HIDE DEF P
    <3> QED
      BY <3>4
  <2>7. CASE v \in S
    <3>1. h = Append(g, v)
      BY <2>1, <2>7
    <3>2. /\ h \in Seq(Task) /\ Len(h) = c + 1 /\ h[c + 1] = v
          /\ \A i \in 1 .. c : h[i] = g[i]
      BY <2>2, <2>4, <3>1, AppendProperties
    <3>3. \A i \in 1 .. c + 1 : i = c + 1 \/ i \in 1 .. c
      BY <2>4
    <3>4. 1 .. c \subseteq 1 .. c + 1 /\ c + 1 \in 1 .. c + 1
      BY <2>4
    <3> HIDE DEF c
    <3>5. \A y \in 1 .. m : seq[y] \in S => \E i \in 1 .. c + 1 : h[i] = seq[y]
      <4>1. \A y \in 1 .. m : seq[y] \in S => \E i \in 1 .. c : g[i] = seq[y]
        BY <2>3 DEF g, c
      <4> QED
        BY <3>2, <3>4, <4>1
    <3>6. All(m + 1)
      <4>1. \A y \in 1 .. m + 1 : seq[y] \in S => \E i \in 1 .. c + 1 : h[i] = seq[y]
        BY <2>5, <3>2, <3>4, <3>5 DEF v
      <4> QED
        BY <3>2, <4>1 DEF h
    <3>7. ASSUME NEW d \in 1 .. c + 1
          PROVE  \E x \in 1 .. m + 1 : /\ seq[x] = h[d]
                                       /\ \A y \in 1 .. x : seq[y] \in S => \E i \in 1 .. d : h[i] = seq[y]
      <4>1. CASE d = c + 1
        <5>1. \A y \in 1 .. m + 1 : seq[y] \in S => \E i \in 1 .. c + 1 : h[i] = seq[y]
          BY <3>2, <3>6 DEF h
        <5>2. m + 1 \in 1 .. m + 1 /\ seq[m + 1] = h[d]
          BY <2>1, <3>2, <4>1 DEF v
        <5> QED
          BY <4>1, <5>1, <5>2
      <4>2. CASE d \in 1 .. c
        <5>1. PICK x \in 1 .. m : /\ seq[x] = g[d]
                                  /\ \A y \in 1 .. x : seq[y] \in S => \E i \in 1 .. d : g[i] = seq[y]
          BY <2>3, <4>2 DEF g, c
        <5>2. 1 .. d \subseteq 1 .. c
          BY <2>4, <4>2 DEF c
        <5>3. x \in 1 .. m + 1
          BY <2>1
        <5> QED
          BY <3>2, <4>2, <5>1, <5>2, <5>3
      <4> QED
        BY <3>3, <4>1, <4>2
    <3>8. Each(m + 1)
      BY <3>2, <3>7 DEF h
    <3> HIDE DEF All, Each
    <3>9. P(m + 1) /\ m + 1 \in 0 .. n
      BY <2>1, <3>2, <3>6, <3>8 DEF h
    <3> HIDE DEF P
    <3> QED
      BY <3>9
  <2> QED
    BY <2>6, <2>7
<1>5. n \in Good
  <2> HIDE DEF Good
  <2> QED
    BY <1>1, <1>3, <1>4, NatInd
<1>6. Each(n)
  BY <1>5
<1>7. f[n] = r
  BY <1>2
<1>8. PICK x \in 1 .. n : /\ seq[x] = f[n][j]
                          /\ \A y \in 1 .. x : seq[y] \in S => \E i \in 1 .. j : f[n][i] = seq[y]
  BY <1>6, <1>7
<1> HIDE DEF All, Each, P, Good
<1> QED
  BY <1>7, <1>8 DEF n

(* The tasks of the next entry, as inject_and_wait selects them.           *)
LEMMA Offered ==
    ASSUME prog \in Programs, NEW p \in Task, Entered(p), entry[p] \in Nat,
           entry[p] < Len(prog.entries[p]), NEW e, e = prog.entries[p][entry[p] + 1],
           NEW fresh, fresh = {t \in Task : t \notin known[p] /\ life[<<p, t>>] = "none"},
           NEW tasks, tasks = Among(e, fresh)
    PROVE  tasks \in Seq(Task) /\ Siblings(p, ToSet(tasks)) /\ InSequence(p, tasks)
<1> DEFINE s == prog.entries[p]
           c == entry[p]
           N == ToSet(tasks)
<1>1. /\ s \in Seq(Seq(Task)) /\ Len(s) \in Nat /\ DOMAIN s = 1 .. Len(s) /\ Groups(p) = s
      /\ \A m \in 1 .. Len(s) : /\ s[m] \in Seq(Task) /\ Len(s[m]) \in Nat
                                /\ DOMAIN s[m] = 1 .. Len(s[m])
  BY EntryParts
<1>2. /\ c \in Nat /\ c < Len(s) /\ e = s[c + 1]
      /\ \A m \in 1 .. c : \A x \in DOMAIN s[m] : life[<<p, s[m][x]>>] # "none" \/ s[m][x] \in known[p]
      /\ \A t \in Task : life[<<p, t>>] # "none" => \E m \in 1 .. c : \E x \in DOMAIN s[m] : s[m][x] = t
  BY DEF Entered
<1>3. \A a, b : NamedBefore(p, a, b) <=>
          \E m \in DOMAIN s : \E x \in DOMAIN s[m] :
              /\ s[m][x] = a
              /\ \A n \in 1 .. m : \A y \in DOMAIN s[n] : s[n][y] = b => n = m /\ y > x
  BY <1>1, ZenonT(40) DEF NamedBefore
<1>4. tasks \in Seq(Task) /\ \A t : t \in N <=> t \in ToSet(e) /\ t \in fresh
  <2>1. e \in Seq(Task)
    BY <1>1, <1>2
  <2> QED
    BY <2>1, AmongProperties
<1> HIDE DEF s, c
<1>5. c + 1 \in 1 .. Len(s) /\ \A m \in 1 .. Len(s) : m \in 1 .. c \/ (m >= c + 1 /\ c + 1 \in 1 .. m)
  BY <1>1, <1>2
<1>6. e \in Seq(Task) /\ Len(e) \in Nat /\ DOMAIN e = 1 .. Len(e)
  BY <1>1, <1>2, <1>5
<1>7. \A t \in N : t \in Task /\ t \notin known[p] /\ life[<<p, t>>] = "none" /\ \E x \in DOMAIN e : e[x] = t
  <2>1. \A t : t \in ToSet(e) <=> \E x \in 1 .. Len(e) : e[x] = t
    BY <1>6, InToSet, SMTT(30)
  <2> HIDE DEF N
  <2> QED
    BY <1>4, <1>6, <2>1
<1>8. \A t \in N : \A m \in 1 .. c : \A x \in DOMAIN s[m] : s[m][x] # t
  <2> SUFFICES ASSUME NEW t \in N, NEW m \in 1 .. c, NEW x \in DOMAIN s[m], s[m][x] = t PROVE FALSE
    OBVIOUS
  <2>1. life[<<p, t>>] # "none" \/ t \in known[p]
    BY <1>2
  <2> QED
    BY <1>7, <2>1
<1>8a. \A j \in 1 .. Len(tasks) : \E x \in 1 .. Len(e) :
           /\ e[x] = tasks[j]
           /\ \A y \in 1 .. x : e[y] \in fresh => \E i \in 1 .. j : tasks[i] = e[y]
  <2> SUFFICES ASSUME NEW j \in 1 .. Len(tasks)
               PROVE  \E x \in 1 .. Len(e) :
                          /\ e[x] = tasks[j]
                          /\ \A y \in 1 .. x : e[y] \in fresh => \E i \in 1 .. j : tasks[i] = e[y]
    OBVIOUS
  <2>1. e \in Seq(Task)
    BY <1>6
  <2>2. tasks = Among(e, fresh)
    OBVIOUS
  <2> QED
    BY ONLY <2>1, <2>2, AmongPlaces, SMTT(30), j \in 1 .. Len(tasks)
<1>9. ASSUME NEW t \in N PROVE p \in Parents(t)
  <2>1. PICK x \in DOMAIN e : e[x] = t
    BY <1>7
  <2>2. Contains(s[c + 1], t) /\ c + 1 \in DOMAIN s
    BY <1>1, <1>2, <1>5, <2>1 DEF Contains
  <2> QED
    BY <2>2, TopAssumption DEF Parents, NamedBy, s
<1>10. ASSUME NEW t \in N, NEW a \in Task, life[<<p, a>>] # "none"
       PROVE  NamedBefore(p, a, t) /\ ~NamedBefore(p, t, a)
  <2>1a. PICK m \in 1 .. c : \E x \in DOMAIN s[m] : s[m][x] = a
    BY <1>2, <1>10
  <2>1. PICK x \in DOMAIN s[m] : s[m][x] = a
    BY <2>1a
  <2>2. m \in DOMAIN s /\ 1 .. m \subseteq 1 .. c /\ m < c + 1
    BY <1>1, <1>2
  <2>3. NamedBefore(p, a, t)
    BY <1>3, <1>8, <2>1, <2>2
  <2>4. ASSUME NEW i \in DOMAIN s, NEW y \in DOMAIN s[i], s[i][y] = t,
               \A n \in 1 .. i : \A z \in DOMAIN s[n] : s[n][z] = a => n = i /\ z > y
        PROVE  FALSE
    <3>1. ~(i \in 1 .. c)
      BY <1>8, <2>4
    <3>2. m \in 1 .. i /\ m # i
      BY <1>1, <1>2, <1>5, <3>1
    <3> QED
      BY <2>1, <2>4, <3>2
  <2> QED
    BY <1>3, <2>3, <2>4
<1>11. Siblings(p, N)
  BY <1>7, <1>9, <1>10 DEF Siblings
<1>12. Len(tasks) \in Nat /\ \A i \in 1 .. Len(tasks) : tasks[i] \in N
  BY <1>4, LenProperties, InToSet
<1>13. ASSUME NEW j \in 1 .. Len(tasks), tasks[j] \notin Upto(tasks, j - 1)
       PROVE  /\ \A a \in Upto(tasks, j - 1) : NamedBefore(p, a, tasks[j])
              /\ \A a \in N : NamedBefore(p, a, tasks[j]) => a \in Upto(tasks, j - 1)
  <2> DEFINE b == tasks[j]
  <2>1. b \in N /\ b \in fresh
    BY <1>4, <1>12
  <2>2. \A i \in 1 .. j - 1 : tasks[i] # b
    BY <1>13 DEF Upto
  <2>3. ASSUME NEW i \in 1 .. j - 1 PROVE NamedBefore(p, tasks[i], b)
    <3>1. i \in 1 .. Len(tasks)
      BY <1>12
    <3>2. PICK x \in 1 .. Len(e) :
              /\ e[x] = tasks[i]
              /\ \A y \in 1 .. x : e[y] \in fresh => \E d \in 1 .. i : tasks[d] = e[y]
      BY <1>8a, <3>1
    <3>3. \A y \in 1 .. x : e[y] # b
      <4> SUFFICES ASSUME NEW y \in 1 .. x, e[y] = b PROVE FALSE
        BY SMTT(30)
      <4>1. PICK d \in 1 .. i : tasks[d] = b
        BY <2>1, <3>2
      <4>2. d \in 1 .. j - 1
        BY <1>12
      <4> QED
        BY <2>2, <4>1, <4>2
    <3>4. \A n \in 1 .. c + 1 : \A y \in DOMAIN s[n] : s[n][y] = b => n = c + 1 /\ y > x
      <4> SUFFICES ASSUME NEW n \in 1 .. c + 1, NEW y \in DOMAIN s[n], s[n][y] = b
                   PROVE  n = c + 1 /\ y > x
        OBVIOUS
      <4>1. ~(n \in 1 .. c)
        BY <1>8, <2>1
      <4>2. n = c + 1
        BY <1>2, <4>1
      <4>3. y \in 1 .. Len(e) /\ e[y] = b
        BY <1>2, <1>6, <4>2
      <4> QED
        BY <1>6, <3>3, <4>2, <4>3, SMTT(30)
    <3>5. c + 1 \in DOMAIN s /\ x \in DOMAIN s[c + 1] /\ s[c + 1][x] = tasks[i]
      BY <1>1, <1>2, <1>5, <1>6, <3>2
    <3>6. \E m \in DOMAIN s : \E z \in DOMAIN s[m] :
              /\ s[m][z] = tasks[i]
              /\ \A n \in 1 .. m : \A y \in DOMAIN s[n] : s[n][y] = b => n = m /\ y > z
      BY <3>4, <3>5
    <3> QED
      BY <1>3, <3>6
  <2>4. ASSUME NEW a \in N, NamedBefore(p, a, b) PROVE a \in Upto(tasks, j - 1)
    <3>0. PICK m \in DOMAIN s : \E x \in DOMAIN s[m] :
              /\ s[m][x] = a
              /\ \A n \in 1 .. m : \A y \in DOMAIN s[n] : s[n][y] = b => n = m /\ y > x
      <4>1. NamedBefore(p, a, b)
        BY <2>4
      <4> HIDE DEF b
      <4> QED
        BY <1>3, <4>1
    <3>1. PICK x \in DOMAIN s[m] :
              /\ s[m][x] = a
              /\ \A n \in 1 .. m : \A y \in DOMAIN s[n] : s[n][y] = b => n = m /\ y > x
      BY <3>0
    <3>2. m >= c + 1 /\ c + 1 \in 1 .. m
      BY <1>1, <1>5, <1>8, <3>1
    <3>3. PICK z \in 1 .. Len(e) :
              /\ e[z] = b
              /\ \A y \in 1 .. z : e[y] \in fresh => \E d \in 1 .. j : tasks[d] = e[y]
      BY <1>8a
    <3>4. c + 1 = m /\ z > x
      BY <1>2, <1>6, <3>1, <3>2, <3>3, ZenonT(40)
    <3>5. x \in 1 .. z /\ e[x] = a
      BY <1>2, <1>6, <3>1, <3>3, <3>4
    <3>6. a \in fresh
      BY <1>4
    <3>7. PICK d \in 1 .. j : tasks[d] = a
      BY <3>3, <3>5, <3>6
    <3>8. a # b
      <4> SUFFICES ASSUME a = b PROVE FALSE
        OBVIOUS
      <4>1. m \in 1 .. m /\ x \in Nat
        BY <1>1, <1>6, <3>2, <3>5
      <4>2. s[m][x] = b
        BY <3>1
      <4>3. x > x
        BY <3>1, <4>1, <4>2
      <4> QED
        BY <4>1, <4>3
    <3>9. d \in 1 .. j - 1
      BY <1>12, <3>7, <3>8
    <3> QED
      BY <3>7, <3>9 DEF Upto
  <2> QED
    BY <2>3, <2>4 DEF Upto
<1>14. InSequence(p, tasks)
  BY <1>13 DEF InSequence
<1> QED
  BY <1>4, <1>11, <1>14

(* A task that runs once and its ancestors were injected, each by its own. *)
LEMMA LineageOccurred ==
    ASSUME prog \in Programs, Origins, NEW x \in Task, \A a \in Lineage(x) : RunsOnce(a),
           NEW o \in Occ, o[2] = x, life[o] # "none", NEW a \in Lineage(x)
    PROVE  /\ \E q \in Occ : q[2] = a /\ life[q] # "none"
           /\ \A h \in Parents(a) : life[<<h, a>>] # "none"
<1> DEFINE D == {b \in Task : \E q \in Occ : q[2] = b /\ life[q] # "none"}
<1>1. ASSUME NEW b \in D, RunsOnce(b), NEW h \in Parents(b) PROVE h \in D /\ life[<<h, b>>] # "none"
  <2>1. PICK q \in Occ : q[2] = b /\ life[q] # "none"
    OBVIOUS
  <2>2. q[1] \in Task \cup {Top} /\ q = <<q[1], b>> /\ NamedBy(prog, q[1], b)
    BY <2>1, OccParts DEF Origins
  <2>3. h \in Task /\ q[1] = h
    BY <1>1, <2>2, OnlyParent
  <2>4. \E r \in Occ : r[2] = h /\ life[r] \in {"running", "failed", "over"}
    BY <2>1, <2>3 DEF Origins
  <2>5. life[<<h, b>>] # "none"
    BY <2>1, <2>2, <2>3
  <2> QED
    BY <2>3, <2>4, <2>5
<1>2. Lineage(x) \subseteq D
  <2>1. x \in D
    OBVIOUS
  <2>2. \A b \in D \cap Lineage(x) : Parents(b) \subseteq D
    BY <1>1
  <2> HIDE DEF D
  <2> QED
    BY <2>1, <2>2, LineageWithin
<1> QED
  BY <1>1, <1>2

(* Below a parent is a task that the parent injected.                      *)
LEMMA LineageSibling ==
    ASSUME prog \in Programs, Origins, NEW x \in Task, Settled(x),
           NEW o \in Occ, o[2] = x, life[o] # "none", NEW p \in Lineage(x), p # x
    PROVE  \E a \in Lineage(x) : a \in Task /\ Home(a) = {p} /\ life[<<p, a>>] # "none"
<1>1. PICK a \in Lineage(x) : p \in Parents(a)
  BY LineageLast
<1>2. \A b \in Lineage(x) : b \in Task /\ RunsOnce(b)
  BY SettledParts
<1>3. life[<<p, a>>] # "none"
  BY <1>1, <1>2, LineageOccurred
<1>4. Home(a) = {p}
  BY <1>1, <1>2, OnlyParent
<1> QED
  BY <1>1, <1>2, <1>3, <1>4

(* A task that runs once and is about to be injected was never seen.       *)
LEMMA Unborn ==
    ASSUME IInv, Lived, NEW p \in Task, NEW N, Siblings(p, N), NEW t \in N, RunsOnce(t)
    PROVE  /\ \A o \in Occ : o[2] = t => life[o] = "none"
           /\ t \notin Slots(ko)
           /\ \A i \in DOMAIN printed : printed[i][1] # t
<1>1. prog \in Programs /\ Origins /\ Printers
  BY DEF IInv, Types, LivesOK
<1>2. t \in Task /\ p \in Parents(t) /\ life[<<p, t>>] = "none"
  BY DEF Siblings
<1>3. ASSUME NEW o \in Occ, o[2] = t PROVE life[o] = "none"
  <2> SUFFICES ASSUME life[o] # "none" PROVE FALSE
    OBVIOUS
  <2>1. o[1] \in Task \cup {Top} /\ o = <<o[1], t>> /\ NamedBy(prog, o[1], t)
    BY <1>1, <1>3, OccParts DEF Origins
  <2>2. o[1] = p
    BY <1>1, <1>2, <2>1, OnlyParent
  <2> QED
    BY <1>2, <2>1, <2>2
<1>4. t \notin Slots(ko)
  BY <1>3 DEF Lived, Owned
<1>5. ASSUME NEW i \in DOMAIN printed, printed[i][1] = t PROVE FALSE
  <2>1. lines[t] > 0
    BY <1>5, PrintedBegan
  <2> QED
    BY <1>1, <1>2, <1>3, <2>1 DEF Printers
<1> QED
  BY <1>3, <1>4, <1>5

-----------------------------------------------------------------------------
(***************************************************************************)
(* The slots while the tasks Q of the entry of p have theirs: what was     *)
(* there stays in order, and injected_by has the new ones.                 *)
(***************************************************************************)
Grows(a, p, Q) ==
    /\ WellPlaced(a) /\ Stays(ko, a.k) /\ Slots(a.k) = Slots(ko) \cup Q
    /\ \A x, y : Before(ko, x, y) => Before(a.k, x, y)
    /\ \A e \in a.k.injected_by : e \in ko.injected_by \/ (e[2] = p /\ e[1] \in Q)
    /\ \A e \in ko.injected_by : e[1] \in Slots(ko) \/ e[1] \notin Q => e \in a.k.injected_by
    /\ \A t \in Q \ Slots(ko) : \A h : <<t, h>> \in a.k.injected_by <=> h = p

InOrder(k) ==
    /\ \A x, y : Before(k, x, y) => <<x, y>> \in Defined
    /\ \A q, y, z \in Task :
          /\ Before(k, q, y) /\ Before(k, y, z) /\ q \in prog.prints \cap Lineage(z)
          /\ Settled(y) /\ Settled(z)
          => q \in Lineage(y)

(* The place of a parent that does not print: before it.                   *)
Anchors(a, p) ==
    /\ p \in Slots(a.k) \ InFront(a)
    /\ \A y \in Slots(a.k) \ InFront(a) : y = p \/ Before(a.k, p, y)

(* The place of a parent that prints: behind its group and nothing else.   *)
Gathers(a, p) ==
    /\ p \in InFront(a)
    /\ \A y \in Slots(a.k) : Settled(y) /\ p \in Lineage(y) => y \in InFront(a)
    /\ \A y \in InFront(a) : Settled(y) /\ Before(a.k, p, y) => p \in Lineage(y)

Behind(a, p, Q) == \A x \in Slots(a.k) : <<x, p>> \in a.k.injected_by \/ x \in Q => x \in InFront(a)

(* The next task gets its slot, or keeps it.                               *)
LEMMA GrowsStep ==
    ASSUME NEW p \in Task, NEW Q, Q \subseteq Task, NEW a, Grows(a, p, Q), NEW after, NEW u \in Task,
           NEW b, b = InsertInjected(a, p, after, u)
    PROVE  Grows(b, p, Q \cup {u})
<1>1. WellPlaced(a) /\ Stays(ko, a.k) /\ Slots(a.k) = Slots(ko) \cup Q
  BY DEF Grows
<1>2. /\ \A x, y : Before(ko, x, y) => Before(a.k, x, y)
      /\ \A e \in a.k.injected_by : e \in ko.injected_by \/ (e[2] = p /\ e[1] \in Q)
      /\ \A e \in ko.injected_by : e[1] \in Slots(ko) \/ e[1] \notin Q => e \in a.k.injected_by
      /\ \A t \in Q \ Slots(ko) : \A h : <<t, h>> \in a.k.injected_by <=> h = p
  BY DEF Grows
<1>3. CASE u \in Slots(a.k)
  <2>1. /\ WellPlaced(b) /\ Stays(a.k, b.k) /\ b.k.slots = a.k.slots
        /\ a.k.injected_by \subseteq b.k.injected_by
        /\ b.k.injected_by \subseteq a.k.injected_by \cup {<<u, p>>}
    BY <1>1, <1>3, InsertKept
  <2>2. Stays(ko, b.k) /\ Slots(b.k) = Slots(ko) \cup (Q \cup {u})
    BY <1>1, <1>3, <2>1 DEF Stays, Slots
  <2>3. \A x, y : Before(ko, x, y) => Before(b.k, x, y)
    BY <1>2, <2>1 DEF Before
  <2>4. \A e \in b.k.injected_by : e \in ko.injected_by \/ (e[2] = p /\ e[1] \in Q \cup {u})
    BY <1>2, <2>1
  <2>5. \A e \in ko.injected_by : e[1] \in Slots(ko) \/ e[1] \notin Q \cup {u} => e \in b.k.injected_by
    BY <1>2, <2>1
  <2>6. ASSUME NEW t \in (Q \cup {u}) \ Slots(ko), NEW h PROVE <<t, h>> \in b.k.injected_by <=> h = p
    <3>1. t \in Q
      BY <1>1, <1>3, <2>6
    <3>2. <<t, h>> \in a.k.injected_by <=> h = p
      BY <1>2, <2>6, <3>1
    <3> QED
      BY <2>1, <3>2
  <2> QED
    BY <2>1, <2>2, <2>3, <2>4, <2>5, <2>6 DEF Grows
<1>4. CASE u \notin Slots(a.k)
  <2>1. /\ WellPlaced(b) /\ Stays(a.k, b.k) /\ Slots(b.k) = Slots(a.k) \cup {u}
        /\ b.k.injected_by = {e \in a.k.injected_by : e[1] # u} \cup {<<u, p>>}
        /\ \A x, y : Before(a.k, x, y) => Before(b.k, x, y)
    BY <1>1, <1>4, InsertNew
  <2>2. Stays(ko, b.k) /\ Slots(b.k) = Slots(ko) \cup (Q \cup {u}) /\ u \notin Slots(ko)
    BY <1>1, <1>4, <2>1 DEF Stays
  <2>3. \A x, y : Before(ko, x, y) => Before(b.k, x, y)
    BY <1>2, <2>1
  <2>4. \A e \in b.k.injected_by : e \in ko.injected_by \/ (e[2] = p /\ e[1] \in Q \cup {u})
    BY <1>2, <2>1
  <2>5. \A e \in ko.injected_by : e[1] \in Slots(ko) \/ e[1] \notin Q \cup {u} => e \in b.k.injected_by
    BY <1>2, <2>1, <2>2
  <2>6. ASSUME NEW t \in (Q \cup {u}) \ Slots(ko), NEW h PROVE <<t, h>> \in b.k.injected_by <=> h = p
    <3>1. CASE t = u
      BY <2>1, <3>1
    <3>2. CASE t # u
      <4>1. <<t, h>> \in a.k.injected_by <=> h = p
        BY <1>2, <2>6, <3>2
      <4> QED
        BY <2>1, <3>2, <4>1
    <3> QED
      BY <3>1, <3>2
  <2> QED
    BY <2>1, <2>2, <2>3, <2>4, <2>5, <2>6 DEF Grows
<1> QED
  BY <1>3, <1>4

(* A settled task with its parent.                                         *)
LEMMA SettledChild ==
    ASSUME prog \in Programs, NEW u \in Task, Settled(u), NEW p \in Parents(u)
    PROVE  /\ p \in Task /\ Settled(p) /\ RunsOnce(u) /\ RunsOnce(p) /\ Home(u) = {p} /\ Parents(u) = {p}
           /\ Lineage(u) = {u} \cup Lineage(p) /\ p \in Lineage(p) /\ p \notin stranded
<1>1. u \in Lineage(u) /\ Parents(u) \subseteq Lineage(u)
  BY LineageParts
<1>2. RunsOnce(u) /\ Settled(p) /\ RunsOnce(p) /\ p \in Task /\ p \notin stranded
  BY <1>1, SettledParts
<1>3. Parents(u) = {p} /\ Home(u) = {p} /\ Lineage(u) = {u} \cup Lineage(p)
  BY <1>2, OnlyParent
<1> QED
  BY <1>2, <1>3, LineageParts

(* A task of the group is below one that the parent named before.          *)
LEMMA EarlierSibling ==
    ASSUME IInv, NEW p \in Task, NEW N, Siblings(p, N), NEW u \in N,
           NEW Q, Q \subseteq N, \A t \in Q : NamedBefore(p, t, u),
           NEW x \in Task, Settled(x), p \in Lineage(x), x # p,
           x \in Q \/ \E o \in Occ : o[2] = x /\ life[o] # "none"
    PROVE  \E s \in Lineage(x) : p \in Home(s) /\ NamedBefore(p, s, u)
<1>1. prog \in Programs /\ Origins
  BY DEF IInv, Types, LivesOK
<1>2. CASE x \in Q
  <2>1. p \in Parents(x) /\ x \in Lineage(x)
    BY <1>2, LineageParts DEF Siblings
  <2>2. Home(x) = {p}
    BY <1>1, <2>1, SettledChild
  <2> QED
    BY <1>2, <2>1, <2>2
<1>3. ASSUME NEW o \in Occ, o[2] = x, life[o] # "none"
      PROVE  \E s \in Lineage(x) : p \in Home(s) /\ NamedBefore(p, s, u)
  <2>1. PICK s \in Lineage(x) : s \in Task /\ Home(s) = {p} /\ life[<<p, s>>] # "none"
    BY <1>1, <1>3, LineageSibling
  <2>2. NamedBefore(p, s, u)
    BY <2>1 DEF Siblings
  <2> QED
    BY <2>1, <2>2
<1> QED
  BY <1>2, <1>3

(* A settled task is about to get its slot, at the place of its parent.    *)
Inserting(a, p, N, Q, u) ==
    /\ p \in Task /\ p \in Slots(ko) /\ Siblings(p, N) /\ Q \subseteq N /\ u \in N /\ Settled(u)
    /\ \A t \in Q : NamedBefore(p, t, u)
    /\ Grows(a, p, Q) /\ InOrder(a.k) /\ u \notin Slots(a.k)
    /\ p \notin prog.prints => Anchors(a, p)
    /\ p \in prog.prints => Gathers(a, p)

(* What this says of the task and of its parent.                           *)
LEMMA InsertingParts ==
    ASSUME IInv, Lived, NEW a, NEW p, NEW N, NEW Q, NEW u, Inserting(a, p, N, Q, u)
    PROVE  /\ prog \in Programs /\ Origins /\ p \in Task /\ u \in Task /\ u # p
           /\ WellPlaced(a) /\ a.k \in KState /\ IsInjective(a.k.slots) /\ p \in Slots(a.k)
           /\ Slots(a.k) \subseteq Task /\ InFront(a) \subseteq Slots(a.k)
           /\ p \in Parents(u) /\ Settled(p) /\ RunsOnce(u) /\ Home(u) = {p}
           /\ Lineage(u) = {u} \cup Lineage(p)
           /\ \A x \in Slots(a.k) : x \in Q \/ \E o \in Occ : o[2] = x /\ life[o] # "none"
<1>1. prog \in Programs /\ Origins
  BY DEF IInv, Types, LivesOK
<1>2. /\ p \in Task /\ p \in Slots(ko) /\ Siblings(p, N) /\ u \in N /\ Settled(u)
      /\ Grows(a, p, Q) /\ u \notin Slots(a.k) /\ Q \subseteq N
  BY DEF Inserting
<1>3. u \in Task /\ p \in Parents(u)
  BY <1>2 DEF Siblings
<1>4. WellPlaced(a) /\ a.k \in KState /\ IsInjective(a.k.slots) /\ Slots(a.k) = Slots(ko) \cup Q
  BY <1>2 DEF Grows, WellPlaced
<1>5. Slots(a.k) \subseteq Task /\ InFront(a) \subseteq Slots(a.k)
  BY <1>4, SlotPlaces, FrontParts
<1>6. Settled(p) /\ RunsOnce(u) /\ Home(u) = {p} /\ Lineage(u) = {u} \cup Lineage(p)
  BY <1>1, <1>2, <1>3, SettledChild
<1>7. \A x \in Slots(ko) : \E o \in Occ : o[2] = x /\ life[o] # "none"
  BY DEF Lived, Owned
<1> QED
  BY <1>1, <1>2, <1>3, <1>4, <1>5, <1>6, <1>7

(* What is in front of the place is ahead of the task.                     *)
LEMMA FrontAhead ==
    ASSUME IInv, Lived, NEW a, NEW p, NEW N, NEW Q, NEW u, Inserting(a, p, N, Q, u),
           NEW x \in InFront(a), Settled(x)
    PROVE  Ahead(x, u)
<1>1. /\ prog \in Programs /\ p \in Task /\ u \in Task /\ a.k \in KState /\ IsInjective(a.k.slots)
      /\ p \in Slots(a.k) /\ x \in Slots(a.k) /\ x \in Task /\ p \in Parents(u) /\ Settled(p)
      /\ RunsOnce(u) /\ WellPlaced(a)
      /\ x \in Q \/ \E o \in Occ : o[2] = x /\ life[o] # "none"
  BY InsertingParts
<1>2. /\ Siblings(p, N) /\ Q \subseteq N /\ u \in N /\ (\A t \in Q : NamedBefore(p, t, u)) /\ InOrder(a.k)
      /\ (p \notin prog.prints => Anchors(a, p)) /\ (p \in prog.prints => Gathers(a, p))
  BY DEF Inserting
<1>3. x = p => p \in prog.prints
  BY <1>2 DEF Anchors
<1>4. p \in Lineage(x) /\ x # p => \E s \in Lineage(x) : p \in Home(s) /\ NamedBefore(p, s, u)
  <2> SUFFICES ASSUME p \in Lineage(x), x # p
               PROVE  \E s \in Lineage(x) : p \in Home(s) /\ NamedBefore(p, s, u)
    OBVIOUS
  <2> QED
    BY <1>1, <1>2, EarlierSibling
<1>5. ASSUME p \in Lineage(x), x # p PROVE Ahead(x, u)
  <2>1. PICK s \in Lineage(x) : p \in Home(s) /\ NamedBefore(p, s, u)
    BY <1>4, <1>5
  <2>2. u \in Lineage(u) /\ p \in Home(u)
    BY InsertingParts, LineageParts
  <2> QED
    BY <2>1, <2>2 DEF Ahead
<1>6. ASSUME p \notin Lineage(x), x # p PROVE Ahead(x, u)
  <2>1. Before(a.k, x, p)
    <3>1. CASE p \in prog.prints
      <4>1. ~Before(a.k, p, x)
        BY <1>2, <1>6, <3>1 DEF Gathers
      <4> QED
        BY <1>1, <1>6, <4>1, BeforeLine
    <3>2. CASE p \notin prog.prints
      <4>1. p \in Slots(a.k) \ InFront(a)
        BY <1>2, <3>2 DEF Anchors
      <4> QED
        BY <1>1, <4>1, FrontParts
    <3> QED
      BY <3>1, <3>2
  <2>2. Ahead(x, p)
    BY <1>1, <1>2, <2>1 DEF InOrder, Defined
  <2> QED
    BY <1>1, <1>6, <2>2, AheadOfChild
<1>7. ASSUME x = p PROVE Ahead(x, u)
  BY <1>1, <1>3, <1>7, AheadOfChild
<1> QED
  BY <1>5, <1>6, <1>7

(* The task is ahead of what is behind the place.                          *)
LEMMA AheadOfRest ==
    ASSUME IInv, Lived, NEW a, NEW p, NEW N, NEW Q, NEW u, Inserting(a, p, N, Q, u),
           NEW y \in Slots(a.k) \ InFront(a), Settled(y)
    PROVE  Ahead(u, y)
<1>1. /\ prog \in Programs /\ p \in Task /\ u \in Task /\ a.k \in KState /\ IsInjective(a.k.slots)
      /\ p \in Slots(a.k) /\ y \in Task /\ p \in Parents(u) /\ Settled(p) /\ RunsOnce(u) /\ WellPlaced(a)
  BY InsertingParts
<1>2. /\ InOrder(a.k)
      /\ (p \notin prog.prints => Anchors(a, p)) /\ (p \in prog.prints => Gathers(a, p))
  BY DEF Inserting
<1>3. p \notin Lineage(y) \cap prog.prints
  BY <1>2 DEF Gathers
<1>4. Before(a.k, p, y) \/ (y = p /\ p \notin prog.prints)
  <2>1. CASE p \in prog.prints
    <3>1. p \in InFront(a)
      BY <1>2, <2>1 DEF Gathers
    <3> QED
      BY <1>1, <3>1, FrontParts
  <2>2. CASE p \notin prog.prints
    BY <1>2, <2>2 DEF Anchors
  <2> QED
    BY <2>1, <2>2
<1>5. Ahead(p, y) \/ (y = p /\ p \notin prog.prints)
  BY <1>1, <1>2, <1>4 DEF InOrder, Defined
<1> QED
  BY <1>1, <1>3, <1>5, ChildAhead

(* No settled task with a slot is below one that is yet to be injected.    *)
LEMMA NotAbove ==
    ASSUME IInv, Lived, NEW a, NEW p, NEW N, NEW Q, NEW u \in N, p \in Task, Siblings(p, N), Q \subseteq N,
           Slots(a.k) = Slots(ko) \cup Q, u \notin Slots(a.k), p \in Slots(ko),
           NEW z \in Slots(a.k), Settled(z)
    PROVE  u \notin Lineage(z)
<1> SUFFICES ASSUME u \in Lineage(z) PROVE FALSE
  OBVIOUS
<1>1. prog \in Programs /\ Origins /\ Slots(ko) \subseteq Task /\ N \subseteq Task
  <2>1. Slots(ko) \subseteq Task
    BY SlotsTyped, SlotPlaces
  <2> QED
    BY <2>1 DEF IInv, Types, LivesOK, Siblings
<1>2. z \in Task /\ u \in Task /\ u # z
  BY <1>1
<1>3. RunsOnce(u) /\ \A b \in Lineage(z) : RunsOnce(b)
  BY <1>2, SettledParts
<1>4. \A o \in Occ : o[2] = u => life[o] = "none"
  BY <1>3, Unborn
<1>5. ASSUME NEW x \in Slots(ko), x \in Lineage(z), u \in Lineage(x) PROVE FALSE
  <2>1. PICK o \in Occ : o[2] = x /\ life[o] # "none"
    BY DEF Lived, Owned
  <2>2. x \in Task /\ Settled(x)
    BY <1>1, <1>2, <1>5, SettledParts
  <2>3. \A b \in Lineage(x) : RunsOnce(b)
    BY <2>2, SettledParts
  <2>4. \E q \in Occ : q[2] = u /\ life[q] # "none"
    BY <1>1, <1>5, <2>1, <2>2, <2>3, LineageOccurred
  <2> QED
    BY <1>4, <2>4
<1>6. CASE z \in Slots(ko)
  BY <1>2, <1>5, <1>6, LineageParts
<1>7. CASE z \in Q
  <2>1. p \in Parents(z)
    BY <1>7 DEF Siblings
  <2>2. Lineage(z) = {z} \cup Lineage(p) /\ p \in Lineage(p)
    BY <1>1, <1>2, <2>1, SettledChild
  <2> QED
    BY <1>2, <1>5, <2>2
<1> QED
  BY <1>6, <1>7

(* The slots stay in order.                                                *)
LEMMA InsertOrder ==
    ASSUME IInv, Lived, NEW a, NEW p, NEW N, NEW Q, NEW u, Inserting(a, p, N, Q, u),
           NEW after, NEW b, b = InsertInjected(a, p, after, u)
    PROVE  InOrder(b.k)
<1>1. /\ prog \in Programs /\ p \in Task /\ u \in Task /\ a.k \in KState /\ IsInjective(a.k.slots)
      /\ p \in Slots(a.k) /\ p \in Parents(u) /\ Settled(p) /\ RunsOnce(u) /\ WellPlaced(a)
      /\ Slots(a.k) \subseteq Task /\ InFront(a) \subseteq Slots(a.k) /\ Lineage(u) = {u} \cup Lineage(p)
  BY InsertingParts
<1>2. /\ InOrder(a.k) /\ u \notin Slots(a.k) /\ Settled(u) /\ Siblings(p, N) /\ Q \subseteq N /\ u \in N
      /\ (p \notin prog.prints => Anchors(a, p)) /\ (p \in prog.prints => Gathers(a, p))
      /\ Slots(a.k) = Slots(ko) \cup Q /\ p \in Slots(ko)
  BY DEF Inserting, Grows
<1>3. /\ Slots(b.k) = Slots(a.k) \cup {u}
      /\ \A x, y : Before(b.k, x, y) <=>
             \/ Before(a.k, x, y)
             \/ x \in InFront(a) /\ y = u
             \/ x = u /\ y \in Slots(a.k) \ InFront(a)
  BY <1>1, <1>2, InsertNew, SMTT(30)
<1>4. ASSUME NEW x, NEW y, Before(b.k, x, y) PROVE <<x, y>> \in Defined
  <2>1. CASE Before(a.k, x, y)
    BY <1>2, <2>1 DEF InOrder
  <2>2. CASE x \in InFront(a) /\ y = u
    <3>1. Settled(x) => Ahead(x, u)
      BY <2>2, FrontAhead
    <3> QED
      BY <1>1, <2>2, <3>1 DEF Defined
  <2>3. CASE x = u /\ y \in Slots(a.k) \ InFront(a)
    <3>1. Settled(y) => Ahead(u, y)
      BY <2>3, AheadOfRest
    <3> QED
      BY <1>1, <2>3, <3>1 DEF Defined
  <2> QED
    BY <1>3, <1>4, <2>1, <2>2, <2>3
<1>5. ASSUME NEW q \in Task, NEW y \in Task, NEW z \in Task, Before(a.k, q, y), Before(a.k, y, z),
             q \in prog.prints, q \in Lineage(z), Settled(y), Settled(z)
      PROVE  q \in Lineage(y)
  BY <1>2, <1>5 DEF InOrder
<1>6. /\ \A x, y : Before(a.k, x, y) => x \in Slots(a.k) /\ y \in Slots(a.k) /\ x # y
      /\ \A x, y \in Slots(a.k) : x = y \/ Before(a.k, x, y) \/ Before(a.k, y, x)
      /\ \A x \in InFront(a) : \A y \in Slots(a.k) \ InFront(a) : Before(a.k, x, y)
  BY <1>1, BeforeLine, FrontParts
<1>7. ASSUME NEW q \in Task, NEW y \in Task, NEW z \in Task, Before(b.k, q, y), Before(b.k, y, z),
             q \in prog.prints, q \in Lineage(z), Settled(y), Settled(z)
      PROVE  q \in Lineage(y)
  <2>1. CASE q = u
    <3>1. z \in Slots(a.k)
      BY <1>1, <1>2, <1>3, <1>6, <1>7, <2>1
    <3> QED
      BY <1>1, <1>2, <1>7, <2>1, <3>1, NotAbove
  <2>2. CASE q # u /\ y = u
    <3>1. q \in InFront(a) /\ z \in Slots(a.k) \ InFront(a)
      BY <1>1, <1>2, <1>3, <1>6, <1>7, <2>2
    <3>2. Settled(q)
      BY <1>7, SettledParts
    <3>3. CASE p \in prog.prints
      <4>1. p \in InFront(a) /\ p \notin Lineage(z)
        BY <1>2, <1>7, <3>1, <3>3 DEF Gathers
      <4>2. Before(a.k, p, z)
        BY <1>6, <3>1, <4>1
      <4>3. CASE Before(a.k, q, p)
        <5>1. q \in Lineage(p)
          BY <1>1, <1>5, <1>7, <4>2, <4>3
        <5> QED
          BY <1>1, <2>2, <5>1
      <4>4. CASE Before(a.k, p, q)
        <5>1. p \in Lineage(q)
          BY <1>2, <3>1, <3>2, <3>3, <4>4 DEF Gathers
        <5>2. p \in Lineage(z)
          BY <1>7, <5>1, LineageDown
        <5> QED
          BY <4>1, <5>2
      <4>5. CASE q = p
        BY <1>7, <4>1, <4>5
      <4> QED
        BY <1>1, <1>6, <3>1, <4>3, <4>4, <4>5
    <3>4. CASE p \notin prog.prints
      <4>1. p \in Slots(a.k) \ InFront(a) /\ (z = p \/ Before(a.k, p, z))
        BY <1>2, <3>1, <3>4 DEF Anchors
      <4>2. Before(a.k, q, p)
        BY <1>6, <3>1, <4>1
      <4>3. q \in Lineage(p)
        BY <1>1, <1>5, <1>7, <4>1, <4>2
      <4> QED
        BY <1>1, <2>2, <4>3
    <3> QED
      BY <3>3, <3>4
  <2>3. CASE q # u /\ y # u /\ z = u
    <3>1. Before(a.k, q, y) /\ y \in InFront(a) /\ q \in Lineage(p)
      BY <1>1, <1>2, <1>3, <1>6, <1>7, <2>3
    <3>2. CASE Before(a.k, y, p)
      BY <1>1, <1>5, <1>7, <3>1, <3>2
    <3>3. CASE y = p
      BY <3>1, <3>3
    <3>4. CASE Before(a.k, p, y) /\ p \in prog.prints
      <4>1. p \in Lineage(y)
        BY <1>2, <1>7, <3>1, <3>4 DEF Gathers
      <4> QED
        BY <3>1, <4>1, LineageDown
    <3>5. CASE p \notin prog.prints
      <4>1. Before(a.k, y, p)
        BY <1>2, <1>6, <3>1, <3>5 DEF Anchors
      <4> QED
        BY <3>2, <4>1
    <3> QED
      BY <1>1, <1>6, <3>1, <3>2, <3>3, <3>4, <3>5
  <2>4. CASE q # u /\ y # u /\ z # u
    BY <1>3, <1>5, <1>7, <2>4
  <2> QED
    BY <2>1, <2>2, <2>3, <2>4
<1> QED
  BY <1>4, <1>7 DEF InOrder

(* A task that is not settled disturbs nothing.                            *)
LEMMA InsertUnsettled ==
    ASSUME NEW a, WellPlaced(a), InOrder(a.k), NEW p \in Task, NEW after, NEW u \in Task,
           u \notin Slots(a.k), ~Settled(u), NEW b, b = InsertInjected(a, p, after, u)
    PROVE  InOrder(b.k)
<1>1. /\ a.k \in KState /\ Slots(a.k) \subseteq Task /\ InFront(a) \subseteq Slots(a.k)
  <2>1. a.k \in KState
    BY DEF WellPlaced
  <2> QED
    BY <2>1, SlotPlaces, FrontParts
<1>2. \A x, y : Before(b.k, x, y) <=>
          \/ Before(a.k, x, y)
          \/ x \in InFront(a) /\ y = u
          \/ x = u /\ y \in Slots(a.k) \ InFront(a)
  BY InsertNew
<1>3. ASSUME NEW x, NEW y, Before(b.k, x, y) PROVE <<x, y>> \in Defined
  <2>1. CASE Before(a.k, x, y)
    BY <2>1 DEF InOrder
  <2>2. CASE x \in InFront(a) /\ y = u
    BY <1>1, <2>2 DEF Defined
  <2>3. CASE x = u /\ y \in Slots(a.k) \ InFront(a)
    BY <1>1, <2>3 DEF Defined
  <2> QED
    BY <1>2, <1>3, <2>1, <2>2, <2>3
<1>4. ASSUME NEW q \in Task, NEW y \in Task, NEW z \in Task, Before(b.k, q, y), Before(b.k, y, z),
             q \in prog.prints, q \in Lineage(z), Settled(y), Settled(z)
      PROVE  q \in Lineage(y)
  <2>1. Settled(q)
    BY <1>4, SettledParts
  <2>2. Before(a.k, q, y) /\ Before(a.k, y, z)
    BY <1>2, <1>4, <2>1
  <2> QED
    BY <1>4, <2>2 DEF InOrder
<1> QED
  BY <1>3, <1>4 DEF InOrder

(***************************************************************************)
(* The tasks Q of the entry have their slots, and the place for the next   *)
(* one is that of the parent.                                              *)
(***************************************************************************)
Placing(a, p, N, Q) ==
    /\ Grows(a, p, Q) /\ InOrder(a.k)
    /\ p \notin prog.prints => Anchors(a, p)
    /\ p \in prog.prints =>
          /\ Behind(a, p, Q)
          /\ (\E t \in N : Settled(t)) /\ (\A t \in Q : Settled(t)) => Gathers(a, p)

(* The task is behind what its parent named before.                        *)
Ranks(k, p, Q, u) ==
    p \in prog.prints /\ u \notin Slots(ko) \cup Q =>
        \A x : (x \in Slots(ko) /\ <<x, p>> \in ko.injected_by) \/ x \in Q => Before(k, x, u)

(* The next task of the entry already has a slot.                          *)
LEMMA PlaceKept ==
    ASSUME IInv, Lived, NEW p \in Task, NEW N, Siblings(p, N), NEW Q, Q \subseteq N, NEW u \in N,
           NEW a, Placing(a, p, N, Q), u \in Slots(a.k), NEW after, after <=> p \in prog.prints,
           NEW b, b = InsertInjected(a, p, after, u)
    PROVE  Placing(b, p, N, Q \cup {u}) /\ Ranks(b.k, p, Q, u)
<1>1. /\ Grows(a, p, Q) /\ InOrder(a.k) /\ (p \notin prog.prints => Anchors(a, p))
      /\ (p \in prog.prints => Behind(a, p, Q))
      /\ (p \in prog.prints /\ (\E t \in N : Settled(t)) /\ (\A t \in Q : Settled(t)) => Gathers(a, p))
  BY DEF Placing
<1>2. WellPlaced(a) /\ Slots(a.k) = Slots(ko) \cup Q /\ N \subseteq Task /\ u \in Task
  BY <1>1 DEF Grows, Siblings
<1>3. /\ b.k.slots = a.k.slots
      /\ b.k.injected_by \subseteq a.k.injected_by \cup {<<u, p>>}
      /\ InFront(a) \subseteq InFront(b)
      /\ after => u \in InFront(b)
      /\ ~after \/ u \in InFront(a) => InFront(b) = InFront(a)
  BY <1>2, InsertKept
<1>4. Grows(b, p, Q \cup {u})
  <2>1. Q \subseteq Task
    BY <1>2
  <2> QED
    BY <1>1, <1>2, <2>1, GrowsStep
<1>5. Slots(b.k) = Slots(a.k) /\ \A x, y : Before(b.k, x, y) <=> Before(a.k, x, y)
  BY <1>3 DEF Slots, Before
<1>6. InOrder(b.k)
  BY <1>1, <1>5 DEF InOrder
<1>7. p \notin prog.prints => Anchors(b, p)
  BY <1>1, <1>3, <1>5 DEF Anchors
<1>8. p \in prog.prints => Behind(b, p, Q \cup {u})
  BY <1>1, <1>3, <1>5 DEF Behind
<1>9. ASSUME p \in prog.prints, \A t \in Q \cup {u} : Settled(t) PROVE Gathers(b, p)
  <2>1. Gathers(a, p)
    BY <1>1, <1>9
  <2>2. RunsOnce(u)
    BY <1>2, <1>9, SettledParts, LineageParts
  <2>3. u \notin Slots(ko)
    BY <2>2, Unborn
  <2>4. u \in InFront(a)
    BY <1>1, <1>2, <1>9, <2>3 DEF Behind
  <2>5. InFront(b) = InFront(a)
    BY <1>3, <2>4
  <2> QED
    BY <1>5, <2>1, <2>5 DEF Gathers
<1>10. Ranks(b.k, p, Q, u)
  BY <1>2 DEF Ranks
<1> QED
  BY <1>4, <1>6, <1>7, <1>8, <1>9, <1>10 DEF Placing

(* The next task of the entry gets a slot.                                 *)
LEMMA PlaceNew ==
    ASSUME IInv, Lived, NEW p \in Task, p \in Slots(ko), NEW N, Siblings(p, N), NEW Q, Q \subseteq N,
           NEW u \in N, NEW a, Placing(a, p, N, Q), u \notin Slots(a.k), \A t \in Q : NamedBefore(p, t, u),
           NEW after, after <=> p \in prog.prints, NEW b, b = InsertInjected(a, p, after, u)
    PROVE  Placing(b, p, N, Q \cup {u}) /\ Ranks(b.k, p, Q, u)
<1>1. /\ Grows(a, p, Q) /\ InOrder(a.k) /\ (p \notin prog.prints => Anchors(a, p))
      /\ (p \in prog.prints => Behind(a, p, Q))
      /\ (p \in prog.prints /\ (\E t \in N : Settled(t)) /\ (\A t \in Q : Settled(t)) => Gathers(a, p))
  BY DEF Placing
<1>2. /\ WellPlaced(a) /\ Slots(a.k) = Slots(ko) \cup Q /\ N \subseteq Task /\ u \in Task
      /\ p \in Slots(a.k) /\ u # p /\ prog \in Programs /\ p \in Parents(u)
  BY <1>1 DEF Grows, Siblings, IInv, Types
<1>3. /\ Slots(b.k) = Slots(a.k) \cup {u}
      /\ b.k.injected_by = {e \in a.k.injected_by : e[1] # u} \cup {<<u, p>>}
      /\ InFront(b) = InFront(a) \cup {u}
      /\ \A x, y : Before(b.k, x, y) <=>
             \/ Before(a.k, x, y)
             \/ x \in InFront(a) /\ y = u
             \/ x = u /\ y \in Slots(a.k) \ InFront(a)
  BY <1>2, InsertNew
<1>4. Grows(b, p, Q \cup {u})
  <2>1. Q \subseteq Task
    BY <1>2
  <2> QED
    BY <1>1, <1>2, <2>1, GrowsStep
<1>5. InOrder(b.k)
  <2>1. CASE Settled(u)
    <3>1. p \in prog.prints => Gathers(a, p)
      <4> SUFFICES ASSUME p \in prog.prints PROVE Gathers(a, p)
        OBVIOUS
      <4>1. ASSUME NEW t \in Q PROVE Settled(t)
        <5>1. t \in Task /\ t \in Lineage(t) /\ NamedBefore(p, t, u) /\ p \in Parents(u) \cap prog.prints
          BY <1>2, LineageParts
        <5> QED
          BY <1>2, <2>1, <5>1, EarlierSettled
      <4> QED
        BY <1>1, <2>1, <4>1
    <3>2. Inserting(a, p, N, Q, u)
      BY <1>1, <2>1, <3>1 DEF Inserting
    <3> QED
      BY <3>2, InsertOrder
  <2>2. CASE ~Settled(u)
    BY <1>1, <1>2, <2>2, InsertUnsettled
  <2> QED
    BY <2>1, <2>2
<1>6. p \notin prog.prints => Anchors(b, p)
  BY <1>1, <1>2, <1>3 DEF Anchors
<1>7. p \in prog.prints => Behind(b, p, Q \cup {u})
  BY <1>1, <1>3 DEF Behind
<1>8. ASSUME p \in prog.prints, \A t \in Q \cup {u} : Settled(t) PROVE Gathers(b, p)
  <2>1. Gathers(a, p)
    BY <1>1, <1>8
  <2>2. p \in InFront(b)
    BY <1>3, <2>1 DEF Gathers
  <2>3. \A y \in Slots(b.k) : Settled(y) /\ p \in Lineage(y) => y \in InFront(b)
    BY <1>3, <2>1 DEF Gathers
  <2>4. ASSUME NEW y \in InFront(b), Settled(y), Before(b.k, p, y) PROVE p \in Lineage(y)
    <3>1. CASE y = u
      BY <1>2, <3>1, LineageParts
    <3>2. CASE y # u
      BY <1>2, <1>3, <2>1, <2>4, <3>2 DEF Gathers
    <3> QED
      BY <3>1, <3>2
  <2> QED
    BY <2>2, <2>3, <2>4 DEF Gathers
<1>9. Ranks(b.k, p, Q, u)
  <2> SUFFICES ASSUME p \in prog.prints, NEW x, (x \in Slots(ko) /\ <<x, p>> \in ko.injected_by) \/ x \in Q
               PROVE  Before(b.k, x, u)
    BY DEF Ranks
  <2>1. x \in Slots(a.k)
    BY <1>2
  <2>2. <<x, p>> \in a.k.injected_by \/ x \in Q
    BY <1>1 DEF Grows
  <2>3. x \in InFront(a)
    BY <1>1, <2>1, <2>2 DEF Behind
  <2> QED
    BY <1>3, <2>3
<1> QED
  BY <1>4, <1>5, <1>6, <1>7, <1>8, <1>9 DEF Placing

(* The tasks of the entry, one after the other.                            *)
LEMMA PlaceAll ==
    ASSUME IInv, Lived, NEW p \in Task, p \in Slots(ko), NEW tasks \in Seq(Task), NEW N, N = ToSet(tasks),
           Siblings(p, N), InSequence(p, tasks), NEW a, Placing(a, p, N, {}),
           NEW after, after <=> p \in prog.prints, NEW b, b = InsertFrom(a, p, after, tasks)
    PROVE  /\ Grows(b, p, N) /\ InOrder(b.k)
           /\ \A j \in 1 .. Len(tasks) : Ranks(b.k, p, Upto(tasks, j - 1), tasks[j])
<1> DEFINE n == Len(tasks)
<1>1. n \in Nat /\ DOMAIN tasks = 1 .. n /\ \A i \in 1 .. n : tasks[i] \in Task /\ tasks[i] \in N
  BY LenProperties, ElementOfSeq, InToSet
<1>2. \A x : x \in N <=> \E i \in 1 .. n : tasks[i] = x
  BY InToSet
<1> HIDE DEF n
<1>3. PICK f : Inserted(f, a, p, after, tasks, n) /\ InsertFrom(a, p, after, tasks) = f[n]
  BY <1>1, FoldInsertInjected
<1> DEFINE P(i) == /\ Placing(f[i], p, N, Upto(tasks, i))
                   /\ \A j \in 1 .. i : Ranks(f[i].k, p, Upto(tasks, j - 1), tasks[j])
           Good == {i \in 0 .. n : P(i)}
<1>4. 0 \in Good
  <2>1. f[0] = a
    BY <1>3 DEF Inserted
  <2>2. Upto(tasks, 0) = {} /\ 1 .. 0 = {}
    BY DEF Upto
  <2>3. P(0)
    BY <2>1, <2>2
  <2> HIDE DEF P
  <2> QED
    BY <1>1, <2>3
<1>5. ASSUME NEW i \in 0 .. n - 1, i \in Good
      PROVE  i + 1 \in Good
  <2>1. i \in Nat /\ i + 1 \in 1 .. n /\ i + 1 \in 0 .. n /\ (i + 1) - 1 = i /\ i <= n
    BY <1>1
  <2> DEFINE g == f[i]
             h == f[i + 1]
             u == tasks[i + 1]
             Q == Upto(tasks, i)
  <2>2. h = InsertInjected(g, p, after, u) /\ u \in Task /\ u \in N
    BY <1>1, <1>3, <2>1 DEF Inserted
  <2>3. Upto(tasks, i + 1) = Q \cup {u}
    <3>1. 1 .. i + 1 = (1 .. i) \cup {i + 1}
      BY <2>1
    <3> QED
      BY <3>1 DEF Upto
  <2>4. Q \subseteq N
    <3>1. 1 .. i \subseteq 1 .. n
      BY <1>1, <2>1
    <3> QED
      BY <1>1, <3>1 DEF Upto
  <2>5. u \notin Q => \A t \in Q : NamedBefore(p, t, u)
    <3>1. i + 1 \in 1 .. Len(tasks)
      BY <2>1 DEF n
    <3> QED
      BY <2>1, <3>1 DEF InSequence
  <2>6. Placing(g, p, N, Q) /\ \A j \in 1 .. i : Ranks(g.k, p, Upto(tasks, j - 1), tasks[j])
    BY <1>5
  <2>7. Q \subseteq Task
    BY <2>4 DEF Siblings
  <2> HIDE DEF g, h, u, Q
  <2>8. Grows(g, p, Q) /\ Slots(g.k) = Slots(ko) \cup Q
    BY <2>6 DEF Placing, Grows
  <2>9. Placing(h, p, N, Q \cup {u}) /\ Ranks(h.k, p, Q, u)
    <3>1. CASE u \in Slots(g.k)
      BY <2>2, <2>4, <2>6, <3>1, PlaceKept
    <3>2. CASE u \notin Slots(g.k)
      <4>1. \A t \in Q : NamedBefore(p, t, u)
        BY <2>5, <2>8, <3>2
      <4> QED
        BY <2>2, <2>4, <2>6, <3>2, <4>1, PlaceNew
    <3> QED
      BY <3>1, <3>2
  <2>10. \A x, y : Before(g.k, x, y) => Before(h.k, x, y)
    <3>1. WellPlaced(g)
      BY <2>8 DEF Grows
    <3>2. CASE u \in Slots(g.k)
      <4>1. h.k.slots = g.k.slots
        BY <2>2, <3>1, <3>2, InsertKept
      <4> QED
        BY <4>1 DEF Before
    <3>3. CASE u \notin Slots(g.k)
      <4>1. \A x, y : Before(h.k, x, y) <=>
                \/ Before(g.k, x, y)
                \/ x \in InFront(g) /\ y = u
                \/ x = u /\ y \in Slots(g.k) \ InFront(g)
        BY <2>2, <3>1, <3>3, InsertNew
      <4> QED
        BY <4>1
    <3> QED
      BY <3>2, <3>3
  <2>11. ASSUME NEW j \in 1 .. i + 1 PROVE Ranks(h.k, p, Upto(tasks, j - 1), tasks[j])
    <3>1. CASE j = i + 1
      BY <2>1, <2>9, <3>1 DEF Q, u
    <3>2. CASE j # i + 1
      <4>1. j \in 1 .. i
        BY <2>1, <3>2
      <4>2. Ranks(g.k, p, Upto(tasks, j - 1), tasks[j])
        BY <2>6, <4>1
      <4> QED
        BY <2>10, <4>2 DEF Ranks
    <3> QED
      BY <3>1, <3>2
  <2>12. P(i + 1)
    BY <2>3, <2>9, <2>11 DEF h
  <2> HIDE DEF P
  <2> QED
    BY <2>1, <2>12
<1>6. P(n)
  <2>1. n \in Good
    <3> HIDE DEF Good
    <3> QED
      BY <1>1, <1>4, <1>5, NatInd
  <2> HIDE DEF P
  <2> QED
    BY <2>1
<1>7. Upto(tasks, n) = N
  BY <1>2 DEF Upto
<1>8. Placing(b, p, N, N) /\ \A j \in 1 .. n : Ranks(b.k, p, Upto(tasks, j - 1), tasks[j])
  BY <1>3, <1>6, <1>7
<1> QED
  BY <1>8 DEF Placing, n

(* Nothing was added yet.                                                  *)
LEMMA NothingGrown ==
    ASSUME NEW a, NEW p, a.k = ko, WellPlaced(a)
    PROVE  Grows(a, p, {})
<1> DEFINE Q == {}
<1>1. Stays(ko, a.k) /\ Slots(a.k) = Slots(ko) \cup Q
  BY DEF Stays
<1>2. \A x, y : Before(ko, x, y) => Before(a.k, x, y)
  OBVIOUS
<1>3. \A e \in a.k.injected_by : e \in ko.injected_by \/ (e[2] = p /\ e[1] \in Q)
  <2>1. \A e \in a.k.injected_by : e \in ko.injected_by
    OBVIOUS
  <2> QED
    BY <2>1, Zenon
<1>4. \A e \in ko.injected_by : e[1] \in Slots(ko) \/ e[1] \notin Q => e \in a.k.injected_by
  OBVIOUS
<1>5. \A t \in Q \ Slots(ko) : \A h : <<t, h>> \in a.k.injected_by <=> h = p
  OBVIOUS
<1> HIDE DEF Q
<1>6. Grows(a, p, Q)
  BY <1>1, <1>2, <1>3, <1>4, <1>5 DEF Grows
<1> QED
  BY <1>6 DEF Q

(* The place of a parent, before any task of the entry has a slot.         *)
LEMMA FirstPlace ==
    ASSUME IInv, OInv, NEW p \in Task, p \in Slots(ko), NEW N, Siblings(p, N),
           NEW a, a = [k |-> ko, idx |-> IF p \in prog.prints THEN GroupEnd(ko, p) ELSE IndexOf(ko, p)]
    PROVE  Placing(a, p, N, {})
<1> DEFINE s == ko.slots
           n == Len(s)
           i == IndexOf(ko, p)
<1>1. /\ ko \in KState /\ IsInjective(s) /\ n \in Nat /\ DOMAIN s = 1 .. n /\ HasSlot(ko, p)
      /\ i \in 1 .. n /\ s[i] = p /\ prog \in Programs /\ Origins /\ Slots(ko) \subseteq Task
      /\ \A c \in 1 .. n : s[c] \in Slots(ko)
      /\ \A x \in Slots(ko) : \E c \in 1 .. n : s[c] = x
  <2>1. ko \in KState /\ IsInjective(s) /\ prog \in Programs
    BY SlotsTyped
  <2>2. Origins
    BY DEF IInv, LivesOK
  <2> QED
    BY <2>1, <2>2, SlotPlaces, SlotIndex
<1>2. PICK top \in 1 .. n :
          /\ GroupEnd(ko, p) = top + 1
          /\ top = i \/ DescendsFrom(ko, s[top], p)
          /\ \A j \in 1 .. n : j <= i \/ DescendsFrom(ko, s[j], p) => j <= top
  BY <1>1, GroupEndMax
<1>3. /\ a.k = ko /\ (p \in prog.prints => a.idx = top + 1) /\ (p \notin prog.prints => a.idx = i)
      /\ a.idx \in 1 .. n + 1
  <2>1. top + 1 \in 1 .. n + 1 /\ i \in 1 .. n + 1
    BY <1>1
  <2> QED
    BY <1>2, <2>1
<1>4. WellPlaced(a)
  BY <1>1, <1>3 DEF WellPlaced
<1>5. \A c \in 1 .. n : s[c] \in InFront(a) <=> c < a.idx
  BY <1>3, <1>4, FrontParts
<1>6. \A c, d \in 1 .. n : (Before(ko, s[c], s[d]) <=> c < d) /\ (s[c] = s[d] <=> c = d)
  <2>1. DOMAIN s \subseteq Nat
    BY <1>1
  <2> QED
    BY <1>1, <2>1, BeforePlaces
<1>7. Lived /\ Credited /\ Linked /\ Contiguous /\ Ranked(ko, printed, Defined)
  BY DEF OInv, Lived
<1> HIDE DEF s, n, i
<1>8. Grows(a, p, {})
  BY <1>3, <1>4, NothingGrown
<1>9. InOrder(ko)
  <2>1. OrderedBy(ko, Defined)
    BY <1>7 DEF Ranked
  <2>2. \A x, y : Before(ko, x, y) => <<x, y>> \in Defined
    BY <2>1 DEF OrderedBy, Before
  <2> QED
    BY <1>7, <2>2 DEF Contiguous, InOrder
<1>10. ASSUME p \notin prog.prints PROVE Anchors(a, p)
  <2>1. a.idx = i /\ ~(i < i)
    BY <1>1, <1>3, <1>10
  <2>2. p \in Slots(ko) /\ p \notin InFront(a)
    BY <1>1, <1>5, <2>1
  <2>3. ASSUME NEW y \in Slots(ko) \ InFront(a) PROVE y = p \/ Before(ko, p, y)
    <3>1. PICK c \in 1 .. n : s[c] = y
      BY <1>1
    <3>2. ~(c < i)
      BY <1>5, <2>1, <3>1
    <3>3. c = i \/ i < c
      BY <1>1, <3>2
    <3> QED
      BY <1>1, <1>6, <3>1, <3>3
  <2> QED
    BY <1>3, <2>2, <2>3 DEF Anchors
<1>11. ASSUME p \in prog.prints, NEW x \in Slots(ko), x = p \/ DescendsFrom(ko, x, p) PROVE x \in InFront(a)
  <2>1. PICK c \in 1 .. n : s[c] = x
    BY <1>1
  <2>2. c <= i \/ DescendsFrom(ko, s[c], p)
    BY <1>1, <1>6, <1>11, <2>1
  <2>3. c <= top
    BY <1>2, <2>2
  <2>4. c < a.idx
    BY <1>1, <1>3, <1>11, <2>3
  <2> QED
    BY <1>5, <2>1, <2>4
<1>12. ASSUME p \in prog.prints PROVE Behind(a, p, {})
  <2> SUFFICES ASSUME NEW x \in Slots(ko), <<x, p>> \in ko.injected_by PROVE x \in InFront(a)
    BY <1>3 DEF Behind
  <2>1. DescendsFrom(ko, x, p)
    <3> SUFFICES ASSUME NEW C \in SUBSET Task, \A e \in ko.injected_by : e[1] \in C \cup {x} => e[2] \in C
                 PROVE  p \in C
      BY DEF DescendsFrom
    <3>1. <<x, p>>[1] \in C \cup {x}
      OBVIOUS
    <3> QED
      BY <3>1
  <2> QED
    BY <1>11, <1>12, <2>1
<1>13. ASSUME p \in prog.prints, NEW u \in N, Settled(u) PROVE Gathers(a, p)
  <2>1. u \in Task /\ p \in Parents(u) \cap prog.prints
    BY <1>13 DEF Siblings
  <2>2. Settled(p)
    BY <1>1, <1>13, <2>1, SettledChild
  <2>3. p \in InFront(a)
    BY <1>11, <1>13
  <2>4. ASSUME NEW y \in Slots(ko), Settled(y), p \in Lineage(y) PROVE y \in InFront(a)
    <3>1. CASE y = p
      BY <2>3, <3>1
    <3>2. CASE y # p
      <4>0. y \in Task
        BY <1>1
      <4>1. \A b \in Lineage(y) : b \in Task /\ RunsOnce(b) /\ b \notin stranded
        BY <2>4, <4>0, SettledParts
      <4>2. PICK o \in Occ : o[2] = y /\ life[o] # "none"
        BY <1>7 DEF Lived, Owned
      <4>3. DescendsFrom(ko, y, p)
        <5> SUFFICES ASSUME NEW C \in SUBSET Task,
                            \A e \in ko.injected_by : e[1] \in C \cup {y} => e[2] \in C
                     PROVE  p \in C
          BY DEF DescendsFrom
        <5>1. ASSUME NEW b \in (C \cup {y}) \cap Lineage(y), NEW h \in Parents(b) PROVE h \in C
          <6>1. life[<<h, b>>] # "none"
            BY <1>1, <4>0, <4>1, <4>2, LineageOccurred
          <6>2. h \in Lineage(y) /\ h \in Task
            BY <4>0, <4>1, LineageParts
          <6>3. <<b, h>> \in ko.injected_by
            BY <1>7, <4>1, <6>1, <6>2 DEF Linked
          <6>4. <<b, h>>[1] = b /\ <<b, h>>[2] = h
            OBVIOUS
          <6> QED
            BY <6>3, <6>4
        <5>2. Lineage(y) \subseteq C \cup {y}
          <6>1. \A b \in (C \cup {y}) \cap Lineage(y) : Parents(b) \subseteq C \cup {y}
            BY <5>1
          <6> QED
            BY <4>0, <6>1, LineageWithin
        <5> QED
          BY <2>4, <3>2, <5>2
      <4> QED
        BY <1>11, <1>13, <4>3
    <3> QED
      BY <3>1, <3>2
  <2>5. ASSUME NEW y \in InFront(a), Settled(y), Before(ko, p, y) PROVE p \in Lineage(y)
    <3>1. y \in Slots(ko)
      BY <1>3, <1>4, FrontParts
    <3>2. PICK c \in 1 .. n : s[c] = y
      BY <1>1, <3>1
    <3>3. i < c /\ c <= top
      <4>1. i < c
        BY <1>1, <1>6, <2>5, <3>2
      <4>2. c < top + 1
        BY <1>3, <1>5, <1>13, <3>2
      <4> QED
        BY <1>1, <4>1, <4>2
    <3> DEFINE z == s[top]
    <3>4. z \in Slots(ko) /\ z \in Task /\ DescendsFrom(ko, z, p)
      <4>1. top # i
        BY <1>1, <3>3
      <4> QED
        BY <1>1, <1>2, <4>1
    <3>5. y \in Task
      BY <1>1, <3>1
    <3> HIDE DEF z
    <3>6. ASSUME NEW e \in ko.injected_by, e[1] \in Lineage(z)
          PROVE  /\ e = <<e[1], e[2]>> /\ e[1] \in Task /\ e[2] \in Task
                 /\ life[<<e[2], e[1]>>] # "none" /\ e[2] \in Lineage(z)
      <4>1. e = <<e[1], e[2]>> /\ e[1] \in Task /\ e[2] \in Task
        BY <1>1, KParts
      <4>2. life[<<e[2], e[1]>>] # "none"
        BY <1>7 DEF Credited
      <4>3. <<e[2], e[1]>> \in Occ
        BY <4>1 DEF Occ
      <4>4. NamedBy(prog, e[2], e[1])
        BY <1>1, <4>2, <4>3 DEF Origins
      <4>5. e[2] \in Parents(e[1])
        BY <4>1, <4>4 DEF Parents
      <4> QED
        BY <3>4, <3>6, <4>1, <4>2, <4>5, LineageParts
    <3>7. z \in Lineage(z) /\ Lineage(z) \subseteq Task
      BY <3>4, LineageParts
    <3>8. p \in Lineage(z)
      <4>1. Lineage(z) \in SUBSET Task /\ Lineage(z) \cup {z} = Lineage(z)
        BY <3>7
      <4>2. \A e \in ko.injected_by : e[1] \in Lineage(z) \cup {z} => e[2] \in Lineage(z)
        BY <3>6, <4>1
      <4> QED
        BY <3>4, <4>1, <4>2 DEF DescendsFrom
    <3>9. PICK e \in ko.injected_by : e[1] \in Lineage(z) /\ e[2] = p
      <4> DEFINE C == Lineage(z) \ {p}
      <4>1. C \in SUBSET Task /\ p \notin C /\ C \cup {z} \subseteq Lineage(z)
        BY <3>7
      <4> HIDE DEF C
      <4>2. PICK e \in ko.injected_by : e[1] \in C \cup {z} /\ e[2] \notin C
        BY <3>4, <4>1 DEF DescendsFrom
      <4>3. e[1] \in Lineage(z)
        BY <4>1, <4>2
      <4>4. e[2] \in Lineage(z)
        BY <3>6, <4>3
      <4>5. e[2] = p
        BY <4>2, <4>4 DEF C
      <4> QED
        BY <4>3, <4>5
    <3>10. NamedBefore(p, e[1], u) /\ e[1] \in Task
      <4>1. e[1] \in Task /\ life[<<p, e[1]>>] # "none"
        BY <3>6, <3>9
      <4> QED
        BY <1>13, <4>1 DEF Siblings
    <3>11. Settled(z)
      BY <1>1, <1>13, <2>1, <3>4, <3>9, <3>10, EarlierSettled
    <3>12. CASE c = top
      BY <3>2, <3>8, <3>12 DEF z
    <3>13. CASE c < top
      <4>1. Before(ko, y, z)
        BY <1>6, <3>2, <3>13 DEF z
      <4> QED
        BY <1>7, <1>13, <2>5, <3>4, <3>5, <3>8, <3>11, <4>1 DEF Contiguous
    <3> QED
      BY <1>1, <3>3, <3>12, <3>13
  <2> QED
    BY <1>3, <2>3, <2>4, <2>5 DEF Gathers
<1> QED
  BY <1>3, <1>8, <1>9, <1>10, <1>12, <1>13 DEF Placing

(***************************************************************************)
(* What insert_injected_tasks leaves: the slots of the entry beside those  *)
(* there were, in order.                                                   *)
(***************************************************************************)
Joined(k, p, tasks) ==
    LET N == ToSet(tasks) IN
    /\ k \in KState /\ IsInjective(k.slots) /\ Stays(ko, k) /\ Slots(k) = Slots(ko) \cup N
    /\ \A x, y : Before(ko, x, y) => Before(k, x, y)
    /\ InOrder(k)
    /\ \A e \in k.injected_by : e \in ko.injected_by \/ (e[2] = p /\ e[1] \in N)
    /\ \A e \in ko.injected_by : e[1] \in Slots(ko) \/ e[1] \notin N => e \in k.injected_by
    /\ p \in Slots(ko) =>
          /\ \A t \in N \ Slots(ko) : \A h : <<t, h>> \in k.injected_by <=> h = p
          /\ \A j \in 1 .. Len(tasks) : Ranks(k, p, Upto(tasks, j - 1), tasks[j])

(* The parent has a slot.                                                  *)
LEMMA JoinedParent ==
    ASSUME IInv, OInv, NEW p \in Task, p \in Slots(ko), NEW tasks \in Seq(Task),
           Siblings(p, ToSet(tasks)), InSequence(p, tasks), NEW k, k = InsertInjectedTasks(ko, p, tasks)
    PROVE  Joined(k, p, tasks)
<1> DEFINE N == ToSet(tasks)
           after == p \in prog.prints
           a == [k |-> ko, idx |-> IF after THEN GroupEnd(ko, p) ELSE IndexOf(ko, p)]
           b == InsertFrom(a, p, after, tasks)
<1>1. HasSlot(ko, p)
  BY SlotsTyped, SlotPlaces
<1>2. k = b.k
  BY <1>1 DEF InsertInjectedTasks
<1>3. Placing(a, p, N, {})
  BY FirstPlace
<1>4. Lived
  BY DEF OInv
<1> HIDE DEF a, N
<1>5. b = InsertFrom(a, p, after, tasks) /\ N = ToSet(tasks) /\ Siblings(p, N)
  BY DEF N
<1> HIDE DEF b
<1>6. /\ Grows(b, p, N) /\ InOrder(b.k)
      /\ \A j \in 1 .. Len(tasks) : Ranks(b.k, p, Upto(tasks, j - 1), tasks[j])
  BY <1>3, <1>4, <1>5, PlaceAll
<1> HIDE DEF after
<1> QED
  BY <1>2, <1>6 DEF Joined, Grows, WellPlaced, N

(* The parent lost its slot: the tasks get theirs at the end.              *)
LEMMA JoinedEnd ==
    ASSUME IInv, OInv, NEW p \in Task, p \notin Slots(ko), p \in stranded, NEW tasks \in Seq(Task),
           Siblings(p, ToSet(tasks)), NEW k, k = InsertInjectedTasks(ko, p, tasks)
    PROVE  Joined(k, p, tasks)
<1> DEFINE n == Len(tasks)
           N == ToSet(tasks)
           R == {r \in Task \X Task : Before(ko, r[1], r[2]) \/ r[2] \notin Slots(ko)}
<1>1. n \in Nat /\ DOMAIN tasks = 1 .. n /\ \A i \in 1 .. n : tasks[i] \in Task /\ tasks[i] \in N
  BY LenProperties, ElementOfSeq, InToSet
<1>2. \A x : x \in N <=> \E i \in 1 .. n : tasks[i] = x
  BY InToSet
<1>3. ko \in KState /\ IsInjective(ko.slots) /\ prog \in Programs /\ Slots(ko) \subseteq Task
  BY SlotsTyped, SlotPlaces
<1>4. k = InitTasks(ko, tasks)
  <2>1. ~HasSlot(ko, p)
    BY <1>3, SlotPlaces
  <2> QED
    BY <2>1 DEF InsertInjectedTasks
<1>5. \A t \in N : t \in Task /\ ~Settled(t)
  <2> SUFFICES ASSUME NEW t \in N PROVE t \in Task /\ ~Settled(t)
    OBVIOUS
  <2>1. t \in Task /\ p \in Parents(t)
    BY DEF Siblings
  <2> QED
    BY <1>3, <2>1, SettledChild
<1> HIDE DEF n, N
<1>6. PICK f : Inited(f, ko, tasks, n) /\ InitTasks(ko, tasks) = f[n]
  BY <1>1, FoldInitTask
<1>7. Ranked(ko, <<>>, R)
  <2>1. OrderedBy(ko, R)
    <3> SUFFICES ASSUME NEW i \in DOMAIN ko.slots, NEW j \in DOMAIN ko.slots, i < j
                 PROVE  <<ko.slots[i], ko.slots[j]>> \in R
      BY DEF OrderedBy
    <3>1. ko.slots[i] \in Task /\ ko.slots[j] \in Task
      BY <1>3, SlotPlaces
    <3>2. Before(ko, ko.slots[i], ko.slots[j])
      BY DEF Before
    <3> QED
      BY <3>1, <3>2
  <2> HIDE DEF R
  <2> QED
    BY <2>1, SlotsRanked
<1> DEFINE P(i) == /\ f[i] \in KState /\ IsInjective(f[i].slots) /\ Stays(ko, f[i])
                   /\ Slots(f[i]) = Slots(ko) \cup Upto(tasks, i)
                   /\ f[i].injected_by = ko.injected_by /\ Ranked(f[i], <<>>, R)
           Good == {i \in 0 .. n : P(i)}
<1>8. 0 \in Good
  <2>1. f[0] = ko
    BY <1>6 DEF Inited
  <2>2. Upto(tasks, 0) = {}
    BY DEF Upto
  <2>3. Stays(ko, ko)
    BY DEF Stays
  <2> HIDE DEF R
  <2>4. P(0)
    BY <1>3, <1>7, <2>1, <2>2, <2>3
  <2> HIDE DEF P
  <2> QED
    BY <1>1, <2>4
<1>9. ASSUME NEW i \in 0 .. n - 1, i \in Good
      PROVE  i + 1 \in Good
  <2>1. i \in Nat /\ i + 1 \in 1 .. n /\ i + 1 \in 0 .. n /\ (i + 1) - 1 = i
    BY <1>1
  <2> DEFINE g == f[i]
             h == f[i + 1]
             u == tasks[i + 1]
  <2>2. h = InitTask(g, u) /\ u \in Task
    BY <1>1, <1>6, <2>1 DEF Inited
  <2>3. Upto(tasks, i + 1) = Upto(tasks, i) \cup {u}
    <3>1. 1 .. i + 1 = (1 .. i) \cup {i + 1}
      BY <2>1
    <3> QED
      BY <3>1 DEF Upto
  <2>4. /\ g \in KState /\ IsInjective(g.slots) /\ Stays(ko, g) /\ Slots(g) = Slots(ko) \cup Upto(tasks, i)
        /\ g.injected_by = ko.injected_by /\ Ranked(g, <<>>, R)
    BY <1>9
  <2>5. \A x \in Task : u \notin Slots(ko) => <<x, u>> \in R
    BY <2>2
  <2> HIDE DEF g, h, u, R
  <2>6. Accepts(g, u, R)
    BY <2>4, <2>5, SlotIndex DEF Accepts
  <2>7. <<>> \in Seq(Line)
    OBVIOUS
  <2>8. Ranked(h, <<>>, R)
    BY <2>2, <2>4, <2>6, <2>7, InitRanked
  <2>9. /\ h \in KState /\ IsInjective(h.slots) /\ Slots(h) = Slots(g) \cup {u}
        /\ h.injected_by = g.injected_by /\ Stays(g, h)
    BY <2>2, <2>4, InitKeeps DEF Stays
  <2>10. Stays(ko, h)
    BY <2>4, <2>9 DEF Stays
  <2>11. Slots(h) = Slots(ko) \cup Upto(tasks, i + 1)
    BY <2>3, <2>4, <2>9
  <2>12. P(i + 1)
    BY <2>4, <2>8, <2>9, <2>10, <2>11 DEF h
  <2> HIDE DEF P
  <2> QED
    BY <2>1, <2>12
<1>10. P(n)
  <2>1. n \in Good
    <3> HIDE DEF Good
    <3> QED
      BY <1>1, <1>8, <1>9, NatInd
  <2> HIDE DEF P
  <2> QED
    BY <2>1
<1>11. Upto(tasks, n) = N
  BY <1>2 DEF Upto
<1>12. /\ k \in KState /\ IsInjective(k.slots) /\ Stays(ko, k) /\ Slots(k) = Slots(ko) \cup N
       /\ k.injected_by = ko.injected_by /\ OrderedBy(k, R)
  <2> HIDE DEF R
  <2> QED
    BY <1>4, <1>6, <1>10, <1>11 DEF Ranked
<1>13. ASSUME NEW x, NEW y, Before(k, x, y)
       PROVE  x \in Slots(k) /\ y \in Slots(k) /\ x \in Task /\ y \in Task /\ (Before(ko, x, y) \/ y \notin Slots(ko))
  <2>1. <<x, y>> \in R
    BY <1>12, <1>13 DEF OrderedBy, Before
  <2>2. x \in Slots(k) /\ y \in Slots(k)
    BY <1>12, <1>13, BeforeLine
  <2> QED
    BY <2>1, <2>2
<1> HIDE DEF R
<1>14. ASSUME NEW x, NEW y, Before(ko, x, y) PROVE Before(k, x, y)
  <2>1. x \in Slots(ko) /\ y \in Slots(ko) /\ x # y /\ ~Before(ko, y, x)
    BY <1>3, <1>14, BeforeLine
  <2>2. ~Before(k, y, x)
    BY <1>13, <2>1
  <2> QED
    BY <1>12, <2>1, <2>2, BeforeLine
<1>15. ASSUME NEW x, NEW y, Before(k, x, y), Settled(y) PROVE Before(ko, x, y)
  BY <1>5, <1>12, <1>13, <1>15
<1>16. InOrder(k)
  <2>1. ASSUME NEW x, NEW y, Before(k, x, y) PROVE <<x, y>> \in Defined
    <3>1. CASE Settled(y)
      <4>1. Before(ko, x, y)
        BY <1>15, <2>1, <3>1
      <4>2. OrderedBy(ko, Defined)
        BY DEF OInv, Ranked
      <4> QED
        BY <4>1, <4>2 DEF OrderedBy, Before
    <3>2. CASE ~Settled(y)
      BY <1>13, <2>1, <3>2 DEF Defined
    <3> QED
      BY <3>1, <3>2
  <2>2. ASSUME NEW q \in Task, NEW y \in Task, NEW z \in Task, Before(k, q, y), Before(k, y, z),
               q \in prog.prints, q \in Lineage(z), Settled(y), Settled(z)
        PROVE  q \in Lineage(y)
    BY <1>15, <2>2 DEF OInv, Contiguous
  <2> QED
    BY <2>1, <2>2 DEF InOrder
<1> QED
  BY <1>12, <1>14, <1>16 DEF Joined, N

(* What is on the terminal is ahead of the new slots.                      *)
LEMMA JoinedFollows ==
    ASSUME IInv, OInv, NEW p \in Task, p \in Slots(ko) \cup stranded,
           NEW o \in Occ, o[2] = p, life[o] = "running", NEW N, Siblings(p, N)
    PROVE  Follows(Slots(ko) \cup N, printed, Defined)
<1>1. prog \in Programs /\ Origins /\ Printers
  BY DEF IInv, Types, LivesOK
<1>2. Follows(Slots(ko), printed, Defined)
  <2>1. Follows(Slots(ko), printed \o ko.out, Defined)
    BY DEF OInv, Ranked
  <2>2. printed \o ko.out = printed
    BY SlotsTyped, ConcatEmptySeq
  <2> QED
    BY <2>1, <2>2
<1>3. ASSUME NEW i \in DOMAIN printed, NEW t \in N PROVE Related(Defined, printed[i][1], t)
  <2> DEFINE x == printed[i][1]
  <2>1. x \in Task /\ lines[x] > 0
    BY PrintedBegan
  <2>2. t \in Task /\ p \in Parents(t)
    BY DEF Siblings
  <2>3. Related(Defined, x, p) \/ p \notin Slots(ko)
    BY <1>2 DEF Follows
  <2>4. PICK q \in Occ : q[2] = x /\ life[q] # "none"
    BY <1>1, <2>1 DEF Printers
  <2> HIDE DEF x
  <2> SUFFICES ASSUME Settled(x), Settled(t) PROVE Ahead(x, t)
    BY <2>1, <2>2 DEF Related, Defined, x
  <2>5. Settled(p) /\ RunsOnce(t) /\ p \notin stranded
    BY <1>1, <2>2, SettledChild
  <2>6. x = p \/ Ahead(x, p)
    BY <2>3, <2>5 DEF Related, Defined
  <2>7. x = p => p \in prog.prints
    <3> SUFFICES ASSUME x = p, p \notin prog.prints PROVE FALSE
      OBVIOUS
    <3>1. PICK r \in Occ : r[2] = p /\ life[r] \in {"failed", "over"}
      BY <1>1, <2>1 DEF Printers
    <3>2. prog.entries[p] # <<>>
      BY <1>1, <2>2, NamesOf DEF Parents
    <3>3. r = o
      BY <1>1, <3>1, <3>2, OneOccurrence
    <3> QED
      BY <3>1, <3>3
  <2>8. p \in Lineage(x) /\ x # p => \E s \in Lineage(x) : p \in Home(s) /\ NamedBefore(p, s, t)
    <3> SUFFICES ASSUME p \in Lineage(x), x # p
                 PROVE  \E s \in Lineage(x) : p \in Home(s) /\ NamedBefore(p, s, t)
      OBVIOUS
    <3> DEFINE Q == {}
    <3>1. Q \subseteq N /\ (\A v \in Q : NamedBefore(p, v, t))
          /\ (x \in Q \/ \E c \in Occ : c[2] = x /\ life[c] # "none")
      BY <2>4
    <3> HIDE DEF Q
    <3> QED
      BY <2>1, <3>1, EarlierSibling
  <2> QED
    BY <1>1, <2>1, <2>2, <2>5, <2>6, <2>7, <2>8, AheadOfChild
<1> QED
  BY <1>2, <1>3 DEF Follows

(* The lives after an entry was injected.                                  *)
Injects(p, tasks, k) ==
    /\ prog' = prog /\ known' = known /\ printed' = printed /\ stranded' = stranded
    /\ stopping' = stopping
    /\ entry' = [entry EXCEPT ![p] = @ + 1] /\ entry[p] + 1 <= Len(prog.entries[p])
    /\ \A q \in Occ : life[q] # "none" => life'[q] = life[q]
    /\ \A q \in Occ : life[q] = "none" =>
          IF q[1] = p /\ q[2] \in ToSet(tasks) THEN life'[q] = "waiting" ELSE life'[q] = "none"
    /\ \A x \in DOMAIN prog.entries[p][entry[p] + 1] :
          LET t == prog.entries[p][entry[p] + 1][x] IN
          t \in ToSet(tasks) \/ t \in known[p] \/ life[<<p, t>>] # "none"
    /\ \A t \in ToSet(tasks) :
          \E x \in DOMAIN prog.entries[p][entry[p] + 1] : prog.entries[p][entry[p] + 1][x] = t
    /\ ko' \in KState /\ ko'.slots = k.slots /\ ko'.injected_by = k.injected_by

(* An Inject step: the tasks it selects, the slots it gives them, and what *)
(* it changes.                                                             *)
LEMMA InjectSteps ==
    ASSUME IInv, OInv, NEW o \in Occ, Inject(o)
    PROVE  \E tasks, k :
               /\ tasks \in Seq(Task) /\ Siblings(o[2], ToSet(tasks)) /\ InSequence(o[2], tasks)
               /\ Joined(k, o[2], tasks) /\ Injects(o[2], tasks, k)
               /\ o[2] \in Slots(ko) \cup stranded /\ life[o] = "running" /\ o[2] \in Task
<1> DEFINE p == o[2]
           fresh == {t \in Task : t \notin known[p] /\ life[<<p, t>>] = "none"}
           e == prog.entries[p][entry[p] + 1]
           tasks == Among(e, fresh)
           N == ToSet(tasks)
           l == [q \in Occ |-> IF q[1] = p /\ Contains(tasks, q[2]) THEN "waiting" ELSE life[q]]
           k == InsertInjectedTasks(ko, p, tasks)
<1>1. /\ life[o] = "running" /\ entry[p] < Len(prog.entries[p])
      /\ entry' = [entry EXCEPT ![p] = @ + 1] /\ Commit(k, l, stopping)
      /\ prog' = prog /\ known' = known
  BY DEF Inject, Free
<1>2. /\ p \in Task /\ entry \in [Task -> Nat] /\ prog \in Programs /\ entry[p] \in Nat
      /\ life \in [Occ -> Life] /\ stopping \in BOOLEAN /\ printed \in Seq(Line) /\ stranded \subseteq Task
  BY OccParts DEF IInv, Types, Life
<1>3. Entered(p) /\ Placed
  BY <1>2 DEF OInv, Lived
<1>4. /\ entry[p] + 1 <= Len(prog.entries[p]) /\ e \in Seq(Task) /\ DOMAIN e = 1 .. Len(e)
      /\ \A x \in DOMAIN e : e[x] \in Task
  <2>1. Len(prog.entries[p]) \in Nat
    BY <1>2, EntryParts
  <2>2. entry[p] + 1 \in 1 .. Len(prog.entries[p]) /\ entry[p] + 1 <= Len(prog.entries[p])
    BY <1>1, <1>2, <2>1
  <2> QED
    BY <1>2, <2>2, EntryParts
<1>5. tasks \in Seq(Task) /\ Siblings(p, N) /\ InSequence(p, tasks)
  <2> HIDE DEF p, e, fresh, tasks
  <2>1. /\ p \in Task /\ Entered(p) /\ entry[p] \in Nat /\ entry[p] < Len(prog.entries[p])
        /\ e = prog.entries[p][entry[p] + 1]
        /\ fresh = {t \in Task : t \notin known[p] /\ life[<<p, t>>] = "none"}
        /\ tasks = Among(e, fresh)
    BY <1>1, <1>2, <1>3 DEF e, fresh, tasks
  <2> QED
    BY <1>2, <2>1, Offered
<1>6. \A x : x \in N <=> x \in ToSet(e) /\ x \in fresh
  <2> HIDE DEF e, fresh
  <2> QED
    BY <1>4, AmongProperties
<1>7. \A x : x \in ToSet(e) <=> \E i \in DOMAIN e : e[i] = x
  <2> HIDE DEF e
  <2> QED
    BY <1>4, InToSet
<1>8. p \in Slots(ko) \cup stranded
  <2>1. o \in Alive(life, p) /\ life[o] # "waiting"
    BY <1>1 DEF Alive
  <2>2. p \in CanPrint(life, stopping)
    BY <1>2, <2>1 DEF CanPrint
  <2> QED
    BY <1>3, <2>2 DEF Placed
<1>9. \A x \in DOMAIN e : e[x] \in N \/ e[x] \in known[p] \/ life[<<p, e[x]>>] # "none"
  <2> SUFFICES ASSUME NEW x \in DOMAIN e, e[x] \notin known[p], life[<<p, e[x]>>] = "none" PROVE e[x] \in N
    OBVIOUS
  <2>1. e[x] \in fresh
    BY <1>4
  <2>2. e[x] \in ToSet(e)
    BY <1>7
  <2> HIDE DEF e, fresh, N
  <2> QED
    BY <1>6, <2>1, <2>2
<1>10. \A t \in N : \E x \in DOMAIN e : e[x] = t
  BY <1>6, <1>7
<1> HIDE DEF e, fresh, tasks
<1>11. Joined(k, p, tasks)
  <2>1. CASE p \in Slots(ko)
    BY <1>2, <1>5, <2>1, JoinedParent
  <2>2. CASE p \notin Slots(ko)
    BY <1>2, <1>5, <1>8, <2>2, JoinedEnd
  <2> QED
    BY <2>1, <2>2
<1>12. \A t : Contains(tasks, t) <=> t \in N
  BY <1>5, InToSet
<1>13. \A t \in N : t \in Task /\ life[<<p, t>>] = "none"
  BY <1>5 DEF Siblings
<1> HIDE DEF k
<1>14. k \in KState /\ k.out = <<>> /\ k.finished = ko.finished /\ Slots(k) = Slots(ko) \cup N
  BY <1>11, SlotsTyped DEF Joined, Stays
<1> HIDE DEF N, p
<1>15. life' = l /\ stopping' = stopping /\ printed' = printed \o k.out /\ ko' = [k EXCEPT !.out = <<>>]
  BY <1>1 DEF Commit
<1>16. printed' = printed
  BY <1>2, <1>14, <1>15, ConcatEmptySeq
<1>17. ko' \in KState /\ ko'.slots = k.slots /\ ko'.injected_by = k.injected_by
  <2>1. <<>> \in Seq(Line)
    OBVIOUS
  <2> QED
    BY <1>14, <1>15, <2>1 DEF KState
<1>18. stranded' = stranded
  <2>1. \A t \in Task : ~(HasSlot(ko, t) /\ ~HasSlot(k, t)) /\ t \notin k.finished \ ko.finished
    <3>1. ko \in KState
      BY SlotsTyped
    <3> QED
      BY <1>14, <3>1, SlotIndex
  <2>2. {t \in Task :
              /\ (HasSlot(ko, t) /\ ~HasSlot(k, t)) \/ t \in k.finished \ ko.finished
              /\ \E q \in Alive(l, t) : l[q] # "waiting" \/ ~stopping} = {}
    <3> HIDE DEF l
    <3> QED
      BY <2>1
  <2> HIDE DEF l
  <2> QED
    BY <1>1, <2>2 DEF Commit
<1>19. /\ \A q \in Occ : life[q] # "none" => life'[q] = life[q]
       /\ \A q \in Occ : life[q] = "none" =>
              IF q[1] = p /\ q[2] \in N THEN life'[q] = "waiting" ELSE life'[q] = "none"
  <2>1. \A q \in Occ : q[1] = p /\ Contains(tasks, q[2]) => life[q] = "none" /\ q[2] \in N
    BY <1>12, <1>13, OccParts
  <2> QED
    BY <1>12, <1>15, <2>1
<1>20. Injects(p, tasks, k)
  <2> HIDE DEF l
  <2>1. /\ prog' = prog /\ known' = known /\ printed' = printed /\ stranded' = stranded
        /\ stopping' = stopping
        /\ entry' = [entry EXCEPT ![p] = @ + 1] /\ entry[p] + 1 <= Len(prog.entries[p])
    BY <1>1, <1>4, <1>15, <1>16, <1>18
  <2>2. /\ \A x \in DOMAIN prog.entries[p][entry[p] + 1] :
              LET t == prog.entries[p][entry[p] + 1][x] IN
              t \in ToSet(tasks) \/ t \in known[p] \/ life[<<p, t>>] # "none"
        /\ \A t \in ToSet(tasks) :
              \E x \in DOMAIN prog.entries[p][entry[p] + 1] : prog.entries[p][entry[p] + 1][x] = t
    BY <1>9, <1>10 DEF e, N
  <2> QED
    BY <1>17, <1>19, <2>1, <2>2 DEF Injects, N
<1>21. /\ tasks \in Seq(Task) /\ Siblings(p, ToSet(tasks)) /\ InSequence(p, tasks)
       /\ Joined(k, p, tasks) /\ Injects(p, tasks, k)
       /\ p \in Slots(ko) \cup stranded /\ life[o] = "running" /\ p \in Task
  BY <1>1, <1>2, <1>5, <1>8, <1>11, <1>20 DEF N
<1> HIDE DEF tasks, k
<1> QED
  BY <1>21 DEF p

(* The lives that the order rests on.                                      *)
LEMMA InjectLived ==
    ASSUME IInv, Lived, NEW p \in Task, NEW o \in Occ, o[2] = p, life[o] = "running",
           p \in Slots(ko) \cup stranded, NEW tasks \in Seq(Task), Siblings(p, ToSet(tasks)),
           NEW k, Joined(k, p, tasks), Injects(p, tasks, k)
    PROVE  Lived'
<1> DEFINE N == ToSet(tasks)
<1>1. /\ prog' = prog /\ known' = known /\ stranded' = stranded /\ stopping' = stopping
      /\ entry' = [entry EXCEPT ![p] = @ + 1] /\ entry[p] + 1 <= Len(prog.entries[p])
      /\ \A q \in Occ : life[q] # "none" => life'[q] = life[q]
      /\ \A q \in Occ : life[q] = "none" =>
            IF q[1] = p /\ q[2] \in N THEN life'[q] = "waiting" ELSE life'[q] = "none"
      /\ ko'.injected_by = k.injected_by /\ Slots(ko') = Slots(k)
  BY DEF Injects, Slots
<1>2. /\ Slots(k) = Slots(ko) \cup N
      /\ \A e \in k.injected_by : e \in ko.injected_by \/ (e[2] = p /\ e[1] \in N)
      /\ \A e \in ko.injected_by : e[1] \in Slots(ko) \/ e[1] \notin N => e \in k.injected_by
      /\ p \in Slots(ko) => \A t \in N \ Slots(ko) : \A h : <<t, h>> \in k.injected_by <=> h = p
      /\ k \in KState
  BY DEF Joined
<1>3. /\ prog \in Programs /\ Origins /\ entry \in [Task -> Nat] /\ life \in [Occ -> Life]
      /\ Placed /\ Owned /\ Credited /\ Linked /\ \A q \in Task : Entered(q)
  BY DEF IInv, Types, LivesOK, Life, Lived
<1>4. \A t \in N : t \in Task /\ p \in Parents(t) /\ life[<<p, t>>] = "none" /\ <<p, t>> \in Occ
  BY DEF Siblings, Occ
<1> HIDE DEF N
<1>5. \A t \in N : life'[<<p, t>>] = "waiting"
  <2> SUFFICES ASSUME NEW t \in N PROVE life'[<<p, t>>] = "waiting"
    OBVIOUS
  <2>1. <<p, t>>[1] = p /\ <<p, t>>[2] = t /\ <<p, t>> \in Occ /\ life[<<p, t>>] = "none"
    BY <1>4
  <2> QED
    BY <1>1, <2>1
<1>6. \A h, t \in Task : /\ <<h, t>> \in Occ
                         /\ life[<<h, t>>] # "none" => life'[<<h, t>>] # "none"
                         /\ life'[<<h, t>>] # "none" => life[<<h, t>>] # "none" \/ (h = p /\ t \in N)
  <2> SUFFICES ASSUME NEW h \in Task, NEW t \in Task
               PROVE  /\ <<h, t>> \in Occ
                      /\ life[<<h, t>>] # "none" => life'[<<h, t>>] # "none"
                      /\ life'[<<h, t>>] # "none" => life[<<h, t>>] # "none" \/ (h = p /\ t \in N)
    OBVIOUS
  <2>1. <<h, t>> \in Occ /\ <<h, t>>[1] = h /\ <<h, t>>[2] = t
    BY DEF Occ
  <2> QED
    BY <1>1, <2>1
<1>7. Placed'
  <2> SUFFICES ASSUME NEW t \in CanPrint(life', stopping'), t \notin N PROVE t \in Slots(ko) \cup stranded
    BY <1>1, <1>2 DEF Placed
  <2>1. PICK q \in Alive(life', t) : life'[q] # "waiting" \/ ~stopping
    BY <1>1 DEF CanPrint
  <2>2. t \in Task /\ q \in Occ /\ q[2] = t /\ life'[q] \in {"waiting", "starting", "running", "failed"}
    BY <2>1 DEF CanPrint, Alive
  <2>3. life'[q] = life[q]
    BY <1>1, <2>2
  <2>4. q \in Alive(life, t)
    BY <2>2, <2>3 DEF Alive
  <2>5. t \in CanPrint(life, stopping)
    BY <2>1, <2>2, <2>3, <2>4 DEF CanPrint
  <2> QED
    BY <1>3, <2>5 DEF Placed
<1>8. Owned'
  <2> SUFFICES ASSUME NEW t \in Slots(ko) \cup N PROVE \E q \in Occ : q[2] = t /\ life'[q] # "none"
    BY <1>1, <1>2 DEF Owned
  <2>1. CASE t \in Slots(ko)
    <3>1. PICK q \in Occ : q[2] = t /\ life[q] # "none"
      BY <1>3, <2>1 DEF Owned
    <3> QED
      BY <1>1, <3>1
  <2>2. CASE t \in N
    <3>1. <<p, t>> \in Occ /\ <<p, t>>[2] = t /\ life'[<<p, t>>] # "none"
      BY <1>4, <1>5, <2>2
    <3> QED
      BY <3>1
  <2> QED
    BY <2>1, <2>2
<1>9. Credited'
  <2> SUFFICES ASSUME NEW e \in k.injected_by PROVE life'[<<e[2], e[1]>>] # "none"
    BY <1>1 DEF Credited
  <2>1. e[1] \in Task /\ e[2] \in Task
    BY <1>2, KParts
  <2>2. CASE e \in ko.injected_by
    BY <1>3, <1>6, <2>1, <2>2 DEF Credited
  <2>3. CASE e[2] = p /\ e[1] \in N
    BY <1>5, <2>3
  <2> QED
    BY <1>2, <2>2, <2>3
<1>10. Linked'
  <2>1. \A t : RunsOnce(t)' = RunsOnce(t)
    BY <1>1, SameProgram
  <2> SUFFICES ASSUME NEW h \in Task, NEW t \in Task, RunsOnce(t), life'[<<h, t>>] # "none"
               PROVE  <<t, h>> \in k.injected_by \/ h \in stranded
    BY <1>1, <2>1 DEF Linked
  <2>2. t \in N => \A q \in Occ : q[2] = t => life[q] = "none"
    BY Unborn DEF N
  <2>3. CASE life[<<h, t>>] # "none"
    <3>1. t \notin N
      <4>1. <<h, t>> \in Occ /\ <<h, t>>[2] = t
        BY <1>6
      <4> QED
        BY <2>2, <2>3, <4>1
    <3>2. <<t, h>> \in ko.injected_by \/ h \in stranded
      BY <1>3, <2>3 DEF Linked
    <3>3. <<t, h>>[1] = t
      OBVIOUS
    <3> QED
      BY <1>2, <3>1, <3>2, <3>3
  <2>4. CASE h = p /\ t \in N
    <3>1. t \notin Slots(ko)
      BY <2>4, Unborn DEF N
    <3> QED
      BY <1>2, <2>4, <3>1
  <2> QED
    BY <1>6, <2>3, <2>4
<1>11. ASSUME NEW r \in Task PROVE Entered(r)'
  <2> DEFINE s == prog.entries[r]
             n == entry[r]
  <2>1. Len(s) \in Nat /\ \A m \in 1 .. Len(s) : \A x \in DOMAIN s[m] : s[m][x] \in Task
    BY <1>3, EntryParts
  <2>2. /\ n \in Nat /\ n <= Len(s)
        /\ n > 0 => \E q \in Occ : q[2] = r /\ life[q] \in {"running", "failed", "over"}
        /\ \A m \in 1 .. n : \A x \in DOMAIN s[m] : life[<<r, s[m][x]>>] # "none" \/ s[m][x] \in known[r]
        /\ \A t \in Task : life[<<r, t>>] # "none" => \E m \in 1 .. n : \E x \in DOMAIN s[m] : s[m][x] = t
    BY <1>3 DEF Entered
  <2>3. entry'[r] = IF r = p THEN n + 1 ELSE n
    BY <1>1, <1>3
  <2>4. r = p => /\ n + 1 <= Len(s)
                 /\ \A x \in DOMAIN s[n + 1] : s[n + 1][x] \in N \/ s[n + 1][x] \in known[p]
                                               \/ life[<<p, s[n + 1][x]>>] # "none"
                 /\ \A t \in N : \E x \in DOMAIN s[n + 1] : s[n + 1][x] = t
    BY DEF Injects, N
  <2> HIDE DEF s, n
  <2>5. entry'[r] <= Len(s) /\ \A m \in 1 .. entry'[r] : m \in 1 .. Len(s) /\ (m \in 1 .. n \/ (r = p /\ m = n + 1))
    BY <2>1, <2>2, <2>3, <2>4
  <2>6. entry'[r] > 0 => \E q \in Occ : q[2] = r /\ life'[q] \in {"running", "failed", "over"}
    <3>1. CASE r = p
      <4>1. life'[o] = "running"
        BY <1>1
      <4> QED
        BY <3>1, <4>1
    <3>2. CASE r # p
      BY <1>1, <2>2, <2>3, <3>2
    <3> QED
      BY <3>1, <3>2
  <2>7. ASSUME NEW m \in 1 .. entry'[r], NEW x \in DOMAIN s[m]
        PROVE  life'[<<r, s[m][x]>>] # "none" \/ s[m][x] \in known[r]
    <3>1. s[m][x] \in Task
      BY <2>1, <2>5
    <3>2. CASE m \in 1 .. n
      BY <1>6, <2>2, <3>1, <3>2
    <3>3. CASE r = p /\ m = n + 1
      BY <1>5, <1>6, <2>4, <3>1, <3>3
    <3> QED
      BY <2>5, <3>2, <3>3
  <2>8. ASSUME NEW t \in Task, life'[<<r, t>>] # "none"
        PROVE  \E m \in 1 .. entry'[r] : \E x \in DOMAIN s[m] : s[m][x] = t
    <3>1. CASE life[<<r, t>>] # "none"
      <4>1. 1 .. n \subseteq 1 .. entry'[r]
        BY <2>2, <2>3
      <4> QED
        BY <2>2, <3>1, <4>1
    <3>2. CASE r = p /\ t \in N
      <4>1. n + 1 \in 1 .. entry'[r]
        BY <2>2, <2>3, <3>2
      <4> QED
        BY <2>4, <3>2, <4>1
    <3> QED
      BY <1>6, <2>8, <3>1, <3>2
  <2> QED
    BY <1>1, <2>5, <2>6, <2>7, <2>8 DEF Entered, s
<1> QED
  BY <1>7, <1>8, <1>9, <1>10, <1>11 DEF Lived

(* inject_and_wait keeps the order.                                        *)
LEMMA InjectOrder ==
    ASSUME IInv, IInv', OInv, NEW o \in Occ, Inject(o)
    PROVE  OInv'
<1> DEFINE p == o[2]
<1>1. PICK tasks, k :
          /\ tasks \in Seq(Task) /\ Siblings(p, ToSet(tasks)) /\ InSequence(p, tasks)
          /\ Joined(k, p, tasks) /\ Injects(p, tasks, k)
          /\ p \in Slots(ko) \cup stranded /\ life[o] = "running" /\ p \in Task
  BY InjectSteps
<1> DEFINE N == ToSet(tasks)
<1> HIDE DEF p
<1>2. /\ prog' = prog /\ stranded' = stranded /\ printed' = printed
      /\ ko'.injected_by = k.injected_by /\ ko'.slots = k.slots /\ Slots(ko') = Slots(k)
      /\ \A q \in Occ : life[q] = "none" =>
            IF q[1] = p /\ q[2] \in N THEN life'[q] = "waiting" ELSE life'[q] = "none"
  BY <1>1 DEF Injects, Slots
<1>3. /\ Slots(k) = Slots(ko) \cup N /\ InOrder(k) /\ k \in KState
      /\ \A x, y : Before(ko, x, y) => Before(k, x, y)
      /\ \A e \in k.injected_by : e \in ko.injected_by \/ (e[2] = p /\ e[1] \in N)
      /\ p \in Slots(ko) => /\ \A t \in N \ Slots(ko) : \A h : <<t, h>> \in k.injected_by <=> h = p
                            /\ \A j \in 1 .. Len(tasks) : Ranks(k, p, Upto(tasks, j - 1), tasks[j])
  BY <1>1 DEF Joined
<1>4. \A t \in N : /\ t \in Task /\ p \in Parents(t) /\ life[<<p, t>>] = "none"
                   /\ \A a \in Task : life[<<p, a>>] # "none" =>
                         NamedBefore(p, a, t) /\ ~NamedBefore(p, t, a)
  BY <1>1 DEF Siblings
<1>5. \A x, y : Before(ko', x, y) <=> Before(k, x, y)
  BY <1>2 DEF Before
<1>6. \A t, u, h : /\ Parents(t)' = Parents(t) /\ Lineage(t)' = Lineage(t) /\ Home(t)' = Home(t)
                   /\ NamedBefore(h, t, u)' = NamedBefore(h, t, u) /\ Ahead(t, u)' = Ahead(t, u)
  BY <1>2, SameProgram
<1>7. \A t : Settled(t)' = Settled(t)
  BY <1>2, SettledSame
<1>8. Defined' = Defined
  BY <1>6, <1>7 DEF Defined
<1>9. Lived /\ Lived'
  <2>1. Lived
    BY DEF OInv
  <2> QED
    BY <1>1, <2>1, InjectLived DEF p
<1>10. Contiguous'
  <2> SUFFICES ASSUME NEW q \in Task, NEW y \in Task, NEW z \in Task,
                      Before(ko', q, y), Before(ko', y, z), q \in prog.prints \cap Lineage(z),
                      Settled(y), Settled(z)
               PROVE  q \in Lineage(y)
    BY <1>2, <1>6, <1>7 DEF Contiguous, Before
  <2> QED
    BY <1>3, <1>5 DEF InOrder
<1>11. Ranked(ko, printed, Defined)'
  <2>1. Tidy(ko')
    <3>1. ko' \in KState /\ Buffered(ko'.buf, Ctx'.ln) /\ Shape(ko')
      BY DEF IInv, Sound, Shape, LinesOK
    <3>2. ko'.buf \in [Task -> Seq(Line)]
      BY <3>1, KParts
    <3>3. \A t \in Task : IsBlock(ko'.buf[t], t)
      BY <3>1, <3>2, BufferIsBlock
    <3> QED
      BY <3>1, <3>3 DEF Tidy, Shape
  <2>2. OrderedBy(ko', Defined)
    <3> SUFFICES ASSUME NEW i \in DOMAIN ko'.slots, NEW j \in DOMAIN ko'.slots, i < j
                 PROVE  <<ko'.slots[i], ko'.slots[j]>> \in Defined
      BY DEF OrderedBy
    <3>1. Before(ko', ko'.slots[i], ko'.slots[j])
      BY DEF Before
    <3> QED
      BY <1>3, <1>5, <3>1 DEF InOrder
  <2>3. Follows(Slots(ko'), printed' \o ko'.out, Defined)
    <3>1. Follows(Slots(ko) \cup N, printed, Defined)
      BY <1>1, JoinedFollows DEF p
    <3>2. printed' \o ko'.out = printed
      <4>1. ko'.out = <<>> /\ printed \in Seq(Line)
        BY DEF IInv, Types
      <4> QED
        BY <1>2, <4>1, ConcatEmptySeq
    <3> QED
      BY <1>2, <1>3, <3>1, <3>2
  <2> QED
    BY <1>8, <2>1, <2>2, <2>3 DEF Ranked, OrderedBy
<1>12. Sorted'
  <2> SUFFICES ASSUME NEW q \in prog.prints, NEW a \in Task, NEW b \in Task, Places(q, a, b)'
               PROVE  Before(k, a, b)
    BY <1>2, <1>5 DEF Sorted, Before
  <2>1. q \in Task /\ prog \in Programs
    BY ProgramParts, SlotsTyped
  <2>2. /\ NamedBefore(q, a, b) /\ Home(b) = {q} /\ <<a, q>> \in k.injected_by
        /\ life'[<<q, b>>] # "none"
        /\ ({a, b, q} \cup Parents(a)) \cap stranded = {} /\ a \in Slots(k) /\ b \in Slots(k)
    BY <1>2, <1>6 DEF Places
  <2>3. Parents(b) = {q}
    <3>1. q # Top
      BY <2>1, TopAssumption
    <3> QED
      BY <2>2, <3>1 DEF Home
  <2>4. RunsOnce(b)
    <3>1. ~Contains(prog.top, b)
      <4>1. Contains(prog.top, b) => Home(b) = {Top}
        BY DEF Home
      <4> QED
        BY <2>1, <2>2, <4>1, TopAssumption
    <3>2. Cardinality({q}) = 1
      BY FS_Singleton
    <3> QED
      BY <2>3, <3>1, <3>2 DEF RunsOnce
  <2>5. b \in N => q = p
    BY <1>4, <2>3
  <2>6. a \in N => p \in Slots(ko)
    <3>1. a \in N => p \in Parents(a)
      BY <1>4
    <3> QED
      BY <1>1, <2>2, <3>1
  <2>7. q = p => p \in Slots(ko)
    BY <1>1, <2>2
  <2>8. ASSUME a \in Slots(ko), b \in Slots(ko), <<a, q>> \in ko.injected_by, life[<<q, b>>] # "none"
        PROVE  Before(k, a, b)
    <3>1. Places(q, a, b)
      BY <2>2, <2>8 DEF Places
    <3>2. Before(ko, a, b)
      BY <2>1, <3>1 DEF OInv, Sorted
    <3> QED
      BY <1>3, <3>2
  <2>9. <<q, b>> \in Occ /\ <<q, b>>[1] = q /\ <<q, b>>[2] = b
    BY <2>1 DEF Occ
  <2>10. life[<<q, b>>] # "none" \/ (q = p /\ b \in N)
    BY <1>2, <2>2, <2>9
  <2>11. <<a, q>> \in ko.injected_by \/ (q = p /\ a \in N)
    BY <1>3, <2>2
  <2>12. CASE q # p
    <3>1. b \in Slots(ko) /\ life[<<q, b>>] # "none" /\ <<a, q>> \in ko.injected_by
      BY <1>3, <2>2, <2>5, <2>10, <2>11, <2>12
    <3>2. a \in Slots(ko)
      <4> SUFFICES ASSUME a \notin Slots(ko) PROVE FALSE
        OBVIOUS
      <4>1. a \in N \ Slots(ko)
        BY <1>3, <2>2
      <4>2. <<a, q>> \in k.injected_by <=> q = p
        BY <1>3, <2>6, <4>1
      <4> QED
        BY <2>2, <2>12, <4>2
    <3> QED
      BY <2>8, <3>1, <3>2
  <2>13. CASE q = p /\ life[<<p, b>>] # "none"
    <3>1. a \notin N /\ b \notin N
      BY <1>4, <2>2, <2>13
    <3> QED
      BY <1>3, <2>2, <2>8, <2>11, <2>13, <3>1
  <2>14. CASE q = p /\ b \in N
    <3>1. b \notin Slots(ko)
      BY <1>1, <1>9, <2>4, <2>14, Unborn
    <3> DEFINE n == Len(tasks)
               T == {j \in 1 .. n : tasks[j] = b}
    <3>2. n \in Nat /\ T \subseteq Nat /\ T # {}
      <4>1. n \in Nat
        BY <1>1, LenProperties
      <4>2. \E j \in 1 .. n : tasks[j] = b
        BY <1>1, <2>14, InToSet
      <4> QED
        BY <4>1, <4>2
    <3>3. PICK j \in T : \A m \in T : j <= m
      BY <3>2, NatMin
    <3>4. j \in 1 .. n /\ tasks[j] = b /\ b \notin Upto(tasks, j - 1)
      <4>1. j \in 1 .. n /\ tasks[j] = b
        OBVIOUS
      <4>2. ASSUME NEW m \in 1 .. j - 1, tasks[m] = b PROVE FALSE
        <5>1. m \in T /\ m < j
          BY <3>2, <4>1, <4>2
        <5>2. j <= m
          BY <3>3, <5>1
        <5> QED
          BY <3>2, <4>1, <5>1, <5>2
      <4> QED
        BY <4>1, <4>2 DEF Upto
    <3>5. Ranks(k, p, Upto(tasks, j - 1), b)
      BY <1>3, <2>7, <2>14, <3>4
    <3>6. (a \in Slots(ko) /\ <<a, p>> \in ko.injected_by) \/ a \in Upto(tasks, j - 1)
      <4>1. CASE a \in N
        BY <1>1, <2>2, <2>14, <3>4, <4>1 DEF InSequence
      <4>2. CASE a \notin N
        BY <1>3, <2>2, <2>11, <2>14, <4>2
      <4> QED
        BY <4>1, <4>2
    <3> QED
      BY <2>14, <3>1, <3>4, <3>5, <3>6 DEF Ranks
  <2> QED
    BY <2>10, <2>12, <2>13, <2>14
<1> QED
  BY <1>9, <1>10, <1>11, <1>12 DEF OInv

-----------------------------------------------------------------------------
(***************************************************************************)
(* The slots of the main graph are in the order of its tasks.              *)
(***************************************************************************)
Follow(s, seq, i) ==
    /\ \A m \in DOMAIN s : \E x \in 1 .. i : seq[x] = s[m]
    /\ \A m, n \in DOMAIN s : m < n =>
          \E x \in 1 .. i : seq[x] = s[m] /\ \A y \in 1 .. i : seq[y] = s[n] => y > x

(* InitTask for the next task of the sequence.                             *)
LEMMA InitTaskFollows ==
    ASSUME NEW k \in KState, NEW seq \in Seq(Task), NEW i \in 0 .. Len(seq) - 1,
           Follow(k.slots, seq, i), \A x \in 1 .. i : seq[x] \in Slots(k),
           NEW r, r = InitTask(k, seq[i + 1])
    PROVE  /\ r \in KState /\ r.injected_by = k.injected_by
           /\ Follow(r.slots, seq, i + 1) /\ \A x \in 1 .. i + 1 : seq[x] \in Slots(r)
<1> DEFINE t == seq[i + 1]
           s == k.slots
           a == Append(s, t)
<1>1. /\ s \in Seq(Task) /\ (HasSlot(k, t) <=> t \in Slots(k)) /\ Len(seq) \in Nat /\ i \in Nat
      /\ t \in Task
  <2>1. s \in Seq(Task) /\ (HasSlot(k, t) <=> t \in Slots(k)) /\ Len(seq) \in Nat
    BY KParts, SlotIndex, LenProperties
  <2>2. i \in Nat /\ i + 1 \in 1 .. Len(seq)
    BY <2>1
  <2> QED
    BY <2>1, <2>2, ElementOfSeq
<1>2. /\ a \in Seq(Task) /\ Len(s) \in Nat /\ DOMAIN a = 1 .. Len(s) + 1 /\ DOMAIN s = 1 .. Len(s)
      /\ \A m \in 1 .. Len(s) : a[m] = s[m]
      /\ a[Len(s) + 1] = t
  BY <1>1, AppendProperties, LenProperties
<1>3. \A x \in 1 .. i + 1 : x \in 1 .. i \/ (x = i + 1 /\ seq[x] = t)
  BY <1>1
<1>4. 1 .. i \subseteq 1 .. i + 1 /\ i + 1 \in 1 .. i + 1 /\ \A x \in 1 .. i : i + 1 > x
  BY <1>1
<1>5. \A m \in DOMAIN s : s[m] \in Slots(k)
  BY SlotPlaces
<1>6. CASE HasSlot(k, t)
  <2>1. r = k
    BY <1>6 DEF InitTask
  <2>2. Follow(s, seq, i + 1)
    <3> HIDE DEF s, t
    <3>1. \A m \in DOMAIN s : \E x \in 1 .. i + 1 : seq[x] = s[m]
      BY <1>4 DEF Follow, s
    <3>2. ASSUME NEW m \in DOMAIN s, NEW n \in DOMAIN s, m < n
          PROVE  \E x \in 1 .. i + 1 : seq[x] = s[m] /\ \A y \in 1 .. i + 1 : seq[y] = s[n] => y > x
      <4>1. PICK x \in 1 .. i : seq[x] = s[m] /\ \A y \in 1 .. i : seq[y] = s[n] => y > x
        BY <3>2 DEF Follow, s
      <4> QED
        BY <1>3, <1>4, <4>1
    <3> QED
      BY <3>1, <3>2 DEF Follow
  <2> QED
    BY <1>1, <1>3, <1>6, <2>1, <2>2
<1>7. CASE ~HasSlot(k, t)
  <2>1. r = [k EXCEPT !.slots = Append(@, t)]
    BY <1>7 DEF InitTask
  <2>2. r \in KState /\ r.injected_by = k.injected_by /\ r.slots = a
    <3> HIDE DEF a
    <3>1. r = [k EXCEPT !.slots = a]
      BY <1>1, <2>1 DEF KState, a
    <3> QED
      BY <1>2, <3>1 DEF KState
  <2>3. Slots(r) = Slots(k) \cup {t}
    BY <1>1, <2>2, ToSetAppend DEF Slots
  <2>4. Follow(a, seq, i + 1)
    <3> HIDE DEF a, s, t
    <3>1. \A m \in DOMAIN a : m \in 1 .. Len(s) \/ m = Len(s) + 1
      BY <1>2
    <3>2. \A m \in 1 .. Len(s) : \E x \in 1 .. i : seq[x] = a[m]
      BY <1>2 DEF Follow, s
    <3>3. \A m \in DOMAIN a : \E x \in 1 .. i + 1 : seq[x] = a[m]
      <4>1. seq[i + 1] = a[Len(s) + 1]
        BY <1>2 DEF t
      <4> QED
        BY <1>4, <3>1, <3>2, <4>1
    <3>4. ASSUME NEW m \in DOMAIN a, NEW n \in DOMAIN a, m < n
          PROVE  \E x \in 1 .. i + 1 : seq[x] = a[m] /\ \A y \in 1 .. i + 1 : seq[y] = a[n] => y > x
      <4>1. m \in 1 .. Len(s)
        BY <1>2, <3>4
      <4>2. CASE n \in 1 .. Len(s)
        <5>1. m \in DOMAIN s /\ n \in DOMAIN s
          BY <1>2, <4>1, <4>2
        <5>2. Follow(s, seq, i)
          BY DEF s
        <5>3. PICK x \in 1 .. i : seq[x] = s[m] /\ \A y \in 1 .. i : seq[y] = s[n] => y > x
          BY <3>4, <5>1, <5>2 DEF Follow
        <5> QED
          BY <1>2, <1>3, <1>4, <4>1, <4>2, <5>3
      <4>3. CASE n = Len(s) + 1
        <5>1. PICK x \in 1 .. i : seq[x] = a[m]
          BY <3>2, <4>1
        <5>2. \A y \in 1 .. i : seq[y] # a[n]
          BY <1>1, <1>2, <1>7, <4>3
        <5> QED
          BY <1>3, <1>4, <5>1, <5>2
      <4> QED
        BY <3>1, <4>2, <4>3
    <3> QED
      BY <3>3, <3>4 DEF Follow
  <2>5. \A x \in 1 .. i + 1 : seq[x] \in Slots(r)
    BY <1>3, <2>3
  <2> HIDE DEF a, s, t
  <2> QED
    BY <2>2, <2>4, <2>5
<1> QED
  BY <1>6, <1>7

(* InitTasks for the main graph.                                           *)
LEMMA InitTasksFollow ==
    ASSUME NEW seq \in Seq(Task), NEW r, r = InitTasks(NewState, seq)
    PROVE  /\ r \in KState /\ r.injected_by = {} /\ Follow(r.slots, seq, Len(seq))
           /\ \A x \in 1 .. Len(seq) : seq[x] \in Slots(r)
<1> DEFINE n == Len(seq)
<1>1. n \in Nat /\ DOMAIN seq = 1 .. n
  BY LenProperties
<1>2. PICK f : Inited(f, NewState, seq, n) /\ r = f[n]
  <2> HIDE DEF n
  <2> QED
    BY <1>1, FoldInitTask
<1> DEFINE P(i) == /\ f[i] \in KState /\ f[i].injected_by = {} /\ Follow(f[i].slots, seq, i)
                   /\ \A x \in 1 .. i : seq[x] \in Slots(f[i])
           Good == {i \in 0 .. n : P(i)}
<1>3. 0 \in Good
  <2>1. f[0] = NewState
    BY <1>2 DEF Inited
  <2>2. NewState \in KState /\ NewState.slots = <<>> /\ NewState.injected_by = {}
    <3>1. <<>> \in Seq(Line) /\ <<>> \in Seq(Task)
      OBVIOUS
    <3>2. [t \in Task |-> <<>>] \in [Task -> Seq(Line)]
      BY <3>1
    <3> QED
      BY <3>1, <3>2 DEF NewState, KState
  <2>3. Follow(<<>>, seq, 0) /\ 1 .. 0 = {}
    <3>1. DOMAIN <<>> = {} /\ 1 .. 0 = {}
      OBVIOUS
    <3> QED
      BY <3>1 DEF Follow
  <2>4. P(0)
    BY <2>1, <2>2, <2>3
  <2> HIDE DEF P
  <2> QED
    BY <1>1, <2>4
<1>4. ASSUME NEW i \in 0 .. n - 1, i \in Good PROVE i + 1 \in Good
  <2>1. i \in Nat /\ i + 1 \in 1 .. n /\ i + 1 \in 0 .. n /\ (i + 1) - 1 = i
    BY <1>1
  <2>2. f[i + 1] = InitTask(f[i], seq[i + 1])
    BY <1>2, <2>1 DEF Inited
  <2> DEFINE g == f[i]
  <2>3. g \in KState /\ g.injected_by = {} /\ Follow(g.slots, seq, i) /\ \A x \in 1 .. i : seq[x] \in Slots(g)
    BY <1>4
  <2>4. i \in 0 .. Len(seq) - 1
    OBVIOUS
  <2> DEFINE r2 == f[i + 1]
  <2>5. r2 = InitTask(g, seq[i + 1])
    BY <2>2
  <2> HIDE DEF g, n, r2
  <2>6. /\ r2 \in KState /\ r2.injected_by = {} /\ Follow(r2.slots, seq, i + 1)
        /\ \A x \in 1 .. i + 1 : seq[x] \in Slots(r2)
    BY <2>3, <2>4, <2>5, InitTaskFollows
  <2>7. P(i + 1)
    BY <2>6 DEF r2
  <2> HIDE DEF P
  <2> QED
    BY <2>1, <2>7
<1>5. P(n)
  <2>1. n \in Good
    <3> HIDE DEF Good
    <3> QED
      BY <1>1, <1>3, <1>4, NatInd
  <2> HIDE DEF P
  <2> QED
    BY <2>1
<1> QED
  BY <1>2, <1>5

(* The order of the output in the initial state.                           *)
LEMMA InitOrder ==
    ASSUME Init
    PROVE  OInv
<1> DEFINE top == prog.top
<1>1. /\ prog \in Programs /\ ko = InitTasks(NewState, top) /\ printed = <<>>
      /\ life = [o \in Occ |-> IF o[1] = Top /\ Contains(top, o[2]) THEN "waiting" ELSE "none"]
      /\ entry = [t \in Task |-> 0]
      /\ stopping = FALSE /\ stranded = {}
  BY DEF Init
<1>2. IInv
  BY InitInv
<1>3. top \in Seq(Task) /\ Len(top) \in Nat /\ DOMAIN top = 1 .. Len(top)
  BY <1>1, ProgramParts, LenProperties
<1>4. /\ ko \in KState /\ IsInjective(ko.slots) /\ ko.out = <<>> /\ ko.injected_by = {}
      /\ Follow(ko.slots, top, Len(top)) /\ \A x \in 1 .. Len(top) : top[x] \in Slots(ko)
  <2> HIDE DEF top
  <2> QED
    BY <1>1, <1>2, <1>3, SlotsTyped, InitTasksFollow
<1>5. \A t \in Slots(ko) : t \in Task /\ Contains(top, t)
  <2>1. ASSUME NEW t \in Slots(ko) PROVE t \in Task /\ \E x \in 1 .. Len(top) : top[x] = t
    <3>1. PICK m \in DOMAIN ko.slots : ko.slots[m] = t /\ t \in Task
      BY <1>4, SlotPlaces
    <3> QED
      BY <1>4, <3>1 DEF Follow
  <2> HIDE DEF top
  <2> QED
    BY <1>3, <2>1 DEF Contains
<1> HIDE DEF top
<1>6. \A t : Contains(top, t) =>
          t \in Task /\ t \in Slots(ko) /\ <<Top, t>> \in Occ /\ life[<<Top, t>>] = "waiting"
  <2>1. \A t : Contains(top, t) => \E x \in 1 .. Len(top) : top[x] = t
    BY <1>3 DEF Contains
  <2>2. \A t : Contains(top, t) => t \in Slots(ko) /\ t \in Task
    BY <1>4, <1>5, <2>1
  <2>3. \A t \in Task : <<Top, t>> \in Occ /\ <<Top, t>>[1] = Top /\ <<Top, t>>[2] = t
    BY DEF Occ
  <2> QED
    BY <1>1, <2>2, <2>3
<1>7. \A h, t \in Task : life[<<h, t>>] = "none"
  <2>1. \A h, t \in Task : <<h, t>> \in Occ /\ <<h, t>>[1] = h
    BY DEF Occ
  <2> QED
    BY <1>1, <2>1, TopAssumption
<1>8. Lived
  <2>1. Placed
    <3> SUFFICES ASSUME NEW t \in CanPrint(life, stopping) PROVE t \in Slots(ko)
      BY DEF Placed
    <3>1. PICK o \in Alive(life, t) : TRUE
      BY DEF CanPrint
    <3>2. o \in Occ /\ o[2] = t /\ life[o] # "none"
      BY DEF Alive
    <3> QED
      BY <1>1, <1>6, <3>2
  <2>2. Owned
    <3> SUFFICES ASSUME NEW t \in Slots(ko) PROVE \E o \in Occ : o[2] = t /\ life[o] # "none"
      BY DEF Owned
    <3>1. <<Top, t>> \in Occ /\ life[<<Top, t>>] = "waiting" /\ <<Top, t>>[2] = t
      BY <1>5, <1>6
    <3> QED
      BY <3>1
  <2>3. Credited /\ Linked
    BY <1>4, <1>7 DEF Credited, Linked
  <2>4. ASSUME NEW p \in Task PROVE Entered(p)
    <3>1. entry[p] = 0 /\ Len(prog.entries[p]) \in Nat /\ 1 .. 0 = {}
      BY <1>1, EntryParts
    <3> QED
      BY <1>7, <3>1 DEF Entered
  <2> QED
    BY <2>1, <2>2, <2>3, <2>4 DEF Lived
<1>9. \A t \in Slots(ko) : Settled(t) => Lineage(t) = {t}
  <2> SUFFICES ASSUME NEW t \in Slots(ko), Settled(t) PROVE Lineage(t) = {t}
    OBVIOUS
  <2>1. t \in Task /\ Contains(prog.top, t) /\ t \in Lineage(t)
    BY <1>5, LineageParts DEF top
  <2>2. Cardinality(Parents(t)) = 0
    BY <2>1, SettledParts DEF Keeps
  <2>3. IsFiniteSet(Parents(t))
    <3>1. Parents(t) \subseteq Task
      BY DEF Parents
    <3> QED
      BY <3>1, TaskAssumption, FS_Subset
  <2>4. Parents(t) = {}
    BY <2>2, <2>3, FS_EmptySet
  <2> QED
    BY <2>1, <2>4, LineageStep
<1>10. Contiguous
  <2> SUFFICES ASSUME NEW p \in Task, NEW y \in Task, NEW z \in Task, Before(ko, p, y),
                      Before(ko, y, z), p \in Lineage(z), Settled(z)
               PROVE  FALSE
    BY DEF Contiguous
  <2>1. Before(ko, p, z)
    BY <1>4, BeforeLine
  <2>2. p # z /\ z \in Slots(ko)
    BY <1>4, <2>1, BeforeLine
  <2> QED
    BY <1>9, <2>2
<1>11. OrderedBy(ko, Defined)
  <2> SUFFICES ASSUME NEW i \in DOMAIN ko.slots, NEW j \in DOMAIN ko.slots, i < j
               PROVE  <<ko.slots[i], ko.slots[j]>> \in Defined
    BY DEF OrderedBy
  <2> DEFINE a == ko.slots[i]
             b == ko.slots[j]
  <2>1. a \in Task /\ b \in Task /\ Contains(top, a) /\ Contains(top, b)
    BY <1>4, <1>5, SlotPlaces
  <2>2. PICK x \in 1 .. Len(top) : top[x] = a /\ \A y \in 1 .. Len(top) : top[y] = b => y > x
    BY <1>4 DEF Follow
  <2> HIDE DEF a, b
  <2>3. Groups(Top) = <<top>> /\ DOMAIN <<top>> = {1} /\ <<top>>[1] = top
    BY DEF Groups, top
  <2>4. NamedBefore(Top, a, b)
    <3>1. 1 \in DOMAIN Groups(Top) /\ x \in DOMAIN Groups(Top)[1] /\ Groups(Top)[1][x] = a
      BY <1>3, <2>2, <2>3
    <3>2. \A n \in 1 .. 1 : \A y \in DOMAIN Groups(Top)[n] : Groups(Top)[n][y] = b => n = 1 /\ y > x
      <4>1. \A n \in 1 .. 1 : n = 1
        OBVIOUS
      <4> QED
        BY <1>3, <2>2, <2>3, <4>1
    <3> QED
      BY <3>1, <3>2 DEF NamedBefore
  <2>5. Home(a) = {Top} /\ Home(b) = {Top} /\ a \in Lineage(a) /\ b \in Lineage(b)
    BY <2>1, LineageParts DEF Home, top
  <2>6. Ahead(a, b)
    BY <2>4, <2>5 DEF Ahead
  <2>7. <<a, b>> \in Task \X Task /\ <<a, b>>[1] = a /\ <<a, b>>[2] = b
    BY <2>1
  <2> QED
    BY <2>6, <2>7 DEF Defined, a, b
<1>12. Ranked(ko, printed, Defined)
  BY <1>1, <1>2, <1>11, SlotsRanked
<1>13. Sorted
  BY <1>4 DEF Sorted, Places
<1> QED
  BY <1>8, <1>10, <1>12, <1>13 DEF OInv

(* A step that changes nothing is calm.                                    *)
LEMMA UnchangedCalm ==
    ASSUME IInv, UNCHANGED vars
    PROVE  Calm
<1>1. /\ prog' = prog /\ ko' = ko /\ printed' = printed /\ life' = life /\ entry' = entry
      /\ known' = known /\ stopping' = stopping /\ stranded' = stranded
  BY DEF vars
<1>2. CalmLives(life', stopping')
  BY <1>1 DEF CalmLives, Forward
<1>3. CalmSlots(ko')
  BY <1>1 DEF CalmSlots
<1> QED
  BY <1>1, <1>2, <1>3 DEF Calm, Ranked

(* Every step keeps the order of the output.                               *)
LEMMA NextOrder ==
    ASSUME IInv, IInv', OInv, [Next]_vars
    PROVE  OInv'
<1>1. Lived
  BY DEF OInv
<1>2. ASSUME NEW o \in Occ, Admit(o) PROVE OInv'
  BY <1>2, AdmitCalm, CalmOrder
<1>3. ASSUME NEW o \in Occ, Start(o) PROVE OInv'
  BY <1>1, <1>3, StartCalm, CalmOrder
<1>4. ASSUME NEW o \in Occ, PrintLine(o) PROVE OInv'
  BY <1>1, <1>4, PrintLineCalm, CalmOrder
<1>5. ASSUME NEW o \in Occ, Inject(o) PROVE OInv'
  BY <1>5, InjectOrder
<1>6. ASSUME NEW o \in Occ, Abandon(o) PROVE OInv'
  BY <1>6, AbandonCalm, CalmOrder
<1>7. ASSUME NEW o \in Occ, Fail(o) PROVE OInv'
  BY <1>1, <1>7, FailCalm, CalmOrder
<1>8. ASSUME NEW o \in Occ, Finish(o) PROVE OInv'
  <2>1. Moves(life[o], "over")
    BY <1>8 DEF Finish, Free, Moves
  <2>2. Commit(OnTaskFinished(ko, o[2]), MoveTo(o, "over"), stopping)
        /\ UNCHANGED <<prog, entry, known, lines>>
    BY <1>8 DEF Finish, MoveTo
  <2> QED
    BY <2>1, <2>2, EndCalm, CalmOrder
<1>9. ASSUME NEW o \in Occ, Drop(o) PROVE OInv'
  <2>1. Moves(life[o], "over")
    BY <1>9 DEF Drop, Moves
  <2>2. Commit(OnTaskFinished(ko, o[2]), MoveTo(o, "over"), stopping)
        /\ UNCHANGED <<prog, entry, known, lines>>
    BY <1>9 DEF Drop, MoveTo
  <2> QED
    BY <2>1, <2>2, EndCalm, CalmOrder
<1>10. ASSUME NEW o \in Occ, Forget(o) PROVE OInv'
  BY <1>10, ForgetCalm, CalmOrder
<1>11. CASE Display
  BY <1>11, DisplayCalm, CalmOrder
<1>12. CASE UNCHANGED vars
  BY <1>12, UnchangedCalm, CalmOrder
<1> QED
  BY <1>2, <1>3, <1>4, <1>5, <1>6, <1>7, <1>8, <1>9, <1>10, <1>11, <1>12 DEF Next, Displayed

(* The invariant says what the run checks of the order of the output.      *)
LEMMA InvOrder ==
    ASSUME IInv, OInv
    PROVE  DefinitionOrder
<1>1. /\ ko \in KState /\ IsInjective(ko.slots) /\ ko.out = <<>> /\ printed \in Seq(Line)
      /\ \A i \in DOMAIN printed : printed[i][1] \in Task
  BY SlotsTyped
<1>2. BlocksInOrder
  <2> SUFFICES ASSUME NEW i \in DOMAIN printed, NEW j \in DOMAIN printed, i < j,
                      printed[i][1] # printed[j][1], Settled(printed[i][1]), Settled(printed[j][1])
               PROVE  Ahead(printed[i][1], printed[j][1])
    BY DEF BlocksInOrder
  <2>1. printed \o ko.out = printed
    BY <1>1, ConcatEmptySeq
  <2>2. Related(Defined, printed[i][1], printed[j][1])
    BY <2>1 DEF OInv, Ranked, Follows
  <2>3. <<printed[i][1], printed[j][1]>> \in Defined
    BY <2>2 DEF Related
  <2> QED
    BY <2>3 DEF Defined
<1>3. EntriesInOrder
  <2> SUFFICES ASSUME NEW p \in prog.prints, NEW a \in Task, NEW b \in Task,
                      NamedBefore(p, a, b), Home(b) = {p}, <<a, p>> \in ko.injected_by,
                      life[<<p, b>>] # "none", ({a, b, p} \cup Parents(a)) \cap stranded = {},
                      HasSlot(ko, a), HasSlot(ko, b)
               PROVE  IndexOf(ko, a) < IndexOf(ko, b)
    BY DEF EntriesInOrder
  <2>1. a \in Slots(ko) /\ b \in Slots(ko)
    BY <1>1, SlotIndex
  <2>2. Before(ko, a, b)
    BY <2>1 DEF OInv, Sorted, Places
  <2>3. /\ IndexOf(ko, a) \in DOMAIN ko.slots /\ ko.slots[IndexOf(ko, a)] = a
        /\ IndexOf(ko, b) \in DOMAIN ko.slots /\ ko.slots[IndexOf(ko, b)] = b
        /\ DOMAIN ko.slots \subseteq Nat
    BY <1>1, SlotIndex, SlotPlaces
  <2> QED
    BY <1>1, <2>2, <2>3, BeforePlaces
<1> QED
  BY <1>2, <1>3 DEF DefinitionOrder

(* The blocks on the terminal come out in definition order, and a parent   *)
(* that prints has the slots of what its entries name in the order they    *)
(* are written: for any tasks and programs, and in whatever order tasks    *)
(* start, print, inject, fail, end or are dropped.                         *)
THEOREM KeepOrderDefinition == Spec => []DefinitionOrder
<1>1. Init => OInv
  BY InitOrder
<1>2. IInv /\ IInv' /\ OInv /\ [Next]_vars => OInv'
  BY NextOrder
<1>3. IInv /\ OInv => DefinitionOrder
  BY InvOrder
<1> QED
  BY <1>1, <1>2, <1>3, KeepOrderInv, PTL DEF Spec

=============================================================================
