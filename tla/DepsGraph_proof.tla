-------------------------- MODULE DepsGraph_proof --------------------------
(***************************************************************************)
(* Facts about the operators of DepsGraph, for every set of keys and every *)
(* relation between them. The proofs about the loops that drive a graph    *)
(* (ToolInstall_proof, DepsEngine_proof) rest on them.                     *)
(***************************************************************************)
EXTENDS DepsGraph, SequenceTheorems, FiniteSetTheorems, TLAPS

(* A batch names each of the leaves it sends once: as many places as       *)
(* leaves, and every leaf in one of them.                                  *)
LEMMA BatchNamesOnce ==
    ASSUME NEW S, IsFiniteSet(S), NEW s \in Orders(S)
    PROVE  /\ s \in Seq(S)
           /\ \A x \in S : \E i \in DOMAIN s : s[i] = x
           /\ \A i, j \in DOMAIN s : s[i] = s[j] => i = j
PROOF
<1> DEFINE n == Cardinality(S)
<1>1. n \in Nat
  BY FS_CardinalityType
<1>2. s \in [1..n -> S] /\ DOMAIN s = 1..n /\ \A x \in S : \E i \in DOMAIN s : s[i] = x
  BY DEF Orders
<1>3. s \in Surjection(1..n, S)
  BY <1>2 DEF Surjection
<1>4. IsFiniteSet(1..n) /\ Cardinality(1..n) = n
  BY <1>1, FS_Interval
<1> HIDE DEF n
<1>5. s \in Injection(1..n, S)
  BY <1>3, <1>4, FS_SurjSameCardinalityImpliesInj DEF n
<1>6. \A i, j \in DOMAIN s : s[i] = s[j] => i = j
  BY <1>5, <1>2 DEF Injection, IsInjective
<1>7. s \in Seq(S)
  BY <1>1, <1>2
<1> QED
  BY <1>2, <1>6, <1>7

(* What EmitLeaves, the end of every graph operation, leaves behind: the   *)
(* channel holds the old messages, then the new leaves, each once, then    *)
(* perhaps None.                                                           *)
LEMMA EmitLeavesEffect ==
    ASSUME NEW g \in SUBSET Key, NEW bl \in SUBSET Key, NEW c \in Seq(Key \cup {None}),
           EmitLeaves(g, bl, c)
    PROVE  /\ chan' \in Seq(Key \cup {None})
           /\ sent' = sent \cup NewLeaves(g, bl)
           /\ \A i \in DOMAIN chan' :
                 \/ i \in DOMAIN c /\ chan'[i] = c[i]
                 \/ i > Len(c) /\ chan'[i] \in NewLeaves(g, bl)
                 \/ i > Len(c) /\ i = Len(chan') /\ chan'[i] = None /\ IsAllDone(g, bl)
           /\ Len(chan') >= Len(c)
           /\ \A i, j \in DOMAIN chan' :
                 i > Len(c) /\ j > Len(c) /\ chan'[i] = chan'[j] => i = j
PROOF
<1> DEFINE L == NewLeaves(g, bl)
<1>1. PICK batch \in Orders(L) :
         chan' = c \o batch \o (IF IsAllDone(g, bl) THEN <<None>> ELSE <<>>)
  BY DEF EmitLeaves
<1>2. L \in SUBSET Key
  BY DEF NewLeaves, Leaves
<1>3. IsFiniteSet(L) /\ Cardinality(L) \in Nat
  BY <1>2, KeyAssumption, FS_Subset, FS_CardinalityType
<1>4. /\ batch \in Seq(L)
      /\ \A i, j \in DOMAIN batch : batch[i] = batch[j] => i = j
  BY <1>1, <1>3, BatchNamesOnce
<1>5. batch \in Seq(Key \cup {None})
  BY <1>4, <1>2
<1> HIDE DEF L
<1>6. CASE IsAllDone(g, bl)
  <2>1. chan' = c \o batch \o <<None>>
    BY <1>1, <1>6
  <2>2. <<None>> \in Seq(Key \cup {None}) /\ Len(<<None>>) = 1 /\ <<None>>[1] = None
    OBVIOUS
  <2>3. c \o batch \in Seq(Key \cup {None})
    BY <1>5
  <2>4. Len(c \o batch) = Len(c) + Len(batch)
    BY <1>5
  <2>5. \A i \in 1..Len(c \o batch) :
           (c \o batch)[i] = IF i <= Len(c) THEN c[i] ELSE batch[i - Len(c)]
    BY <1>5
  <2>6. /\ chan' \in Seq(Key \cup {None})
        /\ Len(chan') = Len(c) + Len(batch) + 1
        /\ \A i \in 1..Len(chan') :
              chan'[i] = IF i <= Len(c \o batch) THEN (c \o batch)[i] ELSE None
    BY <2>1, <2>2, <2>3, <2>4
  <2>7. \A i \in 1..Len(batch) : batch[i] \in L
    BY <1>4
  <2>8. Len(batch) \in Nat /\ Len(c) \in Nat
    BY <1>5
  <2>9. \A i \in DOMAIN chan' :
           \/ i \in DOMAIN c /\ chan'[i] = c[i]
           \/ /\ i > Len(c)
              /\ i - Len(c) \in DOMAIN batch /\ chan'[i] = batch[i - Len(c)] /\ chan'[i] \in L
           \/ i > Len(c) /\ i = Len(chan') /\ chan'[i] = None
    <3>1. ASSUME NEW i \in DOMAIN chan', i <= Len(c) PROVE i \in DOMAIN c /\ chan'[i] = c[i]
      BY <3>1, <2>4, <2>5, <2>6, <2>8
    <3>2. ASSUME NEW i \in DOMAIN chan', i > Len(c), i <= Len(c) + Len(batch)
          PROVE  i - Len(c) \in DOMAIN batch /\ chan'[i] = batch[i - Len(c)]
      <4>1. i \in 1..Len(c \o batch) /\ chan'[i] = (c \o batch)[i]
        BY <3>2, <2>4, <2>6, <2>8
      <4>2. (c \o batch)[i] = batch[i - Len(c)]
        BY <3>2, <4>1, <2>5, <2>8
      <4>3. i - Len(c) \in 1..Len(batch) /\ DOMAIN batch = 1..Len(batch)
        BY <1>5, <3>2, <2>8, <2>6
      <4> QED
        BY <4>1, <4>2, <4>3
    <3>3. ASSUME NEW i \in DOMAIN chan', i > Len(c) + Len(batch)
          PROVE  i > Len(c) /\ i = Len(chan') /\ chan'[i] = None
      BY <3>3, <2>4, <2>6, <2>8
    <3>4. \A i \in DOMAIN chan' : i \in Nat
      BY <2>6
    <3>5. \A i \in DOMAIN batch : batch[i] \in L
      BY <1>4
    <3> QED
      BY <3>1, <3>2, <3>3, <3>4, <3>5, <2>8
  <2>10. \A i, j \in DOMAIN chan' : i > Len(c) /\ j > Len(c) /\ chan'[i] = chan'[j] => i = j
    <3> SUFFICES ASSUME NEW i \in DOMAIN chan', NEW j \in DOMAIN chan', i > Len(c), j > Len(c),
                        chan'[i] = chan'[j]
                 PROVE  i = j
      OBVIOUS
    <3>1. i \in Nat /\ j \in Nat /\ i \notin DOMAIN c /\ j \notin DOMAIN c
      BY <2>6, <2>8
    <3>2. CASE chan'[i] = None
      BY <1>2, <2>9, <3>1, <3>2, NoneAssumption
    <3>3. CASE chan'[i] # None
      <4>1. /\ i - Len(c) \in DOMAIN batch /\ chan'[i] = batch[i - Len(c)]
            /\ j - Len(c) \in DOMAIN batch /\ chan'[j] = batch[j - Len(c)]
        BY <2>9, <3>1, <3>3
      <4>2. i - Len(c) = j - Len(c)
        BY <1>4, <4>1
      <4> QED
        BY <4>2, <3>1, <2>8
    <3> QED
      BY <3>2, <3>3
  <2>11. sent' = sent \cup L
    BY DEF EmitLeaves, L
  <2>12. Len(chan') >= Len(c)
    BY <2>6, <2>8
  <2>13. \A i \in DOMAIN chan' :
            \/ i \in DOMAIN c /\ chan'[i] = c[i]
            \/ i > Len(c) /\ chan'[i] \in L
            \/ i > Len(c) /\ i = Len(chan') /\ chan'[i] = None /\ IsAllDone(g, bl)
    BY <1>6, <2>9
  <2> QED
    BY <2>6, <2>10, <2>11, <2>12, <2>13 DEF L
<1>7. CASE ~IsAllDone(g, bl)
  <2>1. chan' = c \o batch
    BY <1>1, <1>5, <1>7
  <2>2. /\ chan' \in Seq(Key \cup {None})
        /\ Len(chan') = Len(c) + Len(batch)
        /\ \A i \in 1..Len(chan') :
              chan'[i] = IF i <= Len(c) THEN c[i] ELSE batch[i - Len(c)]
    BY <2>1, <1>5
  <2>3. \A i \in 1..Len(batch) : batch[i] \in L
    BY <1>4
  <2>4. sent' = sent \cup L
    BY DEF EmitLeaves, L
  <2>5. Len(batch) \in Nat /\ Len(c) \in Nat
    BY <1>5
  <2>6. \A i \in DOMAIN chan' :
           \/ i \in DOMAIN c /\ chan'[i] = c[i]
           \/ /\ i > Len(c)
              /\ i - Len(c) \in DOMAIN batch /\ chan'[i] = batch[i - Len(c)] /\ chan'[i] \in L
    BY <2>2, <2>3, <2>5
  <2>7. \A i, j \in DOMAIN chan' : i > Len(c) /\ j > Len(c) /\ chan'[i] = chan'[j] => i = j
    BY <1>4, <2>2, <2>5, <2>6
  <2> QED
    BY <2>2, <2>4, <2>5, <2>6, <2>7 DEF L
<1> QED
  BY <1>6, <1>7

(* What depends on k is closed: a dependent of a member is a member; and   *)
(* every member has a reason, a dependency that is a member or k itself.   *)
LEMMA DependentsAreLinked ==
    ASSUME NEW k
    PROVE  /\ \A m \in graph, d \in TransitiveDependents(k) \cup {k} :
                 <<m, d>> \in edges => m \in TransitiveDependents(k)
           /\ \A n \in TransitiveDependents(k) :
                 \E d \in TransitiveDependents(k) \cup {k} : <<n, d>> \in edges
PROOF
<1> DEFINE TD == TransitiveDependents(k)
           Closed(C) == \A m \in graph : (\E d \in C \cup {k} : <<m, d>> \in edges) => m \in C
<1>1. \A n : n \in TD <=> n \in graph /\ \A C \in SUBSET graph : Closed(C) => n \in C
  BY DEF TransitiveDependents
<1> HIDE DEF TD
<1>2. \A m \in graph, d \in TD \cup {k} : <<m, d>> \in edges => m \in TD
  BY <1>1
<1>3. ASSUME NEW n \in TD PROVE \E d \in TD \cup {k} : <<n, d>> \in edges
  <2> SUFFICES ASSUME \A d \in TD \cup {k} : <<n, d>> \notin edges PROVE FALSE
    OBVIOUS
  <2> DEFINE C == TD \ {n}
  <2>1. C \in SUBSET graph
    BY <1>1
  <2>2. Closed(C)
    BY <1>2
  <2> QED
    BY <1>1, <2>1, <2>2
<1> QED
  BY <1>2, <1>3 DEF TD

(* A node that no order completes waits for another such node.             *)
LEMMA UnorderableWaits ==
    ASSUME NEW G, NEW E, NEW n \in G \ Orderable(G, E)
    PROVE  \E d \in G \ Orderable(G, E) : <<n, d>> \in E
PROOF
<1> DEFINE O == Orderable(G, E)
           Closed(C) == \A m \in G : {d \in G : <<m, d>> \in E} \subseteq C => m \in C
<1>1. \A m : m \in O <=> m \in G /\ \A C \in SUBSET G : Closed(C) => m \in C
  BY DEF Orderable
<1> SUFFICES ASSUME \A d \in G \ O : <<n, d>> \notin E PROVE FALSE
  BY DEF O
<1> HIDE DEF O
<1>2. {d \in G : <<n, d>> \in E} \subseteq O
  OBVIOUS
<1>3. ASSUME NEW C \in SUBSET G, Closed(C) PROVE n \in C
  <2>1. {d \in G : <<n, d>> \in E} \subseteq C
    BY <1>1, <1>2, <1>3
  <2> QED
    BY <1>3, <2>1
<1> QED
  BY <1>1, <1>3 DEF O
=============================================================================
