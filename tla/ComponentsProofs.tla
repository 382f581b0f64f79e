-------------------------- MODULE ComponentsProofs --------------------------
(***************************************************************************)
(* Proofs about the smaller components.  A behaviour is a behaviour of one *)
(* of them, so that the invariant of the whole is the conjunction of       *)
(* theirs, and a step of one of them leaves those of the others alone.     *)
(***************************************************************************)
EXTENDS Components, QueueLemmas

(***************************************************************************)
(* The hash ring: for any number of shards and virtual nodes and any hash  *)
(* function.                                                               *)
(***************************************************************************)

\* What the module's operators on sets and sequences say.
LEMMA RingCounts ==
    (\A S : Ring!IsFiniteSet(S) <=> IsFiniteSet(S)) /\ (\A S : Ring!Cardinality(S) = Cardinality(S))
<1>1. \A S : Ring!IsFiniteSet(S) <=> IsFiniteSet(S)
    BY DEF Ring!IsFiniteSet, IsFiniteSet
<1>2. ASSUME NEW S PROVE Ring!Cardinality(S) = Cardinality(S)
    BY Zenon DEF Ring!Cardinality, Cardinality
<1>3. QED BY <1>1, <1>2

LEMMA RingOperators ==
    /\ \A S : Ring!SetToSeqs(S) = SetToSeqs(S)
    /\ \A s : Ring!ToSet(s) = ToSet(s)
    /\ \A s : Ring!InOrder(s) <=> \A i, j \in 1 .. Len(s) : i < j => s[i].hash <= s[j].hash
    /\ \A s : Ring!IsInjective(s) <=> \A i, j \in DOMAIN s : s[i] = s[j] => i = j
<1>1. \A S : Ring!SetToSeqs(S) = SetToSeqs(S)
    BY RingCounts DEF Ring!SetToSeqs, SetToSeqs
<1>2. \A s : Ring!ToSet(s) = ToSet(s)
    BY DEF Ring!ToSet, ToSet
<1>3. \A s : Ring!InOrder(s) <=> \A i, j \in 1 .. Len(s) : i < j => s[i].hash <= s[j].hash
    BY DEF Ring!InOrder, Ring!IsSorted
<1>4. \A s : Ring!IsInjective(s) <=> \A i, j \in DOMAIN s : s[i] = s[j] => i = j
    BY DEF Ring!IsInjective
<1>5. QED BY <1>1, <1>2, <1>3, <1>4

\* The points of a set of shards.
LEMMA PointFacts ==
    ASSUME NEW S \in SUBSET Shard
    PROVE  /\ IsFiniteSet(Ring!Points(S))
           /\ \A p \in Ring!Points(S) : p.shardID \in S /\ p.hash \in Nat
           /\ \A s \in S : \E p \in Ring!Points(S) : p.shardID = s
<1>1. IsFiniteSet(S) /\ IsFiniteSet(1 .. VirtualNodes)
    BY FS_Subset, FS_Interval, RingHashed, RingCounts DEF Ring!HashesAreNumbers
<1>2. IsFiniteSet(S \X (1 .. VirtualNodes))
    BY <1>1, FS_Product
<1> DEFINE f == [x \in S \X (1 .. VirtualNodes) |->
                    [hash |-> VHash[x[1]][x[2]], shardID |-> x[1], vnode |-> x[2]]]
<1>3. f \in Surjection(S \X (1 .. VirtualNodes), Ring!Points(S))
  <2>1. \A x \in S \X (1 .. VirtualNodes) : f[x] \in Ring!Points(S)
      BY DEF Ring!Points
  <2>2. \A p \in Ring!Points(S) : \E x \in S \X (1 .. VirtualNodes) : f[x] = p
    <3>1. TAKE p \in Ring!Points(S)
    <3>2. PICK s \in S, i \in 1 .. VirtualNodes :
              p = [hash |-> VHash[s][i], shardID |-> s, vnode |-> i]
        BY DEF Ring!Points
    <3>3. <<s, i>> \in S \X (1 .. VirtualNodes) /\ f[<<s, i>>] = p
        BY <3>2
    <3>4. QED BY <3>3
  <2>3. QED BY <2>1, <2>2 DEF Surjection
<1>4. IsFiniteSet(Ring!Points(S))
    BY <1>2, <1>3, FS_Surjection
<1>5. \A p \in Ring!Points(S) : p.shardID \in S /\ p.hash \in Nat
    BY RingHashed DEF Ring!HashesAreNumbers, Ring!Points
<1>6. ASSUME NEW s \in S PROVE \E p \in Ring!Points(S) : p.shardID = s
  <2> DEFINE p == [hash |-> VHash[s][1], shardID |-> s, vnode |-> 1]
  <2>1. p \in Ring!Points(S) /\ p.shardID = s
      BY RingHashed DEF Ring!HashesAreNumbers, Ring!Points
  <2>2. QED BY <2>1
<1>7. QED BY <1>4, <1>5, <1>6

\* The ring is sorted and holds the points of the registered shards.
RingInv ==
    /\ Ring!TypeOK
    /\ DOMAIN ring = 1 .. Len(ring) /\ Len(ring) \in Nat

LEMMA RingFacts ==
    ASSUME RingInv
    PROVE  /\ DOMAIN ring = 1 .. Len(ring) /\ Len(ring) \in Nat
           /\ DOMAIN shards \in SUBSET Shard
           /\ \A i \in DOMAIN ring : ring[i] \in Ring!Points(DOMAIN shards)
           /\ \A i \in DOMAIN ring : ring[i].hash \in Nat /\ ring[i].shardID \in DOMAIN shards
           /\ \A p \in Ring!Points(DOMAIN shards) : \E i \in DOMAIN ring : ring[i] = p
           /\ \A i, j \in DOMAIN ring : i < j => ring[i].hash <= ring[j].hash
           /\ \A i, j \in DOMAIN ring : ring[i] = ring[j] => i = j
           /\ ring = << >> <=> DOMAIN shards = {}
<1>1. /\ DOMAIN ring = 1 .. Len(ring) /\ Len(ring) \in Nat
      /\ DOMAIN shards \in SUBSET Shard
    BY DEF RingInv, Ring!TypeOK
<1>2. ToSet(ring) = Ring!Points(DOMAIN shards)
    BY RingOperators DEF RingInv, Ring!TypeOK
<1>3. /\ \A i \in DOMAIN ring : ring[i] \in Ring!Points(DOMAIN shards)
      /\ \A p \in Ring!Points(DOMAIN shards) : \E i \in DOMAIN ring : ring[i] = p
    BY <1>2 DEF ToSet
<1>4. \A i \in DOMAIN ring : ring[i].hash \in Nat /\ ring[i].shardID \in DOMAIN shards
    BY <1>1, <1>3, PointFacts
<1>5. /\ \A i, j \in DOMAIN ring : i < j => ring[i].hash <= ring[j].hash
      /\ \A i, j \in DOMAIN ring : ring[i] = ring[j] => i = j
    BY <1>1, RingOperators DEF RingInv, Ring!TypeOK
<1>6. ring = << >> => DOMAIN shards = {}
    BY <1>1, <1>3, PointFacts, EmptyFacts
<1>7. DOMAIN shards = {} => ring = << >>
  <2>1. ASSUME DOMAIN shards = {} PROVE DOMAIN ring = {}
      BY <2>1, <1>4
  <2>2. DOMAIN ring = {} => ring = << >>
      BY <1>1
  <2>3. QED BY <2>1, <2>2
<1>8. QED BY <1>1, <1>3, <1>4, <1>5, <1>6, <1>7

\* Sorting a set of points gives a ring of them.
LEMMA SortedRing ==
    ASSUME NEW D \in SUBSET Shard, NEW r \in SetToSeqs(Ring!Points(D))
    PROVE  /\ DOMAIN r = 1 .. Len(r) /\ Len(r) \in Nat
           /\ Ring!IsInjective(r) /\ Ring!ToSet(r) = Ring!Points(D)
<1>1. IsFiniteSet(Ring!Points(D))
    BY PointFacts
<1>2. QED BY <1>1, PermutationFacts, RingOperators

LEMMA RingInit == Ring!Init => RingInv
<1> SUFFICES ASSUME Ring!Init PROVE RingInv OBVIOUS
<1>1. shards = << >> /\ ring = << >>
    BY DEF Ring!Init
<1>2. DOMAIN shards = {} /\ DOMAIN ring = {} /\ Len(ring) = 0
    BY <1>1, EmptyFacts
<1>3. Ring!Points({}) = {}
    BY DEF Ring!Points
<1>4. Ring!ToSet(ring) = {} /\ Ring!InOrder(ring) /\ Ring!IsInjective(ring)
    BY <1>2, RingOperators DEF ToSet
<1>5. QED BY <1>2, <1>3, <1>4 DEF RingInv, Ring!TypeOK

\* Shards are given indices below their number.
LEMMA AddShardStep ==
    ASSUME RingInv, NEW s \in Shard, Ring!AddShard(s)
    PROVE  /\ DOMAIN shards' = DOMAIN shards \cup {s} /\ s \notin DOMAIN shards
           /\ RingInv'
<1> DEFINE D == DOMAIN shards
           E == D \cup {s}
<1>1. s \notin D /\ D \in SUBSET Shard /\ E \in SUBSET Shard
    BY RingFacts DEF Ring!AddShard
<1>2. shards' = [x \in E |-> IF x = s THEN Cardinality(D) ELSE shards[x]]
    BY RingCounts DEF Ring!AddShard
<1>3. DOMAIN shards' = E
    BY <1>2
<1>4. IsFiniteSet(Shard) /\ IsFiniteSet(D) /\ IsFiniteSet(E)
    BY <1>1, FS_Subset, RingHashed, RingCounts DEF Ring!HashesAreNumbers
<1>5. Cardinality(D) \in Nat /\ Cardinality(Shard) \in Nat /\ Cardinality(D) + 1 <= Cardinality(Shard)
  <2>1. Cardinality(E) = Cardinality(D) + 1
      BY <1>1, <1>4, FS_AddElement
  <2>2. Cardinality(E) <= Cardinality(Shard)
      BY <1>1, <1>4, FS_Subset
  <2>3. QED BY <2>1, <2>2, <1>4, FS_CardinalityType
<1>6. \A x \in E : shards'[x] \in 0 .. Cardinality(Shard) - 1
  <2>1. \A x \in D : shards[x] \in 0 .. Cardinality(Shard) - 1
      BY RingCounts DEF RingInv, Ring!TypeOK
  <2>2. Cardinality(D) \in 0 .. Cardinality(Shard) - 1
      BY <1>5
  <2>3. QED BY <1>2, <2>1, <2>2
<1>7. Ring!ToSet(ring) \cup Ring!Points({s}) = Ring!Points(E)
    BY DEF RingInv, Ring!TypeOK, Ring!Points
<1>8. ring' \in SetToSeqs(Ring!Points(E)) /\ Ring!InOrder(ring')
    BY <1>7, RingOperators DEF Ring!AddShard, Ring!Sortings
<1>9. /\ DOMAIN ring' = 1 .. Len(ring') /\ Len(ring') \in Nat
      /\ Ring!IsInjective(ring') /\ Ring!ToSet(ring') = Ring!Points(E)
    BY <1>1, <1>8, SortedRing
<1> HIDE DEF E, D
<1>10. RingInv'
    BY <1>1, <1>3, <1>6, <1>8, <1>9, RingCounts DEF RingInv, Ring!TypeOK
<1>11. QED BY <1>1, <1>3, <1>10 DEF E, D

\* The entries that are left keep their order.
LEMMA RemoveShardStep ==
    ASSUME RingInv, NEW s \in Shard, Ring!RemoveShard(s)
    PROVE  /\ DOMAIN shards' = DOMAIN shards \ {s} /\ s \in DOMAIN shards
           /\ \A i, j \in DOMAIN ring', k, l \in DOMAIN ring :
                 ring'[i] = ring[k] /\ ring'[j] = ring[l] /\ i < j => k < l
           /\ RingInv'
<1> DEFINE D == DOMAIN shards
           E == D \ {s}
<1>1. s \in D /\ D \in SUBSET Shard /\ E \in SUBSET Shard
    BY RingFacts DEF Ring!RemoveShard
<1>2. shards' = [x \in E |-> shards[x]]
    BY DEF Ring!RemoveShard
<1>3. DOMAIN shards' = E
    BY <1>2
<1>4. \A x \in E : shards'[x] \in 0 .. Cardinality(Shard) - 1
    BY <1>2, RingCounts DEF RingInv, Ring!TypeOK
<1>5. {e \in Ring!ToSet(ring) : e.shardID # s} = Ring!Points(E)
  <2>1. Ring!ToSet(ring) = Ring!Points(D)
      BY DEF RingInv, Ring!TypeOK
  <2>2. {e \in Ring!Points(D) : e.shardID # s} = Ring!Points(E)
      BY DEF Ring!Points
  <2>3. QED BY <2>1, <2>2
<1>6. /\ ring' \in SetToSeqs(Ring!Points(E))
      /\ \A i, j \in DOMAIN ring', k, l \in DOMAIN ring :
            ring'[i] = ring[k] /\ ring'[j] = ring[l] /\ i < j => k < l
    BY <1>5, RingOperators DEF Ring!RemoveShard, Ring!Without
<1>7. /\ DOMAIN ring' = 1 .. Len(ring') /\ Len(ring') \in Nat
      /\ Ring!IsInjective(ring') /\ Ring!ToSet(ring') = Ring!Points(E)
    BY <1>1, <1>6, SortedRing
<1>8. ASSUME NEW i \in 1 .. Len(ring'), NEW j \in 1 .. Len(ring'), i < j
      PROVE  ring'[i].hash <= ring'[j].hash
  <2>1. ring'[i] \in Ring!Points(E) /\ ring'[j] \in Ring!Points(E)
      BY <1>7, RingOperators DEF ToSet
  <2>2. ring'[i] \in Ring!Points(D) /\ ring'[j] \in Ring!Points(D)
      BY <2>1 DEF Ring!Points
  <2>3. PICK k, l \in DOMAIN ring : ring'[i] = ring[k] /\ ring'[j] = ring[l]
      BY <2>2, RingFacts
  <2>4. k < l
      BY <1>6, <1>7, <1>8, <2>3
  <2>5. QED BY <2>3, <2>4, RingFacts
<1>9. Ring!InOrder(ring')
    BY <1>8, RingOperators
<1> HIDE DEF E, D
<1>10. RingInv'
    BY <1>1, <1>3, <1>4, <1>7, <1>9, RingCounts DEF RingInv, Ring!TypeOK
<1>11. QED BY <1>1, <1>3, <1>6, <1>10 DEF E, D

LEMMA RingStepKeepsInv == RingInv /\ [Ring!Next]_ringVars => RingInv'
<1> SUFFICES ASSUME RingInv, [Ring!Next]_ringVars PROVE RingInv' OBVIOUS
<1>1. CASE Ring!Next
    BY <1>1, AddShardStep, RemoveShardStep DEF Ring!Next
<1>2. CASE UNCHANGED ringVars
    BY <1>2 DEF ringVars, RingInv, Ring!TypeOK, Ring!InOrder, Ring!IsSorted
<1>3. QED BY <1>1, <1>2


\* The lookup finds the first entry at or after the key, or the first of all.
FoundAt(k, idx) ==
    /\ Ring!GetShard(k) = ring[idx].shardID
    /\ \/ /\ ring[idx].hash >= KHash[k]
          /\ \A j \in DOMAIN ring : ring[j].hash >= KHash[k] => idx <= j
       \/ /\ idx = 1
          /\ \A j \in DOMAIN ring : ring[j].hash < KHash[k]

LEMMA LookupFacts ==
    ASSUME RingInv, NEW k \in Key, ring # << >>
    PROVE  \E idx \in DOMAIN ring : FoundAt(k, idx)
<1> DEFINE after == {i \in DOMAIN ring : ring[i].hash >= KHash[k]}
<1>1. DOMAIN ring = 1 .. Len(ring) /\ Len(ring) \in Nat /\ KHash[k] \in Nat
    BY RingFacts, RingHashed DEF Ring!HashesAreNumbers
<1>2. 1 \in DOMAIN ring
  <2>1. DOMAIN ring # {}
      BY <1>1
  <2>2. QED BY <2>1, <1>1
<1>3. \A j \in DOMAIN ring : ring[j].hash \in Nat
    BY RingFacts
<1>4. CASE after = {}
  <2>1. Ring!GetShard(k) = ring[1].shardID
      BY <1>4 DEF Ring!GetShard
  <2>2. \A j \in DOMAIN ring : ring[j].hash < KHash[k]
      BY <1>1, <1>3, <1>4
  <2>3. QED BY <1>2, <2>1, <2>2 DEF FoundAt
<1>5. CASE after # {}
  <2>1. after \in SUBSET Nat
      BY <1>1
  <2>2. \E m \in after : \A j \in after : m <= j
      BY <1>5, <2>1, LeastNatural
  <2>3. Ring!GetShard(k) = ring[CHOOSE i \in after : \A j \in after : i <= j].shardID
      BY <1>5 DEF Ring!GetShard
  <2> DEFINE idx == CHOOSE i \in after : \A j \in after : i <= j
  <2>4. idx \in after /\ \A j \in after : idx <= j
      BY <2>2
  <2> HIDE DEF idx
  <2>5. Ring!GetShard(k) = ring[idx].shardID
      BY <2>3 DEF idx
  <2>6. QED BY <2>4, <2>5 DEF FoundAt
<1>6. QED BY <1>4, <1>5

LEMMA OwnerFromInv == RingInv => Ring!OwnerIsSuccessor
<1> SUFFICES ASSUME RingInv, NEW k \in Key
             PROVE  IF DOMAIN shards = {} THEN Ring!GetShard(k) = NoShard
                    ELSE Ring!GetShard(k) \in Ring!Successors(DOMAIN shards, k)
    BY DEF Ring!OwnerIsSuccessor, Ring!Owner
<1> DEFINE D == DOMAIN shards
           P == Ring!Points(D)
<1>1. CASE D = {}
  <2>1. ring = << >>
      BY <1>1, RingFacts
  <2>2. QED BY <1>1, <2>1 DEF Ring!GetShard
<1>2. CASE D # {}
  <2>1. ring # << >>
      BY <1>2, RingFacts
  <2>2. PICK idx \in DOMAIN ring : FoundAt(k, idx)
      BY <2>1, LookupFacts
  <2>3. /\ DOMAIN ring = 1 .. Len(ring) /\ Len(ring) \in Nat
        /\ ring[idx] \in P
        /\ \A p \in P : \E i \in DOMAIN ring : ring[i] = p
        /\ \A i, j \in DOMAIN ring : i < j => ring[i].hash <= ring[j].hash
        /\ \A i \in DOMAIN ring : ring[i].hash \in Nat
      BY RingFacts
  <2>4. KHash[k] \in Nat
      BY RingHashed DEF Ring!HashesAreNumbers
  <2>5. \A i \in DOMAIN ring : idx <= i => ring[idx].hash <= ring[i].hash
      BY <2>3
  <2> DEFINE after == {p \in P : p.hash >= KHash[k]}
             candidates == IF after = {} THEN P ELSE after
  <2>6. ring[idx] \in candidates /\ \A o \in candidates : ring[idx].hash <= o.hash
    <3>1. CASE ring[idx].hash >= KHash[k]
      <4>1. ring[idx] \in after /\ candidates = after
          BY <2>3, <3>1
      <4>2. ASSUME NEW o \in after PROVE ring[idx].hash <= o.hash
        <5>1. PICK i \in DOMAIN ring : ring[i] = o
            BY <2>3
        <5>2. ring[i].hash >= KHash[k]
            BY <5>1
        <5>3. idx <= i
            BY <5>2, <3>1, <2>2, <2>3, <2>4 DEF FoundAt
        <5>4. QED BY <5>1, <5>3, <2>5
      <4>3. QED BY <4>1, <4>2
    <3>2. CASE ~(ring[idx].hash >= KHash[k])
      <4>1. idx = 1 /\ \A j \in DOMAIN ring : ring[j].hash < KHash[k]
          BY <2>2, <3>2 DEF FoundAt
      <4>2. after = {}
          BY <4>1, <2>3, <2>4
      <4>3. ASSUME NEW o \in P PROVE ring[idx].hash <= o.hash
        <5>1. PICK i \in DOMAIN ring : ring[i] = o
            BY <2>3
        <5>2. QED BY <5>1, <4>1, <2>3, <2>5
      <4>4. QED BY <4>2, <4>3, <2>3
    <3>3. QED BY <3>1, <3>2
  <2>7. Ring!Successors(D, k) = {p.shardID : p \in {c \in candidates : \A o \in candidates : c.hash <= o.hash}}
      BY DEF Ring!Successors
  <2> HIDE DEF candidates, D
  <2>8. ring[idx].shardID \in Ring!Successors(D, k)
      BY <2>6, <2>7
  <2>9. QED BY <1>2, <2>2, <2>8 DEF D, FoundAt
<1>3. QED BY <1>1, <1>2

\* A successor among some shards is one among fewer, if it is one of them.
LEMMA SuccessorsShrink ==
    ASSUME NEW T \in SUBSET Shard, NEW S \in SUBSET T, NEW k \in Key,
           NEW x \in Ring!Successors(T, k), x \in S
    PROVE  x \in Ring!Successors(S, k)
<1> DEFINE after(U) == {p \in Ring!Points(U) : p.hash >= KHash[k]}
           candidates(U) == IF after(U) = {} THEN Ring!Points(U) ELSE after(U)
           firsts(U) == {c \in candidates(U) : \A o \in candidates(U) : c.hash <= o.hash}
<1>1. \A U : Ring!Successors(U, k) = {p.shardID : p \in firsts(U)}
    BY DEF Ring!Successors
<1>2. PICK c \in firsts(T) : x = c.shardID
    BY <1>1
<1>3. Ring!Points(S) \subseteq Ring!Points(T)
    BY DEF Ring!Points
<1>4. c \in Ring!Points(T) /\ c \in candidates(T) /\ \A o \in candidates(T) : c.hash <= o.hash
    BY <1>2
<1>5. c \in Ring!Points(S)
    BY <1>2, <1>4 DEF Ring!Points
<1>6. CASE after(T) = {}
    BY <1>2, <1>3, <1>4, <1>5, <1>6, <1>1
<1>7. CASE after(T) # {}
  <2>1. c \in after(S)
      BY <1>4, <1>5, <1>7
  <2>2. candidates(S) = after(S) /\ candidates(S) \subseteq candidates(T)
      BY <2>1, <1>3, <1>7
  <2>3. c \in firsts(S)
      BY <2>1, <2>2, <1>4
  <2>4. QED BY <2>3, <1>1, <1>2
<1>8. QED BY <1>6, <1>7

\* What may happen to the owner of a key in a step.
OwnerMoves(k) ==
    Ring!GetShard(k)' # Ring!GetShard(k) =>
        \/ Ring!GetShard(k)' \in DOMAIN shards' \ DOMAIN shards
        \/ Ring!GetShard(k) \notin DOMAIN shards'
        \/ /\ DOMAIN shards \subseteq DOMAIN shards'
           /\ {Ring!GetShard(k), Ring!GetShard(k)'} \subseteq Ring!Successors(DOMAIN shards, k)

LEMMA AddShardMoves ==
    ASSUME RingInv, NEW s \in Shard, Ring!AddShard(s), NEW k \in Key
    PROVE  OwnerMoves(k)
<1> DEFINE D == DOMAIN shards
           E == D \cup {s}
<1>1. DOMAIN shards' = E /\ s \notin D /\ RingInv' /\ D \in SUBSET Shard /\ E \in SUBSET Shard
    BY AddShardStep, RingFacts
<1>2. Ring!OwnerIsSuccessor /\ Ring!OwnerIsSuccessor'
  <2>1. (RingInv => Ring!OwnerIsSuccessor)'
      BY OwnerFromInv, PTL
  <2>2. QED BY <2>1, <1>1, OwnerFromInv
<1>3. Ring!GetShard(k)' \in Ring!Successors(E, k)
  <2>1. DOMAIN shards' # {}
      BY <1>1
  <2>2. Ring!GetShard(k)' \in Ring!Successors(DOMAIN shards', k)
      BY <1>2, <2>1 DEF Ring!OwnerIsSuccessor, Ring!Owner, Ring!Successors, Ring!Points
  <2>3. QED BY <2>2, <1>1
<1>4. Ring!GetShard(k)' \in E
    BY <1>3 DEF Ring!Successors, Ring!Points
<1>5. CASE Ring!GetShard(k)' = s
    BY <1>1, <1>5 DEF OwnerMoves
<1>6. CASE Ring!GetShard(k)' # s
  <2>1. Ring!GetShard(k)' \in D
      BY <1>4, <1>6
  <2>2. Ring!GetShard(k)' \in Ring!Successors(D, k)
      BY <1>1, <1>3, <2>1, SuccessorsShrink
  <2>3. Ring!GetShard(k) \in Ring!Successors(D, k)
      BY <1>2, <2>1 DEF Ring!OwnerIsSuccessor, Ring!Owner
  <2>4. QED BY <1>1, <2>2, <2>3 DEF OwnerMoves
<1>7. QED BY <1>5, <1>6

\* What the invariant says of the next ring.
Listed ==
    /\ DOMAIN ring = 1 .. Len(ring) /\ Len(ring) \in Nat
    /\ \A i \in DOMAIN ring : ring[i] \in Ring!Points(DOMAIN shards)
    /\ \A p \in Ring!Points(DOMAIN shards) : \E i \in DOMAIN ring : ring[i] = p

LEMMA NextRing ==
    (RingInv' => Listed')
    /\ (RingInv' /\ ring' # << >> => \A k \in Key : \E idx \in DOMAIN ring' : FoundAt(k, idx)')
<1>1. (RingInv => Listed) /\ (RingInv /\ ring # << >> => \A k \in Key : \E idx \in DOMAIN ring : FoundAt(k, idx))
    BY RingFacts, LookupFacts DEF Listed
<1>2. ((RingInv => Listed) /\ (RingInv /\ ring # << >> => \A k \in Key : \E idx \in DOMAIN ring : FoundAt(k, idx)))'
    BY <1>1, PTL
<1>3. QED BY <1>2

LEMMA RemoveShardMoves ==
    ASSUME RingInv, NEW s \in Shard, Ring!RemoveShard(s), NEW k \in Key
    PROVE  OwnerMoves(k)
<1>1. /\ DOMAIN shards' = DOMAIN shards \ {s} /\ s \in DOMAIN shards /\ RingInv'
      /\ \A i, j \in DOMAIN ring', a, b \in DOMAIN ring :
            ring'[i] = ring[a] /\ ring'[j] = ring[b] /\ i < j => a < b
    BY RemoveShardStep
<1>2. ring # << >>
    BY <1>1, RingFacts
<1>3. PICK idx \in DOMAIN ring : FoundAt(k, idx)
    BY <1>2, LookupFacts
<1>4. CASE ring[idx].shardID = s
    BY <1>1, <1>3, <1>4 DEF OwnerMoves, FoundAt
<1>5. CASE ring[idx].shardID # s
  <2>1. /\ DOMAIN ring = 1 .. Len(ring) /\ Len(ring) \in Nat
        /\ ring[idx] \in Ring!Points(DOMAIN shards)
        /\ \A p \in Ring!Points(DOMAIN shards) : \E i \in DOMAIN ring : ring[i] = p
        /\ \A i \in DOMAIN ring : ring[i].hash \in Nat
      BY RingFacts
  <2>2. KHash[k] \in Nat
      BY RingHashed DEF Ring!HashesAreNumbers
  <2>4. /\ DOMAIN ring' = 1 .. Len(ring') /\ Len(ring') \in Nat
        /\ \A i \in DOMAIN ring' : ring'[i] \in Ring!Points(DOMAIN shards')
        /\ \A p \in Ring!Points(DOMAIN shards') : \E i \in DOMAIN ring' : ring'[i] = p
      BY <1>1, NextRing DEF Listed, Ring!Points
  <2>5. Ring!Points(DOMAIN shards') = {p \in Ring!Points(DOMAIN shards) : p.shardID # s}
      BY <1>1 DEF Ring!Points
  <2>6. PICK m \in DOMAIN ring' : ring'[m] = ring[idx]
      BY <1>5, <2>1, <2>4, <2>5
  <2>7. ring' # << >>
      BY <2>6
  <2>8. PICK jdx \in DOMAIN ring' : FoundAt(k, jdx)'
      BY <1>1, <2>7, NextRing
  <2>9. /\ Ring!GetShard(k)' = ring'[jdx].shardID
        /\ \/ /\ ring'[jdx].hash >= KHash[k]
              /\ \A j \in DOMAIN ring' : ring'[j].hash >= KHash[k] => jdx <= j
           \/ /\ jdx = 1
              /\ \A j \in DOMAIN ring' : ring'[j].hash < KHash[k]
      BY <2>8 DEF FoundAt
  <2>10. PICK n \in DOMAIN ring : ring'[jdx] = ring[n]
      BY <2>1, <2>4, <2>5
  <2>11. ring'[jdx] = ring[idx]
    <3>1. jdx < m => n < idx
        BY <1>1, <2>6, <2>10
    <3>2. ring[idx].hash \in Nat /\ ring[n].hash \in Nat
        BY <2>1
    <3>3. CASE ring[idx].hash >= KHash[k]
      <4>1. ring'[m].hash >= KHash[k]
          BY <2>6, <3>3
      <4>2. ring'[jdx].hash >= KHash[k] /\ jdx <= m
          BY <4>1, <2>9, <2>6, <2>2, <3>2
      <4>3. ~(n < idx)
          BY <4>2, <2>10, <1>3, <2>1, <2>2, <3>2, <3>3 DEF FoundAt
      <4>4. jdx = m
          BY <4>2, <4>3, <3>1, <2>4
      <4>5. QED BY <4>4, <2>6
    <3>4. CASE ~(ring[idx].hash >= KHash[k])
      <4>1. idx = 1 /\ \A j \in DOMAIN ring : ring[j].hash < KHash[k]
          BY <1>3, <3>4 DEF FoundAt
      <4>2. jdx = 1
          BY <4>1, <2>9, <2>10, <2>2, <3>2
      <4>3. ~(n < idx)
          BY <4>1, <2>1
      <4>4. jdx = m
          BY <4>2, <4>3, <3>1, <2>4
      <4>5. QED BY <4>4, <2>6
    <3>5. QED BY <3>3, <3>4
  <2>12. QED BY <1>3, <2>9, <2>11 DEF OwnerMoves, FoundAt
<1>6. QED BY <1>4, <1>5

LEMMA RingStepMovesLittle ==
    RingInv /\ [Ring!Next]_ringVars => \A k \in Key : OwnerMoves(k)
<1> SUFFICES ASSUME RingInv, [Ring!Next]_ringVars, NEW k \in Key PROVE OwnerMoves(k) OBVIOUS
<1>1. CASE Ring!Next
    BY <1>1, AddShardMoves, RemoveShardMoves DEF Ring!Next
<1>2. CASE UNCHANGED ringVars
    BY <1>2 DEF ringVars, OwnerMoves, Ring!GetShard
<1>3. QED BY <1>1, <1>2

-----------------------------------------------------------------------------
(***************************************************************************)
(* The CPU statistics: for any number of CPUs and however long they run.   *)
(***************************************************************************)

CpuTypes ==
    /\ uptime \in Nat /\ Boot <= uptime /\ uptime <= CpuEnd /\ attached \subseteq Cpu!Program
    /\ running \in [CPU -> {"idle", "task"}]
    /\ softirq \in [CPU -> [vec : {"none", "net", "other"}, time : Nat]]
    /\ softirqStart \in [CPU -> Nat]
    /\ truth \in [CPU -> [task : Nat, idle : Nat, soft : Nat, blind : BOOLEAN]]
    /\ DOMAIN cpuStats \subseteq CPU
    /\ \A c \in DOMAIN cpuStats : cpuStats[c] \in [task : Nat, idle : Nat, last : Nat]
    /\ DOMAIN softirqStats \subseteq CPU
    /\ \A c \in DOMAIN softirqStats : softirqStats[c] \in [total : Nat, net : Nat]

\* A softirq under way began when its entry was noted, or nothing was.
Starts ==
    /\ "handle_softirq_entry" \notin attached => \A c \in CPU : softirqStart[c] = 0
    /\ \A c \in CPU : /\ softirqStart[c] <= uptime
                      /\ softirq[c].vec = "none" => softirq[c].time = 0
                      /\ softirq[c].time <= uptime - Boot
                      /\ softirq[c].vec # "none" =>
                            softirqStart[c] = 0 \/ softirqStart[c] + softirq[c].time = uptime

\* What is counted of a CPU and what is not yet add up to the time that passed.
Switches ==
    /\ "handle_sched_switch" \notin attached => DOMAIN cpuStats = {}
    /\ \A c \in CPU :
        IF c \in DOMAIN cpuStats
        THEN /\ cpuStats[c].last <= uptime
             /\ truth[c].task = cpuStats[c].task
                    + (IF running[c] = "task" THEN uptime - cpuStats[c].last ELSE 0)
             /\ truth[c].idle = cpuStats[c].idle
                    + (IF running[c] = "idle" THEN uptime - cpuStats[c].last ELSE 0)
        ELSE truth[c].task = 0 /\ truth[c].idle = 0

Softirqs ==
    \A c \in CPU :
        IF c \in DOMAIN softirqStats
        THEN /\ softirqStats[c].net <= softirqStats[c].total
             /\ truth[c].blind => softirqStats[c].total > truth[c].soft
             /\ ~truth[c].blind => softirqStats[c].total = truth[c].soft
        ELSE truth[c].soft = 0 /\ ~truth[c].blind

CpuInv == CpuTypes /\ Starts /\ Switches /\ Softirqs

LEMMA CpuInit == Cpu!Init => CpuInv
<1> SUFFICES ASSUME Cpu!Init PROVE CpuInv OBVIOUS
<1>1. DOMAIN cpuStats = {} /\ DOMAIN softirqStats = {}
    BY EmptyFacts DEF Cpu!Init
<1>2. Boot \in Nat \ {0} /\ CpuEnd \in Nat /\ Boot <= CpuEnd
    BY CpuClockRuns DEF Cpu!ClockRuns
<1>3. CpuTypes
    BY <1>1, <1>2 DEF Cpu!Init, CpuTypes, Cpu!NoSoftirq
<1>4. Starts
    BY <1>1, <1>2 DEF Cpu!Init, Starts, Cpu!NoSoftirq
<1>5. Switches /\ Softirqs
    BY <1>1 DEF Cpu!Init, Switches, Softirqs
<1>6. QED BY <1>3, <1>4, <1>5 DEF CpuInv

LEMMA CpuTickKeepsInv == ASSUME CpuInv, Cpu!Tick PROVE CpuInv'
<1>1. /\ uptime' = uptime + 1 /\ uptime + 1 <= CpuEnd /\ CpuEnd \in Nat
      /\ attached' = attached /\ running' = running /\ cpuStats' = cpuStats
      /\ softirqStart' = softirqStart /\ softirqStats' = softirqStats
    BY CpuClockRuns DEF CpuInv, CpuTypes, Cpu!Tick, Cpu!ClockRuns
<1>2. \A c \in CPU :
          truth'[c] = IF c \in DOMAIN cpuStats THEN Cpu!Passed(truth[c], running[c]) ELSE truth[c]
    BY DEF Cpu!Tick
<1>3. \A c \in CPU :
          softirq'[c] = IF softirq[c] = Cpu!NoSoftirq THEN Cpu!NoSoftirq
                        ELSE [vec |-> softirq[c].vec, time |-> softirq[c].time + 1]
    BY DEF Cpu!Tick
<1>4. truth' = [c \in CPU |-> truth'[c]] /\ softirq' = [c \in CPU |-> softirq'[c]]
    BY DEF Cpu!Tick
<1>5. /\ uptime \in Nat /\ Boot \in Nat /\ Boot <= uptime
      /\ \A c \in CPU : /\ truth[c].task \in Nat /\ truth[c].idle \in Nat /\ truth[c].soft \in Nat
                        /\ truth[c].blind \in BOOLEAN
                        /\ truth[c] \in [task : Nat, idle : Nat, soft : Nat, blind : BOOLEAN]
                        /\ softirq[c].vec \in {"none", "net", "other"} /\ softirq[c].time \in Nat
                        /\ running[c] \in {"idle", "task"} /\ softirqStart[c] \in Nat
      /\ \A c \in DOMAIN cpuStats : /\ cpuStats[c].last \in Nat /\ cpuStats[c].task \in Nat
                                    /\ cpuStats[c].idle \in Nat
    BY CpuClockRuns DEF CpuInv, CpuTypes, Cpu!ClockRuns
<1>6. Starts /\ Switches /\ Softirqs
    BY DEF CpuInv
<1>7. ASSUME NEW c \in CPU
      PROVE  softirq'[c] \in [vec : {"none", "net", "other"}, time : Nat]
  <2>1. Cpu!NoSoftirq \in [vec : {"none", "net", "other"}, time : Nat]
      BY DEF Cpu!NoSoftirq
  <2>2. [vec |-> softirq[c].vec, time |-> softirq[c].time + 1] \in [vec : {"none", "net", "other"}, time : Nat]
      BY <1>5
  <2>3. QED BY <1>3, <2>1, <2>2
<1>8. ASSUME NEW c \in CPU
      PROVE  truth'[c] \in [task : Nat, idle : Nat, soft : Nat, blind : BOOLEAN]
  <2>1. Cpu!Passed(truth[c], running[c]) \in [task : Nat, idle : Nat, soft : Nat, blind : BOOLEAN]
      BY <1>5 DEF Cpu!Passed
  <2>2. QED BY <1>2, <1>5, <2>1
<1>9. CpuTypes'
  <2>1. softirq' \in [CPU -> [vec : {"none", "net", "other"}, time : Nat]]
      BY <1>4, <1>7
  <2>2. truth' \in [CPU -> [task : Nat, idle : Nat, soft : Nat, blind : BOOLEAN]]
      BY <1>4, <1>8
  <2>3. CpuTypes
      BY DEF CpuInv
  <2>4. uptime' \in Nat /\ Boot <= uptime' /\ uptime' <= CpuEnd
      BY <1>1, <1>5
  <2>5. QED BY <1>1, <2>1, <2>2, <2>3, <2>4 DEF CpuTypes
<1>10. \A c \in CPU :
              /\ softirqStart[c] <= uptime'
              /\ softirq'[c].vec = "none" => softirq'[c].time = 0
              /\ softirq'[c].time <= uptime' - Boot
              /\ softirq'[c].vec # "none" =>
                    softirqStart[c] = 0 \/ softirqStart[c] + softirq'[c].time = uptime'
  <2> TAKE c \in CPU
  <2>1. /\ softirqStart[c] <= uptime /\ softirqStart[c] \in Nat
        /\ softirq[c].vec = "none" => softirq[c].time = 0
        /\ softirq[c].time <= uptime - Boot /\ softirq[c].time \in Nat
        /\ softirq[c].vec # "none" =>
              softirqStart[c] = 0 \/ softirqStart[c] + softirq[c].time = uptime
      BY <1>5, <1>6 DEF Starts
  <2>2. CASE softirq[c] = Cpu!NoSoftirq
    <3>1. softirq'[c] = [vec |-> "none", time |-> 0]
        BY <1>3, <2>2 DEF Cpu!NoSoftirq
    <3>2. softirq'[c].vec = "none" /\ softirq'[c].time = 0
        BY <3>1
    <3>3. QED BY <1>1, <1>5, <2>1, <3>2
  <2>3. CASE softirq[c] # Cpu!NoSoftirq
    <3>0. softirq'[c] = [vec |-> softirq[c].vec, time |-> softirq[c].time + 1]
        BY <1>3, <2>3
    <3>1. softirq'[c].vec = softirq[c].vec /\ softirq'[c].time = softirq[c].time + 1
        BY <3>0
    <3>2. softirq[c].vec # "none"
      <4>1. softirq[c] \in [vec : {"none", "net", "other"}, time : Nat]
          BY DEF CpuInv, CpuTypes
      <4>2. QED BY <2>1, <2>3, <4>1 DEF Cpu!NoSoftirq
    <3>3. QED BY <1>1, <1>5, <2>1, <3>1, <3>2
  <2>4. QED BY <2>2, <2>3
<1>11. Starts'
  <2>1. \A c \in CPU : softirqStart'[c] = softirqStart[c]
      BY <1>1
  <2>2. "handle_softirq_entry" \notin attached' => \A c \in CPU : softirqStart'[c] = 0
      BY <1>1, <1>6 DEF Starts
  <2>3. \A c \in CPU :
              /\ softirqStart'[c] <= uptime'
              /\ softirq'[c].vec = "none" => softirq'[c].time = 0
              /\ softirq'[c].time <= uptime' - Boot
              /\ softirq'[c].vec # "none" =>
                    softirqStart'[c] = 0 \/ softirqStart'[c] + softirq'[c].time = uptime'
      BY <1>10, <2>1
  <2>4. QED BY <2>2, <2>3 DEF Starts
<1>12. \A c \in CPU :
              IF c \in DOMAIN cpuStats
              THEN /\ cpuStats[c].last <= uptime'
                   /\ truth'[c].task = cpuStats[c].task
                          + (IF running[c] = "task" THEN uptime' - cpuStats[c].last ELSE 0)
                   /\ truth'[c].idle = cpuStats[c].idle
                          + (IF running[c] = "idle" THEN uptime' - cpuStats[c].last ELSE 0)
              ELSE truth'[c].task = 0 /\ truth'[c].idle = 0
  <2> TAKE c \in CPU
  <2>1. CASE c \notin DOMAIN cpuStats
      BY <1>2, <1>6, <2>1 DEF Switches
  <2>2. CASE c \in DOMAIN cpuStats
    <3>1. /\ cpuStats[c].last <= uptime
          /\ truth[c].task = cpuStats[c].task
                 + (IF running[c] = "task" THEN uptime - cpuStats[c].last ELSE 0)
          /\ truth[c].idle = cpuStats[c].idle
                 + (IF running[c] = "idle" THEN uptime - cpuStats[c].last ELSE 0)
        BY <1>6, <2>2 DEF Switches
    <3>2. /\ truth'[c].task = truth[c].task + IF running[c] = "task" THEN 1 ELSE 0
          /\ truth'[c].idle = truth[c].idle + IF running[c] = "idle" THEN 1 ELSE 0
      <4>1. truth'[c] = Cpu!Passed(truth[c], running[c])
          BY <1>2, <2>2
      <4>2. QED BY <4>1 DEF Cpu!Passed
    <3>3. QED BY <1>1, <1>5, <2>2, <3>1, <3>2
  <2>3. QED BY <2>1, <2>2
<1>13. Switches'
  <2>1. "handle_sched_switch" \notin attached' => DOMAIN cpuStats' = {}
      BY <1>1, <1>6 DEF Switches
  <2>2. \A c \in CPU :
              IF c \in DOMAIN cpuStats'
              THEN /\ cpuStats'[c].last <= uptime'
                   /\ truth'[c].task = cpuStats'[c].task
                          + (IF running'[c] = "task" THEN uptime' - cpuStats'[c].last ELSE 0)
                   /\ truth'[c].idle = cpuStats'[c].idle
                          + (IF running'[c] = "idle" THEN uptime' - cpuStats'[c].last ELSE 0)
              ELSE truth'[c].task = 0 /\ truth'[c].idle = 0
      BY <1>1, <1>12
  <2>3. QED BY <2>1, <2>2 DEF Switches
<1>14. Softirqs'
  <2>1. \A c \in CPU : truth'[c].soft = truth[c].soft /\ truth'[c].blind = truth[c].blind
    <3> SUFFICES ASSUME NEW c \in CPU
                 PROVE  truth'[c].soft = truth[c].soft /\ truth'[c].blind = truth[c].blind
        OBVIOUS
    <3>1. truth'[c] = truth[c] \/ truth'[c] = Cpu!Passed(truth[c], running[c])
        BY <1>2
    <3>2. QED BY <3>1 DEF Cpu!Passed
  <2>2. QED BY <1>1, <1>6, <2>1 DEF Softirqs
<1>15. QED BY <1>9, <1>11, <1>13, <1>14 DEF CpuInv

LEMMA AttachKeepsInv == ASSUME CpuInv, NEW p \in Cpu!Program, Cpu!Attach(p) PROVE CpuInv'
BY DEF CpuInv, CpuTypes, Starts, Switches, Softirqs, Cpu!Attach

LEMMA SchedSwitchKeepsInv == ASSUME CpuInv, NEW c \in CPU, Cpu!SchedSwitch(c) PROVE CpuInv'
<1> USE DEF CpuInv, CpuTypes
<1>1. /\ UNCHANGED <<uptime, attached, softirq, softirqStart, softirqStats, truth>>
      /\ running' \in [CPU -> {"idle", "task"}]
      /\ \A d \in CPU \ {c} : running'[d] = running[d]
    BY DEF Cpu!SchedSwitch
<1>2. Starts' /\ Softirqs'
    BY <1>1 DEF Starts, Softirqs
<1>3. CASE "handle_sched_switch" \notin attached
  <2>1. cpuStats' = cpuStats
      BY <1>3 DEF Cpu!SchedSwitch
  <2>2. DOMAIN cpuStats = {}
      BY <1>3 DEF Switches
  <2>3. Switches'
      BY <1>1, <2>1, <2>2 DEF Switches
  <2>4. QED BY <1>1, <1>2, <2>1, <2>3
<1>4. CASE "handle_sched_switch" \in attached
  <2> DEFINE v == IF c \in DOMAIN cpuStats THEN Cpu!Charged(cpuStats[c], running[c], uptime)
                  ELSE [task |-> 0, idle |-> 0, last |-> uptime]
  <2>1. cpuStats' = [x \in DOMAIN cpuStats \cup {c} |-> IF x = c THEN v ELSE cpuStats[x]]
      BY <1>4 DEF Cpu!SchedSwitch, Cpu!Put
  <2>2. /\ v \in [task : Nat, idle : Nat, last : Nat] /\ v.last = uptime
        /\ v.task = truth[c].task /\ v.idle = truth[c].idle
    <3>1. CASE c \notin DOMAIN cpuStats
        BY <3>1 DEF Switches
    <3>2. CASE c \in DOMAIN cpuStats
      <4>1. /\ cpuStats[c] \in [task : Nat, idle : Nat, last : Nat]
            /\ truth[c].task \in Nat /\ truth[c].idle \in Nat /\ running[c] \in {"idle", "task"}
          BY <3>2
      <4>2. /\ cpuStats[c].last <= uptime
            /\ truth[c].task = cpuStats[c].task
                   + (IF running[c] = "task" THEN uptime - cpuStats[c].last ELSE 0)
            /\ truth[c].idle = cpuStats[c].idle
                   + (IF running[c] = "idle" THEN uptime - cpuStats[c].last ELSE 0)
          BY <3>2 DEF Switches
      <4>3. CASE running[c] = "task"
        <5>1. v = [task |-> cpuStats[c].task + (uptime - cpuStats[c].last), idle |-> cpuStats[c].idle, last |-> uptime]
            BY <3>2, <4>1, <4>3 DEF Cpu!Charged
        <5>2. uptime - cpuStats[c].last \in Nat /\ uptime \in Nat
            BY <4>1, <4>2
        <5>3. truth[c].task = cpuStats[c].task + (uptime - cpuStats[c].last) /\ truth[c].idle = cpuStats[c].idle
            BY <4>1, <4>2, <4>3
        <5> HIDE DEF v
        <5>4. v = [task |-> truth[c].task, idle |-> truth[c].idle, last |-> uptime]
            BY <5>1, <5>3
        <5>5. QED BY <4>1, <5>2, <5>4
      <4>4. CASE running[c] = "idle"
        <5>1. v = [task |-> cpuStats[c].task, idle |-> cpuStats[c].idle + (uptime - cpuStats[c].last), last |-> uptime]
            BY <3>2, <4>1, <4>4 DEF Cpu!Charged
        <5>2. uptime - cpuStats[c].last \in Nat /\ uptime \in Nat
            BY <4>1, <4>2
        <5>3. truth[c].task = cpuStats[c].task /\ truth[c].idle = cpuStats[c].idle + (uptime - cpuStats[c].last)
            BY <4>1, <4>2, <4>4
        <5> HIDE DEF v
        <5>4. v = [task |-> truth[c].task, idle |-> truth[c].idle, last |-> uptime]
            BY <5>1, <5>3
        <5>5. QED BY <4>1, <5>2, <5>4
      <4>5. QED BY <4>1, <4>3, <4>4
    <3>3. QED BY <3>1, <3>2
  <2> HIDE DEF v
  <2>3. CpuTypes'
    <3>1. DOMAIN cpuStats' = DOMAIN cpuStats \cup {c} /\ DOMAIN cpuStats' \subseteq CPU
        BY <2>1
    <3>2. \A d \in DOMAIN cpuStats' : cpuStats'[d] \in [task : Nat, idle : Nat, last : Nat]
        BY <2>1, <2>2
    <3>3. QED BY <1>1, <3>1, <3>2
  <2>4. ASSUME NEW d \in CPU
        PROVE  IF d \in DOMAIN cpuStats'
               THEN /\ cpuStats'[d].last <= uptime
                    /\ truth[d].task = cpuStats'[d].task
                           + (IF running'[d] = "task" THEN uptime - cpuStats'[d].last ELSE 0)
                    /\ truth[d].idle = cpuStats'[d].idle
                           + (IF running'[d] = "idle" THEN uptime - cpuStats'[d].last ELSE 0)
               ELSE truth[d].task = 0 /\ truth[d].idle = 0
    <3>1. CASE d = c
      <4>1. d \in DOMAIN cpuStats' /\ cpuStats'[d] = v
          BY <2>1, <3>1
      <4>2. truth[c].task \in Nat /\ truth[c].idle \in Nat
          OBVIOUS
      <4>3. QED BY <2>2, <3>1, <4>1, <4>2
    <3>2. CASE d # c
      <4>1. d \in DOMAIN cpuStats' <=> d \in DOMAIN cpuStats
          BY <2>1, <3>2
      <4>2. d \in DOMAIN cpuStats => cpuStats'[d] = cpuStats[d]
          BY <2>1, <3>2
      <4>3. running'[d] = running[d]
          BY <1>1, <3>2
      <4>4. QED BY <4>1, <4>2, <4>3 DEF Switches
    <3>3. QED BY <3>1, <3>2
  <2>5. Switches'
      BY <1>1, <1>4, <2>4 DEF Switches
  <2>6. QED BY <1>2, <2>3, <2>5
<1>5. QED BY <1>3, <1>4

LEMMA SoftirqEntryKeepsInv == ASSUME CpuInv, NEW c \in CPU, Cpu!SoftirqEntry(c) PROVE CpuInv'
<1> USE DEF CpuInv, CpuTypes
<1>1. PICK v \in {"net", "other"} : softirq' = [softirq EXCEPT ![c] = [vec |-> v, time |-> 0]]
    BY DEF Cpu!SoftirqEntry
<1>2. UNCHANGED <<uptime, attached, running, cpuStats, softirqStats, truth>>
    BY DEF Cpu!SoftirqEntry
<1>3. softirqStart' = IF "handle_softirq_entry" \in attached
                      THEN [softirqStart EXCEPT ![c] = uptime] ELSE softirqStart
    BY DEF Cpu!SoftirqEntry
<1>4. CpuTypes'
    BY <1>1, <1>2, <1>3
<1>5. Switches' /\ Softirqs'
    BY <1>2 DEF Switches, Softirqs
<1>6. Starts'
    BY <1>1, <1>2, <1>3, CpuClockRuns DEF Starts, Cpu!ClockRuns
<1>7. QED BY <1>4, <1>5, <1>6

\* The duration is that of the softirq, or too long when its entry was not seen.
LEMMA SoftirqExitKeepsInv == ASSUME CpuInv, NEW c \in CPU, Cpu!SoftirqExit(c) PROVE CpuInv'
<1> USE DEF CpuInv, CpuTypes
<1>1. /\ UNCHANGED <<uptime, attached, running, cpuStats, softirqStart>>
      /\ softirq' = [softirq EXCEPT ![c] = Cpu!NoSoftirq]
      /\ softirq[c].time > 0 /\ softirq[c] \in [vec : {"none", "net", "other"}, time : Nat]
    BY DEF Cpu!SoftirqExit
<1>2. Starts'
    BY <1>1, CpuClockRuns DEF Starts, Cpu!ClockRuns, Cpu!NoSoftirq
<1>3. CASE "handle_softirq_exit" \notin attached
  <2>1. UNCHANGED <<softirqStats, truth>>
      BY <1>3 DEF Cpu!SoftirqExit
  <2>2. Switches' /\ Softirqs'
      BY <1>1, <2>1 DEF Switches, Softirqs
  <2>3. QED BY <1>1, <1>2, <2>1, <2>2 DEF Cpu!NoSoftirq
<1>4. CASE "handle_softirq_exit" \in attached
  <2> DEFINE delta == uptime - softirqStart[c]
             old == IF c \in DOMAIN softirqStats THEN softirqStats[c] ELSE [total |-> 0, net |-> 0]
             new == [total |-> old.total + delta,
                     net |-> old.net + IF softirq[c].vec = "net" THEN delta ELSE 0]
             was == truth[c]
             is == [task |-> was.task, idle |-> was.idle, soft |-> was.soft + softirq[c].time,
                    blind |-> was.blind \/ softirqStart[c] = 0]
  <2>1. softirqStats' = [x \in DOMAIN softirqStats \cup {c} |-> IF x = c THEN new ELSE softirqStats[x]]
      BY <1>4 DEF Cpu!SoftirqExit, Cpu!Put
  <2>2. was \in [task : Nat, idle : Nat, soft : Nat, blind : BOOLEAN]
      OBVIOUS
  <2>3. truth' = [truth EXCEPT ![c] = is]
      BY <1>4 DEF Cpu!SoftirqExit
  <2>4. delta \in Nat /\ delta >= softirq[c].time
        /\ (softirqStart[c] = 0 => delta > softirq[c].time)
        /\ (softirqStart[c] # 0 => delta = softirq[c].time)
    <3>1. /\ softirqStart[c] \in Nat /\ softirqStart[c] <= uptime
          /\ softirq[c].vec # "none"
          /\ softirq[c].time <= uptime - Boot
          /\ softirqStart[c] = 0 \/ softirqStart[c] + softirq[c].time = uptime
        BY <1>1 DEF Starts
    <3>2. QED BY <1>1, <3>1, CpuClockRuns DEF Cpu!ClockRuns
  <2>5. /\ old \in [total : Nat, net : Nat] /\ old.net <= old.total
        /\ was.blind => old.total > was.soft
        /\ ~was.blind => old.total = was.soft
    <3>1. CASE c \in DOMAIN softirqStats
        BY <3>1 DEF Softirqs
    <3>2. CASE c \notin DOMAIN softirqStats
        BY <3>2 DEF Softirqs
    <3>3. QED BY <3>1, <3>2
  <2> HIDE DEF old
  <2>6. new \in [total : Nat, net : Nat] /\ new.net <= new.total /\ new.total = old.total + delta
      BY <2>4, <2>5
  <2>7. /\ is \in [task : Nat, idle : Nat, soft : Nat, blind : BOOLEAN]
        /\ is.blind => new.total > is.soft
        /\ ~is.blind => new.total = is.soft
        /\ is.task = was.task /\ is.idle = was.idle
    <3>1. is.soft = was.soft + softirq[c].time /\ is.task = was.task /\ is.idle = was.idle
        OBVIOUS
    <3>2. is.blind <=> was.blind \/ softirqStart[c] = 0
        OBVIOUS
    <3>3. was.soft \in Nat /\ softirq[c].time \in Nat /\ old.total \in Nat
        BY <1>1, <2>2, <2>5
    <3>4. is \in [task : Nat, idle : Nat, soft : Nat, blind : BOOLEAN]
        BY <2>2, <3>3
    <3>5. is.blind => new.total > is.soft
        BY <2>4, <2>5, <2>6, <3>1, <3>2, <3>3
    <3>6. ~is.blind => new.total = is.soft
        BY <2>4, <2>5, <2>6, <3>1, <3>2, <3>3
    <3>7. QED BY <3>1, <3>4, <3>5, <3>6
  <2> HIDE DEF new, is, delta
  <2>8. CpuTypes'
    <3>1. softirq' \in [CPU -> [vec : {"none", "net", "other"}, time : Nat]]
        BY <1>1 DEF Cpu!NoSoftirq
    <3>2. truth' \in [CPU -> [task : Nat, idle : Nat, soft : Nat, blind : BOOLEAN]]
        BY <2>3, <2>7
    <3>3. DOMAIN softirqStats' \subseteq CPU
        BY <2>1
    <3>4. \A d \in DOMAIN softirqStats' : softirqStats'[d] \in [total : Nat, net : Nat]
        BY <2>1, <2>6
    <3>5. QED BY <1>1, <3>1, <3>2, <3>3, <3>4
  <2>9. Switches'
    <3>1. \A d \in CPU : truth'[d].task = truth[d].task /\ truth'[d].idle = truth[d].idle
        BY <2>3, <2>7 DEF was
    <3>2. QED BY <1>1, <3>1 DEF Switches
  <2>10. Softirqs'
    <3> SUFFICES ASSUME NEW d \in CPU
                 PROVE  IF d \in DOMAIN softirqStats'
                        THEN /\ softirqStats'[d].net <= softirqStats'[d].total
                             /\ truth'[d].blind => softirqStats'[d].total > truth'[d].soft
                             /\ ~truth'[d].blind => softirqStats'[d].total = truth'[d].soft
                        ELSE truth'[d].soft = 0 /\ ~truth'[d].blind
        BY DEF Softirqs
    <3>1. CASE d = c
      <4>1. d \in DOMAIN softirqStats' /\ softirqStats'[d] = new /\ truth'[d] = is
          BY <2>1, <2>3, <3>1
      <4>2. QED BY <4>1, <2>6, <2>7
    <3>2. CASE d # c
      <4>1. truth'[d] = truth[d] /\ (d \in DOMAIN softirqStats' <=> d \in DOMAIN softirqStats)
            /\ (d \in DOMAIN softirqStats => softirqStats'[d] = softirqStats[d])
          BY <2>1, <2>3, <3>2
      <4>2. QED BY <4>1 DEF Softirqs
    <3>3. QED BY <3>1, <3>2
  <2>11. QED BY <1>2, <2>8, <2>9, <2>10
<1>5. QED BY <1>3, <1>4

LEMMA CpuStepKeepsInv == CpuInv /\ [Cpu!Next]_cpuVars => CpuInv'
<1> SUFFICES ASSUME CpuInv, [Cpu!Next]_cpuVars PROVE CpuInv' OBVIOUS
<1>1. CASE Cpu!Next
    BY <1>1, CpuTickKeepsInv, AttachKeepsInv, SchedSwitchKeepsInv, SoftirqEntryKeepsInv,
       SoftirqExitKeepsInv DEF Cpu!Next
<1>2. CASE UNCHANGED cpuVars
    BY <1>2 DEF cpuVars, CpuInv, CpuTypes, Starts, Switches, Softirqs
<1>3. QED BY <1>1, <1>2

LEMMA TimesFromInv == CpuInv => Cpu!TimeAccounted
<1> SUFFICES ASSUME CpuInv PROVE Cpu!SwitchesAccounted /\ Cpu!SoftirqsAccounted
    BY DEF Cpu!TimeAccounted
<1> USE DEF CpuInv, CpuTypes
<1>1. ASSUME NEW c \in DOMAIN cpuStats
      PROVE  LET v == Cpu!Charged(cpuStats[c], running[c], uptime)
             IN  v.task = truth[c].task /\ v.idle = truth[c].idle
  <2>1. /\ cpuStats[c] \in [task : Nat, idle : Nat, last : Nat] /\ c \in CPU
        /\ truth[c].task \in Nat /\ truth[c].idle \in Nat /\ running[c] \in {"idle", "task"}
      OBVIOUS
  <2>2. /\ cpuStats[c].last <= uptime
        /\ truth[c].task = cpuStats[c].task
               + (IF running[c] = "task" THEN uptime - cpuStats[c].last ELSE 0)
        /\ truth[c].idle = cpuStats[c].idle
               + (IF running[c] = "idle" THEN uptime - cpuStats[c].last ELSE 0)
      BY <2>1 DEF Switches
  <2>3. CASE running[c] = "task"
    <3>1. Cpu!Charged(cpuStats[c], running[c], uptime) =
              [task |-> cpuStats[c].task + (uptime - cpuStats[c].last), idle |-> cpuStats[c].idle, last |-> uptime]
        BY <2>1, <2>3 DEF Cpu!Charged
    <3>2. QED BY <2>1, <2>2, <2>3, <3>1
  <2>4. CASE running[c] = "idle"
    <3>1. Cpu!Charged(cpuStats[c], running[c], uptime) =
              [task |-> cpuStats[c].task, idle |-> cpuStats[c].idle + (uptime - cpuStats[c].last), last |-> uptime]
        BY <2>1, <2>4 DEF Cpu!Charged
    <3>2. QED BY <2>1, <2>2, <2>4, <3>1
  <2>5. QED BY <2>1, <2>3, <2>4
<1>2. Cpu!SwitchesAccounted
    BY <1>1 DEF Cpu!SwitchesAccounted
<1>3. Cpu!SoftirqsAccounted
    BY DEF Softirqs, Cpu!SoftirqsAccounted
<1>4. QED BY <1>2, <1>3

-----------------------------------------------------------------------------
(***************************************************************************)
(* The backpressure controller: for any number of producers and drainers   *)
(* and any sensible configuration, the queue passes its maximum by the     *)
(* producers at most, and the rate stays within its limits.                *)
(***************************************************************************)

LEMMA FlowCounts ==
    (\A S : Flow!IsFiniteSet(S) <=> IsFiniteSet(S)) /\ (\A S : Flow!Cardinality(S) = Cardinality(S))
<1>1. \A S : Flow!IsFiniteSet(S) <=> IsFiniteSet(S)
    BY DEF Flow!IsFiniteSet, IsFiniteSet
<1>2. ASSUME NEW S PROVE Flow!Cardinality(S) = Cardinality(S)
    BY Zenon DEF Flow!Cardinality, Cardinality
<1>3. QED BY <1>1, <1>2

Rates == MinRate .. MaxRate

\* The bound, in the operators of this module.
FewQueued ==
    /\ queueDepth + Cardinality(Flow!Admitted) <= MaxQueueDepth + Cardinality(Producer)
    /\ sendRate \in Rates

LEMMA FewQueuedBounds == Flow!QueueBounded <=> FewQueued
BY FlowCounts DEF Flow!QueueBounded, FewQueued, Rates

Places == {"idle", "refuse", "count", "load", "slow", "flag", "enqueue",
           "subtracted", "loadUp", "raise", "release"}

\* What the steps need of the types: where callers are, and that a rate that
\* has been computed and is not stored yet is within the limits, too.
FlowInv ==
    /\ queueDepth \in Int
    /\ pc \in [Flow!Goroutine -> Places]
    /\ rate \in [Flow!Goroutine -> Rates]
    /\ FewQueued

\* A division by at least one does not make a natural number larger.
LEMMA DivisionShrinks ==
    ASSUME NEW r \in Nat, NEW f \in Nat \ {0}
    PROVE  r \div f \in 0 .. r
OBVIOUS

\* Slowing down and speeding up keep a rate within the limits.
LEMMA RatesKept ==
    ASSUME NEW r \in Rates
    PROVE  Flow!Slowed(r) \in Rates /\ Flow!RaisedTo(r) \in Rates
<1>1. r \in Nat /\ MinRate \in Nat /\ MaxRate \in Nat /\ MinRate <= MaxRate
    BY FlowConfigured DEF Flow!ConfigAssumption, Rates
<1>2. r \div RampDownFactor \in 0 .. r
    BY <1>1, DivisionShrinks, FlowConfigured DEF Flow!ConfigAssumption
<1>3. Flow!Slowed(r) \in Rates
    BY <1>1, <1>2 DEF Flow!Slowed, Rates
<1>4. Flow!RaisedTo(r) \in Rates
    BY <1>1, FlowConfigured DEF Flow!RaisedTo, Rates, Flow!ConfigAssumption
<1>5. QED BY <1>3, <1>4

\* There are never more admitted producers than producers.
LEMMA FewAdmitted ==
    ASSUME NEW S \in SUBSET Producer
    PROVE  IsFiniteSet(S) /\ Cardinality(S) \in Nat /\ Cardinality(Producer) \in Nat
           /\ Cardinality(S) <= Cardinality(Producer)
BY FS_Subset, FS_CardinalityType, FlowCounts, FlowConfigured DEF Flow!ConfigAssumption

-----------------------------------------------------------------------------
(* The invariant.                                                          *)

\* A new controller has an empty queue and the highest rate.
LEMMA FlowInit == Flow!Init => FlowInv
<1> SUFFICES ASSUME Flow!Init PROVE FlowInv OBVIOUS
<1>1. Flow!Admitted \in SUBSET Producer
    BY DEF Flow!Admitted
<1>2. queueDepth + Cardinality(Flow!Admitted) <= MaxQueueDepth + Cardinality(Producer)
    BY <1>1, FewAdmitted, FlowConfigured DEF Flow!Init, Flow!ConfigAssumption
<1>3. MaxRate \in Rates
    BY FlowConfigured DEF Rates, Flow!ConfigAssumption
<1>4. QED BY <1>2, <1>3 DEF Flow!Init, FlowInv, FewQueued, Rates, Places

\* A step that leaves the depth, or lowers it, and moves one caller between
\* places of the same kind keeps the queue's bound.
LEMMA QuietStep ==
    ASSUME FlowInv, NEW c \in Flow!Goroutine,
           NEW from, NEW to, Flow!Go(c, from, to),
           c \in Producer =>
               (from \in {"load", "slow", "flag", "enqueue"}
                   <=> to \in {"load", "slow", "flag", "enqueue"}),
           queueDepth' \in Int, queueDepth' <= queueDepth
    PROVE  queueDepth' + Cardinality(Flow!Admitted') <= MaxQueueDepth + Cardinality(Producer)
<1>1. Flow!Admitted' = Flow!Admitted
    BY DEF Flow!Admitted, FlowInv, Flow!Go, Flow!Goroutine
<1>2. Flow!Admitted \in SUBSET Producer
    BY DEF Flow!Admitted
<1>3. Cardinality(Flow!Admitted) \in Nat /\ Cardinality(Producer) \in Nat
    BY <1>2, FewAdmitted
<1>4. QED BY <1>1, <1>3, FlowConfigured DEF FlowInv, FewQueued, Flow!ConfigAssumption

\* The first step of a call that is let through: the depth has just been seen
\* to be within its maximum, and the others are few.
LEMMA AdmitStep ==
    ASSUME FlowInv, NEW p \in Producer, Flow!Admit(p) \/ Flow!AdmitSlowing(p)
    PROVE  queueDepth' + Cardinality(Flow!Admitted') <= MaxQueueDepth + Cardinality(Producer)
<1>1. queueDepth <= MaxQueueDepth
    BY FlowConfigured DEF Flow!Admit, Flow!AdmitSlowing, Flow!SlowDownAbove, FlowInv, Flow!ConfigAssumption
<1>2. queueDepth' = queueDepth
    BY DEF Flow!Admit, Flow!AdmitSlowing, Flow!shared
<1>3. Flow!Admitted' \in SUBSET Producer
    BY DEF Flow!Admitted
<1>4. Cardinality(Flow!Admitted') \in Nat /\ Cardinality(Producer) \in Nat
      /\ Cardinality(Flow!Admitted') <= Cardinality(Producer)
    BY <1>3, FewAdmitted
<1>5. QED BY <1>1, <1>2, <1>4, FlowConfigured DEF FlowInv, Flow!ConfigAssumption

\* The last step of such a call: one message more, one admitted producer less.
LEMMA EnqueueStep ==
    ASSUME FlowInv, NEW p \in Producer, Flow!Enqueue(p)
    PROVE  queueDepth' + Cardinality(Flow!Admitted') <= MaxQueueDepth + Cardinality(Producer)
<1>1. p \in Flow!Admitted
    BY DEF Flow!Admitted, Flow!Enqueue, Flow!Go
<1>2. Flow!Admitted' = Flow!Admitted \ {p}
    BY DEF Flow!Admitted, Flow!Enqueue, Flow!Go, FlowInv, Flow!Goroutine
<1>3. IsFiniteSet(Flow!Admitted) /\ Cardinality(Flow!Admitted) \in Nat /\ Cardinality(Producer) \in Nat
    BY FewAdmitted DEF Flow!Admitted
<1>4. Cardinality(Flow!Admitted') = Cardinality(Flow!Admitted) - 1
    BY <1>1, <1>2, <1>3, FS_RemoveElement
<1>5. queueDepth' = queueDepth + 1
    BY DEF Flow!Enqueue
<1>6. QED BY <1>3, <1>4, <1>5, FlowConfigured DEF FlowInv, FewQueued, Flow!ConfigAssumption

\* Every step of a call and every step of nobody keeps the invariant.
LEMMA FlowStepKeepsInv == ASSUME FlowInv, [Flow!Next]_flowVars PROVE FlowInv'
<1>1. ASSUME NEW p \in Producer, Flow!ShouldSend(p) PROVE FlowInv'
  <2>1. p \in Flow!Goroutine /\ sendRate \in Rates
      BY DEF Flow!Goroutine, FlowInv, FewQueued, Rates
  <2>2. CASE Flow!Admit(p) \/ Flow!AdmitSlowing(p)
    <3>1. queueDepth' + Cardinality(Flow!Admitted') <= MaxQueueDepth + Cardinality(Producer)
        BY <2>2, AdmitStep
    <3>2. QED BY <2>1, <2>2, <3>1 DEF Flow!Admit, Flow!AdmitSlowing, Flow!Go, Flow!shared, FlowInv, FewQueued, Rates, Places
  <2>3. CASE Flow!Refuse(p)
    <3>1. queueDepth' + Cardinality(Flow!Admitted') <= MaxQueueDepth + Cardinality(Producer)
        BY <2>1, <2>3, QuietStep DEF Flow!Refuse, Flow!shared, FlowInv
    <3>2. QED BY <2>1, <2>3, <3>1 DEF Flow!Refuse, Flow!Go, Flow!shared, FlowInv, FewQueued, Rates, Places
  <2>4. CASE Flow!RefuseFlags(p) \/ Flow!RefuseCounts(p)
    <3>1. queueDepth' + Cardinality(Flow!Admitted') <= MaxQueueDepth + Cardinality(Producer)
        BY <2>1, <2>4, QuietStep DEF Flow!RefuseFlags, Flow!RefuseCounts, FlowInv
    <3>2. QED BY <2>1, <2>4, <3>1 DEF Flow!RefuseFlags, Flow!RefuseCounts, Flow!Go, FlowInv, FewQueued, Rates, Places
  <2>5. CASE Flow!LoadRate(p)
    <3>1. queueDepth' + Cardinality(Flow!Admitted') <= MaxQueueDepth + Cardinality(Producer)
        BY <2>1, <2>5, QuietStep DEF Flow!LoadRate, Flow!shared, FlowInv
    <3>2. rate' \in [Flow!Goroutine -> Rates]
        BY <2>1, <2>5, RatesKept DEF Flow!LoadRate, FlowInv
    <3>3. QED BY <2>1, <2>5, <3>1, <3>2 DEF Flow!LoadRate, Flow!Go, Flow!shared, FlowInv, FewQueued, Rates, Places
  <2>6. CASE Flow!StoreSlowed(p) \/ Flow!SlowFlags(p)
    <3>1. queueDepth' + Cardinality(Flow!Admitted') <= MaxQueueDepth + Cardinality(Producer)
      <4>1. CASE Flow!StoreSlowed(p) BY <2>1, <4>1, QuietStep DEF Flow!StoreSlowed, FlowInv
      <4>2. CASE Flow!SlowFlags(p) BY <2>1, <4>2, QuietStep DEF Flow!SlowFlags, FlowInv
      <4>3. QED BY <2>6, <4>1, <4>2
    <3>2. MaxRate \in Rates
        BY FlowConfigured DEF Rates, Flow!ConfigAssumption
    <3>3. QED BY <2>1, <2>6, <3>1, <3>2 DEF Flow!StoreSlowed, Flow!SlowFlags, Flow!Go, FlowInv, FewQueued, Rates, Places
  <2>7. QED BY <1>1, <2>2, <2>3, <2>4, <2>5, <2>6 DEF Flow!ShouldSend
<1>2. ASSUME NEW p \in Producer, Flow!Enqueue(p) PROVE FlowInv'
  <2>1. queueDepth' + Cardinality(Flow!Admitted') <= MaxQueueDepth + Cardinality(Producer)
      BY <1>2, EnqueueStep
  <2>2. QED BY <1>2, <2>1 DEF Flow!Enqueue, Flow!Go, Flow!Goroutine, FlowInv, FewQueued, Rates, Places
<1>3. ASSUME NEW d \in Drainer, Flow!Dequeue(d) PROVE FlowInv'
  <2>1. d \in Flow!Goroutine /\ d \notin Producer /\ sendRate \in Rates
      BY FlowConfigured DEF Flow!Goroutine, FlowInv, FewQueued, Rates, Flow!ConfigAssumption
  <2>2. queueDepth' \in Int /\ queueDepth' <= queueDepth
      BY <1>3 DEF Flow!Dequeue, Flow!DequeueSubtract, Flow!DequeueStays, Flow!DequeueDrains, Flow!LoadForRaise,
                  Flow!StoreRaised, Flow!Release, Flow!shared, FlowInv
  <2>3. \E from, to \in Places : Flow!Go(d, from, to)
      BY <1>3 DEF Flow!Dequeue, Flow!DequeueSubtract, Flow!DequeueStays, Flow!DequeueDrains, Flow!LoadForRaise,
                  Flow!StoreRaised, Flow!Release, Places
  <2>4. queueDepth' + Cardinality(Flow!Admitted') <= MaxQueueDepth + Cardinality(Producer)
      BY <2>1, <2>2, <2>3, QuietStep
  <2>5. pc' \in [Flow!Goroutine -> Places]
      BY <2>1, <2>3 DEF Flow!Go, FlowInv
  <2>6. rate' \in [Flow!Goroutine -> Rates] /\ sendRate' \in Rates
    <3>1. MaxRate \in Rates
        BY FlowConfigured DEF Rates, Flow!ConfigAssumption
    <3>2. CASE Flow!LoadForRaise(d)
        BY <2>1, <3>2, RatesKept DEF Flow!LoadForRaise, Flow!shared, FlowInv
    <3>3. CASE Flow!StoreRaised(d)
        BY <2>1, <3>1, <3>3 DEF Flow!StoreRaised, FlowInv
    <3>4. CASE Flow!DequeueSubtract(d) \/ Flow!DequeueStays(d) \/ Flow!DequeueDrains(d) \/ Flow!Release(d)
        BY <2>1, <3>4 DEF Flow!DequeueSubtract, Flow!DequeueStays, Flow!DequeueDrains, Flow!Release, Flow!shared, FlowInv
    <3>5. QED BY <1>3, <3>2, <3>3, <3>4 DEF Flow!Dequeue
  <2>7. QED BY <2>2, <2>4, <2>5, <2>6 DEF FlowInv, FewQueued, Rates
<1>4. CASE UNCHANGED flowVars
    BY <1>4 DEF flowVars, FlowInv, FewQueued, Flow!Admitted, Rates
<1>5. QED BY <1>1, <1>2, <1>3, <1>4 DEF Flow!Next

-----------------------------------------------------------------------------
(***************************************************************************)
(* The rate limiter: for any number of callers, any limit and any window.  *)
(***************************************************************************)

LEMMA LimiterCounts ==
    /\ \A S : Limiter!IsFiniteSet(S) <=> IsFiniteSet(S)
    /\ \A S : Limiter!Cardinality(S) = Cardinality(S)
<1>1. \A S : Limiter!IsFiniteSet(S) <=> IsFiniteSet(S)
    BY DEF Limiter!IsFiniteSet, IsFiniteSet
<1>2. ASSUME NEW S PROVE Limiter!Cardinality(S) = Cardinality(S)
    BY Zenon DEF Limiter!Cardinality, Cardinality
<1>3. QED BY <1>1, <1>2

LEMMA LimiterConstants ==
    /\ IsFiniteSet(Caller) /\ Cardinality(Caller) \in Nat
    /\ Limit \in Nat \ {0} /\ Window \in Nat /\ CallDelay \in Nat
    /\ LimiterEnd \in Nat /\ Window <= LimiterEnd
    /\ Limiter!Expiry \in Nat /\ Limiter!Span \in Nat
    /\ Limiter!Span <= Window /\ Limiter!Span <= Limiter!Expiry /\ CallDelay < Limiter!Span
<1>1. /\ IsFiniteSet(Caller) /\ Cardinality(Caller) \in Nat
      /\ Limit \in Nat \ {0} /\ Window \in Nat /\ CallDelay \in Nat /\ CallDelay < Limiter!Span
      /\ LimiterEnd \in Nat /\ Window <= LimiterEnd /\ Second \in Nat \ {0}
    BY LimitConfigured, LimiterCounts, FS_CardinalityType DEF Limiter!ConfigAssumption
<1>2. Window \div Second \in Nat
    BY <1>1
<1>3. Limiter!Expiry \in Nat
    BY <1>1, <1>2 DEF Limiter!Expiry
<1>4. Limiter!Span \in {Limiter!Expiry, Window} /\ Limiter!Span <= Window /\ Limiter!Span <= Limiter!Expiry
    BY <1>1, <1>3 DEF Limiter!Span
<1>5. QED BY <1>1, <1>3, <1>4

CallTypes ==
    /\ now \in Nat /\ Window <= now /\ now <= LimiterEnd
    /\ zset \subseteq Window .. now
    /\ admitted \subseteq Window .. now
    /\ expireAt \in Nat /\ Window <= expireAt /\ expireAt <= Limiter!Never
    /\ call \in [Caller -> [pc : {"idle", "trim", "card", "add", "expire"},
                            at : 0 .. LimiterEnd, count : Nat]]

\* A call under way has read its clock not long ago.
CallsYoung ==
    \A c \in Caller : call[c].pc # "idle" =>
        call[c].at \in Window .. now /\ now <= call[c].at + CallDelay

\* Moments admitted are in the window, and the key outlives them.
KeyLives ==
    \A m \in admitted : now - Limiter!Span < m /\ m + Limiter!Span <= expireAt

MomentsOf(S) == {call[c].at : c \in S}
Expiring == {c \in Caller : call[c].pc = "expire"}
Winning == {c \in Caller : call[c].pc = "expire" /\ call[c].count < Limit}
Coming == {c \in Caller : call[c].pc = "add" /\ call[c].count < Limit}

\* The moments that have been lost with the key although they count, and those
\* that are admitted or will be.
Lost == (admitted \cup MomentsOf(Expiring)) \ zset
Taken == admitted \cup MomentsOf(Winning)

LimiterInv ==
    /\ CallTypes /\ CallsYoung /\ KeyLives
    /\ Cardinality(Lost) <= Cardinality(Caller)
    /\ Cardinality(Taken) + Cardinality(Coming) <= Limit - 1 + 2 * Cardinality(Caller)

LEMMA MomentsFew ==
    ASSUME NEW S \in SUBSET Caller
    PROVE  /\ IsFiniteSet(S) /\ Cardinality(S) \in Nat /\ Cardinality(S) <= Cardinality(Caller)
           /\ IsFiniteSet(MomentsOf(S)) /\ Cardinality(MomentsOf(S)) \in Nat
           /\ Cardinality(MomentsOf(S)) <= Cardinality(Caller)
<1>1. IsFiniteSet(S) /\ Cardinality(S) \in Nat /\ Cardinality(S) <= Cardinality(Caller)
    BY LimiterConstants, FS_Subset, FS_CardinalityType
<1> DEFINE f == [c \in S |-> call[c].at]
<1>2. f \in Surjection(S, MomentsOf(S))
    BY DEF Surjection, MomentsOf
<1>3. IsFiniteSet(MomentsOf(S)) /\ Cardinality(MomentsOf(S)) <= Cardinality(S)
    BY <1>1, <1>2, FS_Surjection
<1>4. Cardinality(MomentsOf(S)) \in Nat
    BY <1>3, FS_CardinalityType
<1>5. QED BY <1>1, <1>3, <1>4, LimiterConstants

LEMMA MomentsFinite ==
    ASSUME CallTypes
    PROVE  /\ IsFiniteSet(zset) /\ Cardinality(zset) \in Nat
           /\ IsFiniteSet(admitted)
           /\ IsFiniteSet(Lost) /\ Cardinality(Lost) \in Nat
           /\ IsFiniteSet(Taken) /\ Cardinality(Taken) \in Nat
           /\ IsFiniteSet(Coming) /\ Cardinality(Coming) \in Nat /\ Cardinality(Coming) <= Cardinality(Caller)
<1>1. IsFiniteSet(Window .. now)
    BY FS_Interval, LimiterConstants DEF CallTypes
<1>2. IsFiniteSet(zset) /\ IsFiniteSet(admitted)
    BY <1>1, FS_Subset DEF CallTypes
<1>3. IsFiniteSet(MomentsOf(Expiring)) /\ IsFiniteSet(MomentsOf(Winning))
    BY MomentsFew DEF Expiring, Winning
<1>4. IsFiniteSet(Taken) /\ IsFiniteSet(admitted \cup MomentsOf(Expiring))
    BY <1>2, <1>3, FS_Union DEF Taken
<1>5. IsFiniteSet(Lost)
    BY <1>4, FS_Subset DEF Lost
<1>6. IsFiniteSet(Coming) /\ Cardinality(Coming) \in Nat /\ Cardinality(Coming) <= Cardinality(Caller)
    BY MomentsFew DEF Coming
<1>7. QED BY <1>2, <1>4, <1>5, <1>6, FS_CardinalityType

LEMMA LimiterInit == Limiter!Init => LimiterInv
<1> SUFFICES ASSUME Limiter!Init PROVE LimiterInv OBVIOUS
<1>1. CallTypes
    BY LimiterConstants DEF Limiter!Init, CallTypes, Limiter!Never, Limiter!Idle
<1>2. \A c \in Caller : call[c].pc = "idle"
    BY DEF Limiter!Init, Limiter!Idle
<1>3. Expiring = {} /\ Winning = {} /\ Coming = {}
    BY <1>2 DEF Expiring, Winning, Coming
<1>4. Lost = {} /\ Taken = {}
    BY <1>3 DEF Lost, Taken, MomentsOf, Limiter!Init
<1>5. Cardinality(Lost) = 0 /\ Cardinality(Taken) = 0 /\ Cardinality(Coming) = 0
    BY <1>3, <1>4, FS_EmptySet
<1>6. QED BY <1>1, <1>2, <1>5, LimiterConstants DEF LimiterInv, CallsYoung, KeyLives, Limiter!Init

\* A step that takes no moment in and loses none keeps the two bounds.
LEMMA NothingTaken ==
    ASSUME LimiterInv, CallTypes', Lost' \subseteq Lost, Taken' \subseteq Taken, Coming' \subseteq Coming
    PROVE  /\ Cardinality(Lost') <= Cardinality(Caller)
           /\ Cardinality(Taken') + Cardinality(Coming') <= Limit - 1 + 2 * Cardinality(Caller)
<1>1. /\ IsFiniteSet(Lost) /\ Cardinality(Lost) \in Nat
      /\ IsFiniteSet(Taken) /\ Cardinality(Taken) \in Nat
      /\ IsFiniteSet(Coming) /\ Cardinality(Coming) \in Nat
    BY MomentsFinite DEF LimiterInv
<1>2. /\ Cardinality(Lost') \in Nat /\ Cardinality(Lost') <= Cardinality(Lost)
      /\ Cardinality(Taken') \in Nat /\ Cardinality(Taken') <= Cardinality(Taken)
      /\ Cardinality(Coming') \in Nat /\ Cardinality(Coming') <= Cardinality(Coming)
    BY <1>1, FS_Subset, FS_CardinalityType
<1>3. QED BY <1>1, <1>2, LimiterConstants DEF LimiterInv

LEMMA BeginKeepsInv == ASSUME LimiterInv, NEW c \in Caller, Limiter!Begin(c) PROVE LimiterInv'
<1>1. /\ UNCHANGED <<now, zset, expireAt, admitted>> /\ call[c].pc = "idle"
      /\ call' = [call EXCEPT ![c] = [pc |-> "trim", at |-> now, count |-> 0]]
    BY DEF Limiter!Begin, Limiter!Idle
<1>2. CallTypes'
    BY <1>1, LimiterConstants DEF LimiterInv, CallTypes, Limiter!Never
<1>3. CallsYoung' /\ KeyLives'
    BY <1>1, LimiterConstants DEF LimiterInv, CallsYoung, KeyLives, CallTypes
<1>4. \A d \in Caller : IF d = c THEN call'[d].pc = "trim" ELSE call'[d] = call[d]
    BY <1>1 DEF LimiterInv, CallTypes
<1>5. Expiring' = Expiring /\ Winning' = Winning /\ Coming' = Coming
    BY <1>1, <1>4 DEF Expiring, Winning, Coming
<1>6. MomentsOf(Expiring)' = MomentsOf(Expiring) /\ MomentsOf(Winning)' = MomentsOf(Winning)
    BY <1>1, <1>4, <1>5 DEF MomentsOf, Expiring, Winning
<1>7. Lost' = Lost /\ Taken' = Taken
    BY <1>1, <1>6 DEF Lost, Taken
<1>8. QED BY <1>2, <1>3, <1>5, <1>7, NothingTaken DEF LimiterInv

\* A caller that goes on in its pipeline keeps its moment and its count.
GoesOn(c, to) ==
    /\ call' \in [Caller -> [pc : {"idle", "trim", "card", "add", "expire"},
                             at : 0 .. LimiterEnd, count : Nat]]
    /\ call'[c].pc = to /\ call'[c].at = call[c].at /\ call'[c].count = call[c].count
    /\ \A d \in Caller \ {c} : call'[d] = call[d]

LEMMA StepsOn ==
    ASSUME CallTypes, NEW c \in Caller, NEW to \in {"card", "expire"},
           call' = [call EXCEPT ![c].pc = to]
    PROVE  GoesOn(c, to)
<1>1. PICK p \in {"idle", "trim", "card", "add", "expire"}, a \in 0 .. LimiterEnd, n \in Nat :
          call[c] = [pc |-> p, at |-> a, count |-> n]
    BY DEF CallTypes
<1>2. [call[c] EXCEPT !.pc = to] = [pc |-> to, at |-> a, count |-> n]
    BY <1>1
<1>3. call' = [call EXCEPT ![c] = [call[c] EXCEPT !.pc = to]]
    OBVIOUS
<1>4. call' = [call EXCEPT ![c] = [pc |-> to, at |-> a, count |-> n]]
    BY <1>2, <1>3
<1>5. QED BY <1>1, <1>4 DEF GoesOn, CallTypes

LEMMA TrimKeepsInv == ASSUME LimiterInv, NEW c \in Caller, Limiter!ZRemRangeByScore(c) PROVE LimiterInv'
<1>1. /\ UNCHANGED <<now, admitted>> /\ call[c].pc = "trim"
      /\ zset' = {m \in zset : m > call[c].at - Window}
      /\ expireAt' = IF zset' = {} THEN Limiter!Never ELSE expireAt
    BY DEF Limiter!ZRemRangeByScore, Limiter!Trimmed
<1>2. GoesOn(c, "card")
    BY StepsOn DEF Limiter!ZRemRangeByScore, LimiterInv
<1>3. CallTypes
    BY DEF LimiterInv
<1>4. CallTypes'
  <2>1. expireAt' \in Nat /\ Window <= expireAt' /\ expireAt' <= Limiter!Never
      BY <1>1, <1>3, LimiterConstants DEF CallTypes, Limiter!Never
  <2>2. zset' \subseteq Window .. now /\ admitted' \subseteq Window .. now
      BY <1>1, <1>3 DEF CallTypes
  <2>3. QED BY <1>1, <1>2, <1>3, <2>1, <2>2 DEF GoesOn, CallTypes, Limiter!Never
<1>5. CallsYoung'
    BY <1>1, <1>2 DEF LimiterInv, CallsYoung, GoesOn
<1>6. KeyLives'
  <2>1. \A m \in admitted : m + Limiter!Span <= Limiter!Never
      BY <1>3, LimiterConstants DEF CallTypes, Limiter!Never
  <2>2. QED BY <1>1, <2>1 DEF LimiterInv, KeyLives
<1>7. Expiring' = Expiring /\ Winning' = Winning /\ Coming' = Coming
    BY <1>1, <1>2 DEF Expiring, Winning, Coming, GoesOn
<1>8. MomentsOf(Expiring)' = MomentsOf(Expiring) /\ MomentsOf(Winning)' = MomentsOf(Winning)
    BY <1>1, <1>2, <1>7 DEF MomentsOf, Expiring, Winning, GoesOn
<1>9. call[c].at \in Window .. now /\ call[c].at <= now /\ now \in Nat
    BY <1>1, <1>3 DEF LimiterInv, CallsYoung, CallTypes
<1>10. \A m \in admitted \cup MomentsOf(Expiring) : m \in Nat /\ m > call[c].at - Window
  <2>1. \A m \in admitted : m \in Nat /\ m > call[c].at - Window
      BY <1>3, <1>9, LimiterConstants DEF LimiterInv, KeyLives, CallTypes
  <2>2. ASSUME NEW d \in Expiring PROVE call[d].at \in Nat /\ call[d].at > call[c].at - Window
    <3>1. call[d].at \in Nat /\ now <= call[d].at + CallDelay
        BY LimiterConstants DEF LimiterInv, CallsYoung, Expiring
    <3>2. QED BY <1>9, <3>1, LimiterConstants
  <2>3. QED BY <2>1, <2>2 DEF MomentsOf
<1>11. Lost' = Lost
    BY <1>1, <1>8, <1>10 DEF Lost
<1>12. Taken' = Taken
    BY <1>1, <1>8 DEF Taken
<1>13. QED BY <1>4, <1>5, <1>6, <1>7, <1>11, <1>12, NothingTaken DEF LimiterInv

\* What counts but was not counted has been lost, and what else comes is of
\* other callers.
LEMMA CardKeepsInv == ASSUME LimiterInv, NEW c \in Caller, Limiter!ZCard(c) PROVE LimiterInv'
<1>1. /\ UNCHANGED <<now, zset, expireAt, admitted>> /\ call[c].pc = "card"
      /\ call' = [call EXCEPT ![c] = [pc |-> "add", at |-> call[c].at, count |-> Cardinality(zset)]]
    BY LimiterCounts DEF Limiter!ZCard, LimiterInv, CallTypes
<1>2. CallTypes
    BY DEF LimiterInv
<1>3. Cardinality(zset) \in Nat /\ IsFiniteSet(zset)
    BY <1>2, MomentsFinite
<1>4. /\ call' \in [Caller -> [pc : {"idle", "trim", "card", "add", "expire"},
                               at : 0 .. LimiterEnd, count : Nat]]
      /\ call'[c].pc = "add" /\ call'[c].at = call[c].at /\ call'[c].count = Cardinality(zset)
      /\ \A d \in Caller \ {c} : call'[d] = call[d]
    BY <1>1, <1>2, <1>3 DEF CallTypes
<1>5. CallTypes'
    BY <1>1, <1>2, <1>4 DEF CallTypes, Limiter!Never
<1>6. CallsYoung' /\ KeyLives'
    BY <1>1, <1>4 DEF LimiterInv, CallsYoung, KeyLives
<1>7. Expiring' = Expiring /\ Winning' = Winning
    BY <1>1, <1>4 DEF Expiring, Winning
<1>8. MomentsOf(Expiring)' = MomentsOf(Expiring) /\ MomentsOf(Winning)' = MomentsOf(Winning)
    BY <1>1, <1>4, <1>7 DEF MomentsOf, Expiring, Winning
<1>9. Lost' = Lost /\ Taken' = Taken
    BY <1>1, <1>8 DEF Lost, Taken
<1>10. CASE Cardinality(zset) < Limit
  <2>1. Taken \subseteq zset \cup Lost
      BY DEF Taken, Lost, MomentsOf, Winning, Expiring
  <2>2. IsFiniteSet(Lost) /\ Cardinality(Lost) \in Nat /\ Cardinality(Taken) \in Nat
      BY <1>2, MomentsFinite
  <2>3. /\ IsFiniteSet(zset \cup Lost)
        /\ Cardinality(zset \cup Lost) = Cardinality(zset) + Cardinality(Lost) - Cardinality(zset \cap Lost)
      BY <1>3, <2>2, FS_Union
  <2>4. Cardinality(zset \cap Lost) \in Nat /\ Cardinality(zset \cup Lost) \in Nat
      BY <1>3, <2>3, FS_Subset, FS_CardinalityType
  <2>5. Cardinality(Taken) <= Cardinality(zset \cup Lost)
      BY <2>1, <2>3, FS_Subset
  <2>6. Cardinality(Coming') \in Nat /\ Cardinality(Coming') <= Cardinality(Caller)
    <3>1. Coming' \in SUBSET Caller
        BY DEF Coming
    <3>2. QED BY <3>1, MomentsFew
  <2>7. Cardinality(Taken') + Cardinality(Coming') <= Limit - 1 + 2 * Cardinality(Caller)
      BY <1>3, <1>9, <1>10, <2>2, <2>3, <2>4, <2>5, <2>6, LimiterConstants DEF LimiterInv
  <2>8. QED BY <1>5, <1>6, <1>9, <2>7 DEF LimiterInv
<1>11. CASE ~(Cardinality(zset) < Limit)
  <2>1. Coming' = Coming
      BY <1>1, <1>4, <1>11 DEF Coming
  <2>2. QED BY <1>5, <1>6, <1>9, <2>1, NothingTaken DEF LimiterInv
<1>12. QED BY <1>10, <1>11

LEMMA AddKeepsInv == ASSUME LimiterInv, NEW c \in Caller, Limiter!ZAdd(c) PROVE LimiterInv'
<1>1. /\ UNCHANGED <<now, expireAt, admitted>> /\ call[c].pc = "add"
      /\ zset' = zset \cup {call[c].at}
    BY DEF Limiter!ZAdd
<1>2. GoesOn(c, "expire")
    BY StepsOn DEF Limiter!ZAdd, LimiterInv
<1>3. CallTypes
    BY DEF LimiterInv
<1>4. call[c].at \in Window .. now
    BY <1>1 DEF LimiterInv, CallsYoung
<1>5. CallTypes'
    BY <1>1, <1>2, <1>3, <1>4 DEF GoesOn, CallTypes, Limiter!Never
<1>6. CallsYoung' /\ KeyLives'
    BY <1>1, <1>2 DEF LimiterInv, CallsYoung, KeyLives, GoesOn
<1>7. Expiring' = Expiring \cup {c}
    BY <1>1, <1>2 DEF Expiring, GoesOn
<1>8. MomentsOf(Expiring)' = MomentsOf(Expiring) \cup {call[c].at}
    BY <1>1, <1>2, <1>7 DEF MomentsOf, Expiring, GoesOn
<1>9. Lost' \subseteq Lost
    BY <1>1, <1>8 DEF Lost
<1>10. CASE call[c].count < Limit
  <2>1. Winning' = Winning \cup {c} /\ Coming' = Coming \ {c} /\ c \in Coming
      BY <1>1, <1>2, <1>10 DEF Winning, Coming, GoesOn
  <2>2. MomentsOf(Winning)' = MomentsOf(Winning) \cup {call[c].at}
      BY <1>1, <1>2, <2>1 DEF MomentsOf, Winning, GoesOn
  <2>3. Taken' = Taken \cup {call[c].at}
      BY <1>1, <2>2 DEF Taken
  <2>4. /\ IsFiniteSet(Taken) /\ Cardinality(Taken) \in Nat
        /\ IsFiniteSet(Coming) /\ Cardinality(Coming) \in Nat
        /\ IsFiniteSet(Lost) /\ Cardinality(Lost) \in Nat
      BY <1>3, MomentsFinite
  <2>5. Cardinality(Coming') = Cardinality(Coming) - 1
      BY <2>1, <2>4, FS_RemoveElement
  <2>6. Cardinality(Taken') \in Nat /\ Cardinality(Taken') <= Cardinality(Taken) + 1
    <3>1. CASE call[c].at \in Taken
      <4>1. Taken' = Taken
          BY <2>3, <3>1
      <4>2. QED BY <2>4, <4>1
    <3>2. CASE call[c].at \notin Taken
      <4>1. Cardinality(Taken') = Cardinality(Taken) + 1
          BY <2>3, <2>4, <3>2, FS_AddElement
      <4>2. QED BY <2>4, <4>1
    <3>3. QED BY <3>1, <3>2
  <2>7. Cardinality(Lost') \in Nat /\ Cardinality(Lost') <= Cardinality(Lost)
      BY <1>9, <2>4, FS_Subset, FS_CardinalityType
  <2>8. Cardinality(Taken') + Cardinality(Coming') <= Limit - 1 + 2 * Cardinality(Caller)
      BY <2>4, <2>5, <2>6, LimiterConstants DEF LimiterInv
  <2>9. Cardinality(Lost') <= Cardinality(Caller)
      BY <2>4, <2>7, LimiterConstants DEF LimiterInv
  <2>10. QED BY <1>5, <1>6, <2>8, <2>9 DEF LimiterInv
<1>11. CASE ~(call[c].count < Limit)
  <2>1. Winning' = Winning /\ Coming' = Coming
      BY <1>1, <1>2, <1>11 DEF Winning, Coming, GoesOn
  <2>2. MomentsOf(Winning)' = MomentsOf(Winning)
      BY <1>1, <1>2, <2>1 DEF MomentsOf, Winning, GoesOn
  <2>3. Taken' = Taken
      BY <1>1, <2>2 DEF Taken
  <2>4. QED BY <1>5, <1>6, <1>9, <2>1, <2>3, NothingTaken DEF LimiterInv
<1>12. QED BY <1>10, <1>11

\* A call that ends, answered or not.
Ends(c) ==
    /\ call' \in [Caller -> [pc : {"idle", "trim", "card", "add", "expire"},
                             at : 0 .. LimiterEnd, count : Nat]]
    /\ call'[c].pc = "idle" /\ \A d \in Caller \ {c} : call'[d] = call[d]

LEMMA EndOfCall ==
    ASSUME LimiterInv, NEW c \in Caller, Ends(c), now' = now, zset' = zset,
           admitted' = admitted
           \/ (c \in Winning /\ admitted' = admitted \cup {call[c].at})
    PROVE  /\ CallsYoung'
           /\ Lost' \subseteq Lost /\ Taken' \subseteq Taken /\ Coming' \subseteq Coming
<1>1. CallsYoung'
    BY DEF LimiterInv, CallsYoung, Ends
<1>2. Expiring' = Expiring \ {c} /\ Winning' = Winning \ {c} /\ Coming' = Coming \ {c}
    BY DEF Expiring, Winning, Coming, Ends
<1>3. MomentsOf(Expiring)' \subseteq MomentsOf(Expiring) /\ MomentsOf(Winning)' \subseteq MomentsOf(Winning)
    BY <1>2 DEF MomentsOf, Ends, Expiring, Winning
<1>4. c \in Winning => call[c].at \in MomentsOf(Winning) /\ call[c].at \in MomentsOf(Expiring)
    BY DEF MomentsOf, Winning, Expiring
<1>5. Lost' \subseteq Lost /\ Taken' \subseteq Taken
    BY <1>3, <1>4 DEF Lost, Taken
<1>6. QED BY <1>1, <1>2, <1>5

LEMMA ExpireKeepsInv == ASSUME LimiterInv, NEW c \in Caller, Limiter!Expire(c) PROVE LimiterInv'
<1>1. /\ UNCHANGED <<now, zset>> /\ call[c].pc = "expire"
      /\ expireAt' = IF zset = {} THEN Limiter!Never ELSE now + Limiter!Expiry
      /\ call' = [call EXCEPT ![c] = [pc |-> "idle", at |-> 0, count |-> 0]]
      /\ \/ admitted' = admitted
         \/ c \in Winning /\ admitted' = admitted \cup {call[c].at}
    BY DEF Limiter!Expire, Limiter!Idle, Winning
<1>2. CallTypes
    BY DEF LimiterInv
<1>3. Ends(c)
    BY <1>1, <1>2, LimiterConstants DEF Ends, CallTypes
<1>4. CallsYoung' /\ Lost' \subseteq Lost /\ Taken' \subseteq Taken /\ Coming' \subseteq Coming
    BY <1>1, <1>3, EndOfCall
<1>5. call[c].at \in Window .. now /\ now <= call[c].at + CallDelay
    BY <1>1 DEF LimiterInv, CallsYoung
<1>6. expireAt' \in Nat /\ now + Limiter!Expiry <= expireAt' /\ expireAt' <= Limiter!Never
    BY <1>1, <1>2, LimiterConstants DEF CallTypes, Limiter!Never
<1>7. admitted' \subseteq Window .. now
    BY <1>1, <1>2, <1>5 DEF CallTypes
<1>8. CallTypes'
  <2>1. Window <= expireAt'
      BY <1>2, <1>6, LimiterConstants DEF CallTypes
  <2>2. QED BY <1>1, <1>2, <1>3, <1>6, <1>7, <2>1 DEF CallTypes, Ends, Limiter!Never
<1>9. KeyLives'
  <2>1. ASSUME NEW m \in admitted' PROVE now - Limiter!Span < m /\ m + Limiter!Span <= expireAt'
    <3>1. m \in Nat /\ m <= now /\ now \in Nat
        BY <1>2, <1>7, LimiterConstants DEF CallTypes
    <3>2. m \in admitted \/ m = call[c].at
        BY <1>1
    <3>3. now - Limiter!Span < m
      <4>1. CASE m \in admitted BY <4>1 DEF LimiterInv, KeyLives
      <4>2. CASE m = call[c].at BY <3>1, <4>2, <1>5, LimiterConstants
      <4>3. QED BY <3>2, <4>1, <4>2
    <3>4. QED BY <1>6, <3>1, <3>3, LimiterConstants
  <2>2. QED BY <1>1, <2>1 DEF KeyLives
<1>10. QED BY <1>4, <1>8, <1>9, NothingTaken DEF LimiterInv

LEMMA ExecFailsKeepsInv == ASSUME LimiterInv, NEW c \in Caller, Limiter!ExecFails(c) PROVE LimiterInv'
<1>1. /\ UNCHANGED <<now, zset, expireAt, admitted>>
      /\ call' = [call EXCEPT ![c] = [pc |-> "idle", at |-> 0, count |-> 0]]
    BY DEF Limiter!ExecFails, Limiter!Idle
<1>2. CallTypes
    BY DEF LimiterInv
<1>3. Ends(c)
    BY <1>1, <1>2, LimiterConstants DEF Ends, CallTypes
<1>4. CallsYoung' /\ Lost' \subseteq Lost /\ Taken' \subseteq Taken /\ Coming' \subseteq Coming
    BY <1>1, <1>3, EndOfCall
<1>5. CallTypes' /\ KeyLives'
    BY <1>1, <1>2, <1>3 DEF CallTypes, Ends, LimiterInv, KeyLives, Limiter!Never
<1>6. QED BY <1>4, <1>5, NothingTaken DEF LimiterInv

\* When the key is dropped, what had been admitted is out of the window, and
\* only the additions under way are lost.
LEMMA ClockKeepsInv == ASSUME LimiterInv, Limiter!Tick PROVE LimiterInv'
<1>1. /\ now < LimiterEnd /\ now' = now + 1 /\ call' = call
      /\ \A c \in Caller : call[c] # Limiter!Idle => now < call[c].at + CallDelay
      /\ admitted' = {m \in admitted : m > now' - Limiter!Span}
      /\ IF now' >= expireAt THEN zset' = {} /\ expireAt' = Limiter!Never
         ELSE zset' = zset /\ expireAt' = expireAt
    BY DEF Limiter!Tick
<1>2. CallTypes
    BY DEF LimiterInv
<1>3. /\ now \in Nat /\ now + 1 <= LimiterEnd /\ LimiterEnd \in Nat /\ Window \in Nat /\ CallDelay \in Nat
      /\ Window <= now /\ expireAt \in Nat
      /\ Limiter!Span \in Nat /\ Limiter!Expiry \in Nat
      /\ Limiter!Span <= Window /\ Limiter!Span <= Limiter!Expiry
    BY <1>1, <1>2, LimiterConstants DEF CallTypes
<1>4. CallTypes'
  <2>1. zset' \subseteq Window .. now' /\ admitted' \subseteq Window .. now'
    <3>1. Window .. now \subseteq Window .. now'
        BY <1>1, <1>3
    <3>2. QED BY <1>1, <1>2, <3>1 DEF CallTypes
  <2>2. expireAt' \in Nat /\ Window <= expireAt' /\ expireAt' <= Limiter!Never
      BY <1>1, <1>2, <1>3 DEF CallTypes, Limiter!Never
  <2>3. now' \in Nat /\ Window <= now' /\ now' <= LimiterEnd
      BY <1>1, <1>3
  <2>4. QED BY <1>1, <1>2, <2>1, <2>2, <2>3 DEF CallTypes, Limiter!Never
<1>5. CallsYoung'
  <2>1. ASSUME NEW c \in Caller, call[c].pc # "idle"
        PROVE  call[c].at \in Window .. now' /\ now' <= call[c].at + CallDelay
    <3>1. call[c].at \in Window .. now
        BY <2>1 DEF LimiterInv, CallsYoung
    <3>2. now < call[c].at + CallDelay
        BY <1>1, <2>1 DEF Limiter!Idle
    <3>3. QED BY <1>1, <1>3, <3>1, <3>2
  <2>2. QED BY <1>1, <2>1 DEF CallsYoung
<1>6. KeyLives'
  <2>1. ASSUME NEW m \in admitted' PROVE now' - Limiter!Span < m /\ m + Limiter!Span <= expireAt'
    <3>1. m \in admitted /\ m > now' - Limiter!Span /\ m \in Nat /\ m <= now /\ m + Limiter!Span <= expireAt
        BY <1>1, <1>2, <1>3 DEF LimiterInv, KeyLives, CallTypes
    <3>2. QED BY <1>1, <1>3, <3>1 DEF Limiter!Never
  <2>2. QED BY <2>1 DEF KeyLives
<1>7. Expiring' = Expiring /\ Winning' = Winning /\ Coming' = Coming
    BY <1>1 DEF Expiring, Winning, Coming
<1>8. MomentsOf(Expiring)' = MomentsOf(Expiring) /\ MomentsOf(Winning)' = MomentsOf(Winning)
    BY <1>1, <1>7 DEF MomentsOf
<1>9. Taken' \subseteq Taken
    BY <1>1, <1>8 DEF Taken
<1>10. CASE now' >= expireAt
  <2>1. admitted' = {}
    <3>1. ASSUME NEW m \in admitted' PROVE FALSE
      <4>1. m \in admitted /\ m > now' - Limiter!Span /\ m \in Nat /\ m + Limiter!Span <= expireAt
          BY <1>1, <1>2, <1>3 DEF LimiterInv, KeyLives, CallTypes
      <4>2. QED BY <1>1, <1>3, <1>10, <4>1
    <3>2. QED BY <3>1
  <2>2. zset' = {}
      BY <1>1, <1>10
  <2>3. Lost' = MomentsOf(Expiring)
      BY <1>8, <2>1, <2>2 DEF Lost
  <2>4. Cardinality(Lost') <= Cardinality(Caller)
      BY <2>3, MomentsFew DEF Expiring
  <2>5. IsFiniteSet(Taken) /\ Cardinality(Taken) \in Nat /\ Cardinality(Coming) \in Nat
      BY <1>2, MomentsFinite
  <2>6. Cardinality(Taken') \in Nat /\ Cardinality(Taken') <= Cardinality(Taken)
      BY <1>9, <2>5, FS_Subset, FS_CardinalityType
  <2>7. Cardinality(Taken') + Cardinality(Coming') <= Limit - 1 + 2 * Cardinality(Caller)
      BY <1>7, <2>5, <2>6, LimiterConstants DEF LimiterInv
  <2>8. QED BY <1>4, <1>5, <1>6, <2>4, <2>7 DEF LimiterInv
<1>11. CASE ~(now' >= expireAt)
  <2>1. zset' = zset
      BY <1>1, <1>11
  <2>2. Lost' \subseteq Lost
      BY <1>1, <1>8, <2>1 DEF Lost
  <2>3. QED BY <1>4, <1>5, <1>6, <1>7, <1>9, <2>2, NothingTaken DEF LimiterInv
<1>12. QED BY <1>10, <1>11

LEMMA LimiterStepKeepsInv == LimiterInv /\ [Limiter!Next]_limitVars => LimiterInv'
<1> SUFFICES ASSUME LimiterInv, [Limiter!Next]_limitVars PROVE LimiterInv' OBVIOUS
<1>1. CASE Limiter!Next
    BY <1>1, ClockKeepsInv, BeginKeepsInv, TrimKeepsInv, CardKeepsInv, AddKeepsInv, ExpireKeepsInv,
       ExecFailsKeepsInv DEF Limiter!Next
<1>2. CASE UNCHANGED limitVars
  <2>1. UNCHANGED <<now, zset, expireAt, call, admitted>>
      BY <1>2 DEF limitVars
  <2>2. CallTypes' /\ CallsYoung' /\ KeyLives'
      BY <2>1 DEF LimiterInv, CallTypes, CallsYoung, KeyLives, Limiter!Never
  <2>3. Expiring' = Expiring /\ Winning' = Winning /\ Coming' = Coming
      BY <2>1 DEF Expiring, Winning, Coming
  <2>4. Lost' = Lost /\ Taken' = Taken
      BY <2>1, <2>3 DEF Lost, Taken, MomentsOf
  <2>5. QED BY <2>2, <2>3, <2>4, NothingTaken DEF LimiterInv
<1>3. QED BY <1>1, <1>2

-----------------------------------------------------------------------------
\* With a limit of one, a call that counts nothing has found no key, and that
\* which it makes does not expire before the call ends.  No moment is lost.
Single ==
    /\ zset = {} => expireAt = Limiter!Never
    /\ \A c \in Coming \cup Winning : call[c].at + Limiter!Span <= expireAt
    /\ Taken \subseteq zset
    /\ Cardinality(Taken) + Cardinality(Coming) <= Cardinality(Caller)

SingleInv == Limit = 1 => Single

LEMMA SumKept ==
    ASSUME LimiterInv, Single, Taken' \subseteq Taken, Coming' \subseteq Coming
    PROVE  Cardinality(Taken') + Cardinality(Coming') <= Cardinality(Caller)
<1>1. /\ IsFiniteSet(Taken) /\ Cardinality(Taken) \in Nat
      /\ IsFiniteSet(Coming) /\ Cardinality(Coming) \in Nat
    BY MomentsFinite DEF LimiterInv
<1>2. /\ Cardinality(Taken') \in Nat /\ Cardinality(Taken') <= Cardinality(Taken)
      /\ Cardinality(Coming') \in Nat /\ Cardinality(Coming') <= Cardinality(Coming)
    BY <1>1, FS_Subset, FS_CardinalityType
<1>3. QED BY <1>1, <1>2, LimiterConstants DEF Single

\* The moments of calls under way, and how long they have been.
LEMMA MomentsUnderWay ==
    ASSUME LimiterInv
    PROVE  /\ \A c \in Coming \cup Winning :
                  /\ c \in Caller /\ call[c].pc # "idle"
                  /\ call[c].at \in Nat /\ call[c].at <= now /\ now <= call[c].at + CallDelay
                  /\ call[c].at + Limiter!Span <= Limiter!Never
           /\ \A m \in Taken : m \in Nat /\ m <= now /\ now < m + Limiter!Span
           /\ now \in Nat /\ expireAt \in Nat
<1>1. now \in Nat /\ expireAt \in Nat /\ now <= LimiterEnd
    BY DEF LimiterInv, CallTypes
<1>2. ASSUME NEW c \in Caller, call[c].pc # "idle"
      PROVE  /\ call[c].at \in Nat /\ call[c].at <= now /\ now <= call[c].at + CallDelay
             /\ call[c].at + Limiter!Span <= Limiter!Never
  <2>1. call[c].at \in Window .. now /\ now <= call[c].at + CallDelay
      BY <1>2 DEF LimiterInv, CallsYoung
  <2>2. QED BY <1>1, <2>1, LimiterConstants DEF Limiter!Never
<1>3. \A c \in Coming \cup Winning : c \in Caller /\ call[c].pc # "idle"
    BY DEF Coming, Winning
<1>4. ASSUME NEW m \in Taken PROVE m \in Nat /\ m <= now /\ now < m + Limiter!Span
  <2>1. CASE m \in admitted
    <3>1. m \in Window .. now /\ now - Limiter!Span < m
        BY <2>1 DEF LimiterInv, CallTypes, KeyLives
    <3>2. QED BY <1>1, <3>1, LimiterConstants
  <2>2. CASE m \in MomentsOf(Winning)
    <3>1. PICK c \in Winning : m = call[c].at
        BY <2>2 DEF MomentsOf
    <3>2. call[c].at \in Nat /\ call[c].at <= now /\ now <= call[c].at + CallDelay
        BY <1>2, <1>3, <3>1
    <3>3. QED BY <1>1, <3>1, <3>2, LimiterConstants
  <2>3. QED BY <2>1, <2>2 DEF Taken
<1>5. QED BY <1>1, <1>2, <1>3, <1>4

LEMMA TrimKeepsSingle ==
    ASSUME LimiterInv, Single, NEW c \in Caller, Limiter!ZRemRangeByScore(c)
    PROVE  Single'
<1>1. /\ UNCHANGED <<now, admitted>> /\ call[c].pc = "trim"
      /\ zset' = {m \in zset : m > call[c].at - Window}
      /\ expireAt' = IF zset' = {} THEN Limiter!Never ELSE expireAt
    BY DEF Limiter!ZRemRangeByScore, Limiter!Trimmed
<1>2. GoesOn(c, "card")
    BY StepsOn DEF Limiter!ZRemRangeByScore, LimiterInv
<1>3. Winning' = Winning /\ Coming' = Coming /\ \A d \in Coming \cup Winning : call'[d] = call[d]
    BY <1>1, <1>2 DEF Winning, Coming, GoesOn
<1>4. Taken' = Taken
    BY <1>1, <1>3 DEF Taken, MomentsOf
<1>5. call[c].at \in Nat /\ call[c].at <= now
  <2>1. call[c].at \in Window .. now
      BY <1>1 DEF LimiterInv, CallsYoung
  <2>2. QED BY <2>1, MomentsUnderWay, LimiterConstants
<1>6. \A m \in Taken : m > call[c].at - Window
    BY <1>5, MomentsUnderWay, LimiterConstants
<1>7. Taken' \subseteq zset'
    BY <1>1, <1>4, <1>6 DEF Single
<1>8. \A d \in (Coming \cup Winning)' : call'[d].at + Limiter!Span <= expireAt'
    BY <1>1, <1>3, MomentsUnderWay DEF Single
<1>9. Cardinality(Taken') + Cardinality(Coming') <= Cardinality(Caller)
    BY <1>3, <1>4, SumKept
<1>10. zset' = {} => expireAt' = Limiter!Never
    BY <1>1
<1>11. QED BY <1>7, <1>8, <1>9, <1>10 DEF Single, Limiter!Never

LEMMA CardKeepsSingle ==
    ASSUME Limit = 1, LimiterInv, Single, NEW c \in Caller, Limiter!ZCard(c)
    PROVE  Single'
<1>1. /\ UNCHANGED <<now, zset, expireAt, admitted>> /\ call[c].pc = "card"
      /\ call' = [call EXCEPT ![c] = [pc |-> "add", at |-> call[c].at, count |-> Cardinality(zset)]]
    BY LimiterCounts DEF Limiter!ZCard, LimiterInv, CallTypes
<1>2. /\ call'[c].pc = "add" /\ call'[c].at = call[c].at /\ call'[c].count = Cardinality(zset)
      /\ \A d \in Caller \ {c} : call'[d] = call[d]
    BY <1>1 DEF LimiterInv, CallTypes
<1>3. Winning' = Winning /\ \A d \in Winning : call'[d] = call[d]
    BY <1>1, <1>2 DEF Winning
<1>4. Taken' = Taken
    BY <1>1, <1>3 DEF Taken, MomentsOf
<1>5. IsFiniteSet(zset) /\ Cardinality(zset) \in Nat
    BY MomentsFinite DEF LimiterInv
<1>6. CASE zset = {}
  <2>1. expireAt = Limiter!Never /\ Taken = {}
      BY <1>6 DEF Single
  <2>2. Coming' \in SUBSET Caller
      BY DEF Coming
  <2>3. Cardinality(Coming') \in Nat /\ Cardinality(Coming') <= Cardinality(Caller)
      BY <2>2, MomentsFew
  <2>4. Cardinality(Taken') + Cardinality(Coming') <= Cardinality(Caller)
    <3>1. Cardinality(Taken') = 0
        BY <1>4, <2>1, FS_EmptySet
    <3>2. QED BY <2>3, <3>1
  <2>5. \A d \in (Coming \cup Winning)' : call'[d].at + Limiter!Span <= Limiter!Never
    <3>1. Coming' \subseteq Coming \cup {c}
        BY <1>2 DEF Coming
    <3>2. call[c].at + Limiter!Span <= Limiter!Never
      <4>1. call[c].at \in Window .. now /\ now \in Nat /\ now <= LimiterEnd
          BY <1>1 DEF LimiterInv, CallsYoung, CallTypes
      <4>2. QED BY <4>1, LimiterConstants DEF Limiter!Never
    <3>3. \A d \in Coming : call'[d].at = call[d].at
        BY <1>1, <1>2 DEF Coming
    <3>4. QED BY <1>2, <1>3, <3>1, <3>2, <3>3, MomentsUnderWay
  <2>6. QED BY <1>1, <1>4, <2>1, <2>4, <2>5 DEF Single, Limiter!Never
<1>7. CASE zset # {}
  <2>1. ~(Cardinality(zset) < Limit)
      BY <1>5, <1>7, FS_EmptySet
  <2>2. Coming' = Coming /\ \A d \in Coming : call'[d] = call[d]
      BY <1>1, <1>2, <2>1 DEF Coming
  <2>3. QED BY <1>1, <1>3, <1>4, <2>2 DEF Single, Limiter!Never
<1>8. QED BY <1>6, <1>7

LEMMA AddKeepsSingle ==
    ASSUME LimiterInv, Single, NEW c \in Caller, Limiter!ZAdd(c)
    PROVE  Single'
<1>1. /\ UNCHANGED <<now, expireAt, admitted>> /\ call[c].pc = "add"
      /\ zset' = zset \cup {call[c].at}
    BY DEF Limiter!ZAdd
<1>2. GoesOn(c, "expire")
    BY StepsOn DEF Limiter!ZAdd, LimiterInv
<1>3. /\ IsFiniteSet(Taken) /\ Cardinality(Taken) \in Nat
      /\ IsFiniteSet(Coming) /\ Cardinality(Coming) \in Nat
    BY MomentsFinite DEF LimiterInv
<1>4. (Coming \cup Winning)' = Coming \cup Winning
    BY <1>1, <1>2 DEF Coming, Winning, GoesOn
<1>5. \A d \in Coming \cup Winning : call'[d].at = call[d].at
    BY <1>1, <1>2 DEF Coming, Winning, GoesOn
<1>6. CASE c \in Coming
  <2>1. Winning' = Winning \cup {c} /\ Coming' = Coming \ {c}
      BY <1>1, <1>2, <1>6 DEF Winning, Coming, GoesOn
  <2>2. MomentsOf(Winning)' = MomentsOf(Winning) \cup {call[c].at}
      BY <1>1, <1>2, <2>1 DEF MomentsOf, Winning, GoesOn
  <2>3. Taken' = Taken \cup {call[c].at}
      BY <1>1, <2>2 DEF Taken
  <2>4. Cardinality(Coming') = Cardinality(Coming) - 1
      BY <1>3, <1>6, <2>1, FS_RemoveElement
  <2>5. Cardinality(Taken') \in Nat /\ Cardinality(Taken') <= Cardinality(Taken) + 1
    <3>1. CASE call[c].at \in Taken
      <4>1. Taken' = Taken
          BY <2>3, <3>1
      <4>2. QED BY <1>3, <4>1
    <3>2. CASE call[c].at \notin Taken
      <4>1. Cardinality(Taken') = Cardinality(Taken) + 1
          BY <1>3, <2>3, <3>2, FS_AddElement
      <4>2. QED BY <1>3, <4>1
    <3>3. QED BY <3>1, <3>2
  <2>6. Cardinality(Taken') + Cardinality(Coming') <= Cardinality(Caller)
      BY <1>3, <2>4, <2>5, LimiterConstants DEF Single
  <2>7. QED BY <1>1, <1>4, <1>5, <2>3, <2>6 DEF Single, Limiter!Never
<1>7. CASE c \notin Coming
  <2>1. Winning' = Winning /\ Coming' = Coming
      BY <1>1, <1>2, <1>7 DEF Winning, Coming, GoesOn
  <2>2. Taken' = Taken
      BY <1>1, <1>5, <2>1 DEF Taken, MomentsOf
  <2>3. QED BY <1>1, <1>4, <1>5, <2>1, <2>2 DEF Single, Limiter!Never
<1>8. QED BY <1>6, <1>7

LEMMA EndKeepsSingle ==
    ASSUME LimiterInv, Single, NEW c \in Caller, Limiter!Expire(c) \/ Limiter!ExecFails(c)
    PROVE  Single'
<1>1. /\ UNCHANGED <<now, zset>>
      /\ call' = [call EXCEPT ![c] = [pc |-> "idle", at |-> 0, count |-> 0]]
      /\ \/ expireAt' = expireAt
         \/ expireAt' = IF zset = {} THEN Limiter!Never ELSE now + Limiter!Expiry
      /\ \/ admitted' = admitted
         \/ c \in Winning /\ admitted' = admitted \cup {call[c].at}
    BY DEF Limiter!Expire, Limiter!ExecFails, Limiter!Idle, Winning
<1>2. Ends(c)
    BY <1>1, LimiterConstants DEF Ends, LimiterInv, CallTypes
<1>3. Taken' \subseteq Taken /\ Coming' \subseteq Coming
    BY <1>1, <1>2, EndOfCall
<1>4. Winning' \subseteq Winning /\ \A d \in (Coming \cup Winning)' : call'[d].at = call[d].at
    BY <1>2 DEF Coming, Winning, Ends
<1>5. \A d \in (Coming \cup Winning)' : call'[d].at + Limiter!Span <= expireAt'
  <2>1. ASSUME NEW d \in Coming \cup Winning PROVE call[d].at + Limiter!Span <= expireAt'
    <3>1. /\ call[d].at \in Nat /\ call[d].at <= now /\ now \in Nat
          /\ call[d].at + Limiter!Span <= Limiter!Never /\ call[d].at + Limiter!Span <= expireAt
        BY MomentsUnderWay DEF Single
    <3>2. QED BY <1>1, <3>1, LimiterConstants
  <2>2. QED BY <1>3, <1>4, <2>1
<1>6. zset' = {} => expireAt' = Limiter!Never
    BY <1>1 DEF Single
<1>7. Cardinality(Taken') + Cardinality(Coming') <= Cardinality(Caller)
    BY <1>3, SumKept
<1>8. QED BY <1>1, <1>3, <1>5, <1>6, <1>7 DEF Single, Limiter!Never

\* No call that is sure to be admitted is under way when the key is dropped.
LEMMA ClockKeepsSingle == ASSUME LimiterInv, Single, Limiter!Tick PROVE Single'
<1>1. /\ now' = now + 1 /\ call' = call
      /\ \A c \in Caller : call[c] # Limiter!Idle => now < call[c].at + CallDelay
      /\ admitted' = {m \in admitted : m > now' - Limiter!Span}
      /\ IF now' >= expireAt THEN zset' = {} /\ expireAt' = Limiter!Never
         ELSE zset' = zset /\ expireAt' = expireAt
    BY DEF Limiter!Tick
<1>2. Winning' = Winning /\ Coming' = Coming
    BY <1>1 DEF Winning, Coming
<1>3. Taken' \subseteq Taken /\ Taken' = admitted' \cup MomentsOf(Winning)
    BY <1>1, <1>2 DEF Taken, MomentsOf
<1>4. Cardinality(Taken') + Cardinality(Coming') <= Cardinality(Caller)
    BY <1>2, <1>3, SumKept
<1>5. \A d \in Coming \cup Winning : call[d].at + Limiter!Span <= expireAt'
    BY <1>1, MomentsUnderWay DEF Single
<1>6. CASE now' >= expireAt
  <2>1. admitted' = {}
    <3>1. ASSUME NEW m \in admitted' PROVE FALSE
      <4>1. m \in admitted /\ m > now' - Limiter!Span /\ m \in Nat /\ m + Limiter!Span <= expireAt
          BY <1>1, LimiterConstants DEF LimiterInv, KeyLives, CallTypes
      <4>2. QED BY <1>1, <1>6, <4>1, MomentsUnderWay, LimiterConstants
    <3>2. QED BY <3>1
  <2>2. ASSUME NEW c \in Winning PROVE FALSE
    <3>1. /\ c \in Caller /\ call[c].pc # "idle" /\ call[c].at \in Nat
          /\ call[c].at + Limiter!Span <= expireAt
        BY MomentsUnderWay DEF Single
    <3>2. now < call[c].at + CallDelay
        BY <1>1, <3>1 DEF Limiter!Idle
    <3>3. QED BY <1>1, <1>6, <3>1, <3>2, MomentsUnderWay, LimiterConstants
  <2>3. Taken' = {}
      BY <1>3, <2>1, <2>2 DEF MomentsOf
  <2>4. QED BY <1>1, <1>2, <1>4, <1>5, <1>6, <2>3 DEF Single, Limiter!Never
<1>7. CASE ~(now' >= expireAt)
    BY <1>1, <1>2, <1>3, <1>4, <1>5, <1>7 DEF Single, Limiter!Never
<1>8. QED BY <1>6, <1>7

LEMMA SingleInit == Limiter!Init => SingleInv
<1> SUFFICES ASSUME Limiter!Init PROVE Single BY DEF SingleInv
<1>1. expireAt = Limiter!Never /\ admitted = {} /\ \A c \in Caller : call[c].pc = "idle"
    BY DEF Limiter!Init, Limiter!Idle
<1>2. Winning = {} /\ Coming = {}
    BY <1>1 DEF Winning, Coming
<1>3. Taken = {}
    BY <1>1, <1>2 DEF Taken, MomentsOf
<1>4. Cardinality(Taken) = 0 /\ Cardinality(Coming) = 0
    BY <1>2, <1>3, FS_EmptySet
<1>5. QED BY <1>1, <1>2, <1>3, <1>4, LimiterConstants DEF Single

LEMMA SingleStep == ASSUME LimiterInv, SingleInv, [Limiter!Next]_limitVars PROVE SingleInv'
<1> SUFFICES ASSUME Limit = 1, Single PROVE Single'
    BY DEF SingleInv
<1>1. ASSUME NEW c \in Caller, Limiter!Begin(c) PROVE Single'
  <2>1. /\ UNCHANGED <<now, zset, expireAt, admitted>>
        /\ \A d \in Caller : IF d = c THEN call[d].pc = "idle" /\ call'[d].pc = "trim"
                             ELSE call'[d] = call[d]
      BY <1>1 DEF Limiter!Begin, Limiter!Idle, LimiterInv, CallTypes
  <2>2. /\ Winning' = Winning /\ Coming' = Coming
        /\ \A d \in Coming \cup Winning : call'[d] = call[d]
      BY <2>1 DEF Winning, Coming
  <2>3. Taken' = Taken
      BY <2>1, <2>2 DEF Taken, MomentsOf
  <2>4. QED BY <2>1, <2>2, <2>3 DEF Single, Limiter!Never
<1>2. CASE Limiter!Next
    BY <1>1, <1>2, TrimKeepsSingle, CardKeepsSingle, AddKeepsSingle, EndKeepsSingle, ClockKeepsSingle
       DEF Limiter!Next
<1>3. CASE UNCHANGED limitVars
  <2>1. UNCHANGED <<now, zset, expireAt, call, admitted>>
      BY <1>3 DEF limitVars
  <2>2. Winning' = Winning /\ Coming' = Coming
      BY <2>1 DEF Winning, Coming
  <2>3. Taken' = Taken
      BY <2>1, <2>2 DEF Taken, MomentsOf
  <2>4. QED BY <2>1, <2>2, <2>3 DEF Single, Limiter!Never
<1>4. QED BY <1>2, <1>3

LEMMA MomentsFromInv == LimiterInv /\ SingleInv => Limiter!MomentsBounded
<1> SUFFICES ASSUME LimiterInv, SingleInv, NEW t \in Window .. now
             PROVE  Cardinality({m \in admitted : m > t - (Limiter!Span - CallDelay) /\ m <= t})
                        <= Limit - 1 + Cardinality(Caller)
                               + (IF Limit = 1 THEN 0 ELSE Cardinality(Caller))
    BY LimiterCounts DEF Limiter!MomentsBounded
<1> DEFINE shown == {m \in admitted : m > t - (Limiter!Span - CallDelay) /\ m <= t}
<1>1. /\ IsFiniteSet(Taken) /\ Cardinality(Taken) \in Nat /\ Cardinality(Coming) \in Nat
    BY MomentsFinite DEF LimiterInv
<1>2. shown \subseteq Taken
    BY DEF Taken
<1>3. Cardinality(shown) \in Nat /\ Cardinality(shown) <= Cardinality(Taken)
    BY <1>1, <1>2, FS_Subset, FS_CardinalityType
<1> HIDE DEF shown
<1>4. Cardinality(shown) <= Limit - 1 + 2 * Cardinality(Caller)
    BY <1>1, <1>3, LimiterConstants DEF LimiterInv
<1>5. Limit = 1 => Cardinality(shown) <= Cardinality(Caller)
    BY <1>1, <1>3, LimiterConstants DEF SingleInv, Single
<1>6. Cardinality(shown) <= Limit - 1 + Cardinality(Caller)
                                + (IF Limit = 1 THEN 0 ELSE Cardinality(Caller))
    BY <1>3, <1>4, <1>5, LimiterConstants
<1>7. QED BY <1>6 DEF shown

-----------------------------------------------------------------------------
(***************************************************************************)
(* The WebSocket client: for any visits of pages and any longest delay.    *)
(***************************************************************************)

LEMMA SocketCounts == \A S : Socket!Cardinality(S) = Cardinality(S)
<1>1. ASSUME NEW S PROVE Socket!Cardinality(S) = Cardinality(S)
    BY Zenon DEF Socket!Cardinality, Cardinality
<1>2. QED BY <1>1

\* There is a socket, or a timer that will make one, or neither.
Alone(live, pending) ==
    \/ live = {} /\ pending = {}
    \/ \E s : live = {s} /\ pending = {}
    \/ \E t : live = {} /\ pending = {t}

\* The fields are those of a manager.
Shaped(x) ==
    x = [mounted |-> x.mounted, ws |-> x.ws, sockets |-> x.sockets, timers |-> x.timers,
         reconnectTimer |-> x.reconnectTimer, reconnectDelay |-> x.reconnectDelay]

SocketsOne(x) ==
    /\ Socket!Typed(x)
    /\ Alone(DOMAIN x.sockets, x.timers)
    /\ x.mounted = "not yet" => DOMAIN x.sockets = {} /\ x.timers = {}

SocketInv ==
    /\ managers = [m \in Manager |-> managers[m]]
    /\ \A m \in Manager : SocketsOne(managers[m])
    /\ net \in BOOLEAN

LEMMA AloneIsOne == ASSUME NEW live, NEW pending, Alone(live, pending)
                    PROVE Cardinality(live) + Cardinality(pending) <= 1
<1>1. Cardinality({}) = 0 /\ \A s : Cardinality({s}) = 1
    BY FS_EmptySet, FS_Singleton
<1>2. CASE live = {} /\ pending = {}
    BY <1>1, <1>2
<1>3. CASE \E s : live = {s} /\ pending = {}
  <2>1. PICK s : live = {s} /\ pending = {}
      BY <1>3
  <2>2. Cardinality(live) = 1 /\ Cardinality(pending) = 0
      BY <1>1, <2>1
  <2>3. QED BY <2>2
<1>4. CASE \E t : live = {} /\ pending = {t}
  <2>1. PICK t : live = {} /\ pending = {t}
      BY <1>4
  <2>2. Cardinality(live) = 0 /\ Cardinality(pending) = 1
      BY <1>1, <2>1
  <2>3. QED BY <2>2
<1>5. QED BY <1>2, <1>3, <1>4 DEF Alone

LEMMA DelayFacts ==
    /\ LongestDelay \in Nat /\ 1 \in 1 .. LongestDelay
    /\ \A d \in 1 .. LongestDelay : Socket!Doubled(d) \in 1 .. LongestDelay
<1>1. LongestDelay \in Nat /\ LongestDelay >= 1
    BY SocketConfigured DEF Socket!ConfigAssumption
<1>2. QED BY <1>1 DEF Socket!Doubled

LEMMA SocketInit == Socket!Init => SocketInv
<1> SUFFICES ASSUME Socket!Init PROVE SocketInv OBVIOUS
<1>1. DOMAIN Socket!New.sockets = {} /\ Socket!New.timers = {}
    BY EmptyFacts DEF Socket!New
<1>2. Socket!Typed(Socket!New)
    BY <1>1, DelayFacts DEF Socket!Typed, Socket!Live, Socket!New
<1>3. SocketsOne(Socket!New)
    BY <1>1, <1>2 DEF SocketsOne, Alone
<1>4. QED BY <1>3 DEF SocketInv, Socket!Init

\* A manager that has been as it should is so after a step of its own.
LEMMA BecomesOne ==
    ASSUME SocketInv, NEW m \in Manager, NEW S, Socket!Becomes(m, S),
           \A y \in S : SocketsOne(y)
    PROVE  SocketInv'
<1>1. PICK y \in S : managers' = [managers EXCEPT ![m] = y] /\ UNCHANGED net
    BY DEF Socket!Becomes
<1>2. \A o \in Manager : managers'[o] = IF o = m THEN y ELSE managers[o]
    BY <1>1 DEF SocketInv
<1>3. managers' = [o \in Manager |-> managers'[o]]
    BY <1>1 DEF SocketInv
<1>4. QED BY <1>1, <1>2, <1>3 DEF SocketInv

\* A connection that is made where there is none is the only one.
LEMMA ConnectMakesOne ==
    ASSUME NEW x, Socket!Typed(x), DOMAIN x.sockets = {}, x.timers = {}, x.mounted # "not yet",
           NEW y \in Socket!Connect(x)
    PROVE  SocketsOne(y)
<1>1. PICK s \in SocketID :
          y = [x EXCEPT !.ws = s,
                        !.sockets = [o \in Socket!Live(x) \cup {s} |->
                                        IF o = s THEN "connecting" ELSE x.sockets[o]]]
    BY DEF Socket!Connect, Socket!Live
<1>2. y = [x EXCEPT !.ws = s, !.sockets = [o \in {s} |-> "connecting"]]
    BY <1>1 DEF Socket!Live
<1>3. /\ y.mounted = x.mounted /\ y.ws = s /\ y.timers = {} /\ y.reconnectTimer = x.reconnectTimer
      /\ y.reconnectDelay = x.reconnectDelay /\ y.sockets = [o \in {s} |-> "connecting"]
      /\ Shaped(y)
    BY <1>2 DEF Socket!Typed, Shaped
<1>4. QED BY <1>3 DEF SocketsOne, Alone, Socket!Typed, Socket!Live, Shaped

\* Its last socket gone, a manager waits for a timer.
LEMMA ScheduleMakesOne ==
    ASSUME NEW x, SocketsOne(x), NEW s \in DOMAIN x.sockets,
           NEW y \in Socket!ScheduleReconnect(Socket!Without(x, s))
    PROVE  SocketsOne(y)
<1>1. DOMAIN x.sockets = {s} /\ x.timers = {} /\ x.mounted # "not yet"
    BY DEF SocketsOne, Alone
<1> DEFINE w == Socket!Without(x, s)
<1>2. /\ w.mounted = x.mounted /\ w.ws = x.ws /\ w.timers = {} /\ DOMAIN w.sockets = {}
      /\ w.reconnectTimer = x.reconnectTimer /\ w.reconnectDelay = x.reconnectDelay /\ Shaped(w)
  <2> DEFINE rest == Socket!Restrict(x.sockets, Socket!Live(x) \ {s})
  <2>1. DOMAIN rest = {}
      BY <1>1 DEF Socket!Restrict, Socket!Live
  <2>2. Shaped(x) /\ w = [x EXCEPT !.sockets = rest]
      BY DEF Socket!Without, SocketsOne, Socket!Typed, Shaped
  <2> HIDE DEF w, rest
  <2>3. QED BY <1>1, <2>1, <2>2 DEF Shaped
<1> HIDE DEF w
<1>3. PICK t \in SocketID : y = [w EXCEPT !.timers = @ \cup {t}, !.reconnectTimer = t]
    BY DEF Socket!ScheduleReconnect, w
<1>4. /\ y.mounted = x.mounted /\ y.ws = x.ws /\ y.timers = {t} /\ DOMAIN y.sockets = {}
      /\ y.reconnectTimer = t /\ y.reconnectDelay = x.reconnectDelay /\ Shaped(y)
    BY <1>2, <1>3 DEF Shaped
<1>5. QED BY <1>1, <1>4 DEF SocketsOne, Alone, Socket!Typed, Socket!Live, Shaped

\* Sockets that are being closed live until their close event.
LEMMA ClosingKeepsOne ==
    ASSUME NEW x, SocketsOne(x), NEW S, NEW y, y = Socket!Closing(x, S)
    PROVE  /\ SocketsOne(y) /\ DOMAIN y.sockets = DOMAIN x.sockets
           /\ y.timers = x.timers /\ y.mounted = x.mounted /\ y.ws = x.ws
<1>1. /\ y.mounted = x.mounted /\ y.ws = x.ws /\ y.timers = x.timers
      /\ y.reconnectTimer = x.reconnectTimer /\ y.reconnectDelay = x.reconnectDelay
      /\ DOMAIN y.sockets = DOMAIN x.sockets
      /\ \A s \in DOMAIN x.sockets : y.sockets[s] \in {"closing", x.sockets[s]}
      /\ Shaped(y)
  <2> DEFINE closed == [s \in DOMAIN x.sockets |-> IF s \in S THEN "closing" ELSE x.sockets[s]]
  <2>1. DOMAIN closed = DOMAIN x.sockets
        /\ \A s \in DOMAIN x.sockets : closed[s] \in {"closing", x.sockets[s]}
      OBVIOUS
  <2>2. Shaped(x) /\ y = [x EXCEPT !.sockets = closed]
      BY DEF Socket!Closing, Socket!Live, SocketsOne, Socket!Typed, Shaped
  <2> HIDE DEF closed
  <2>3. QED BY <2>1, <2>2 DEF Shaped
<1>2. QED BY <1>1 DEF SocketsOne, Socket!Typed, Socket!Live, Shaped

LEMMA SocketStepKeepsInv == SocketInv /\ [Socket!Next]_wsVars => SocketInv'
<1> SUFFICES ASSUME SocketInv, [Socket!Next]_wsVars PROVE SocketInv' OBVIOUS
<1>1. ASSUME NEW m \in Manager, Socket!Mount(m) PROVE SocketInv'
  <2> DEFINE x == managers[m]
             z == [x EXCEPT !.mounted = "yes"]
  <2>1. SocketsOne(x) /\ x.mounted = "not yet" /\ Socket!Becomes(m, Socket!Connect(z))
      BY <1>1 DEF Socket!Mount, SocketInv
  <2> HIDE DEF x
  <2>2. Shaped(x) /\ DOMAIN x.sockets = {} /\ x.timers = {}
      BY <2>1 DEF SocketsOne, Socket!Typed, Shaped
  <2>3. /\ z.mounted = "yes" /\ z.ws = x.ws /\ z.timers = {} /\ z.sockets = x.sockets
        /\ z.reconnectTimer = x.reconnectTimer /\ z.reconnectDelay = x.reconnectDelay /\ Shaped(z)
      BY <2>2 DEF Shaped
  <2> HIDE DEF z
  <2>4. Socket!Typed(z)
      BY <2>1, <2>2, <2>3 DEF SocketsOne, Socket!Typed, Socket!Live, Shaped
  <2>5. \A y \in Socket!Connect(z) : SocketsOne(y)
      BY <2>2, <2>3, <2>4, ConnectMakesOne
  <2>6. QED BY <2>1, <2>5, BecomesOne
<1>2. ASSUME NEW m \in Manager, Socket!Disconnect(m) PROVE SocketInv'
  <2> DEFINE x == managers[m]
             z == Socket!Closing(x, {x.ws})
             y == [z EXCEPT !.mounted = "no more", !.timers = @ \ {x.reconnectTimer}, !.ws = NoSocket]
  <2>1. SocketsOne(x) /\ Socket!Becomes(m, {y})
      BY <1>2 DEF Socket!Disconnect, SocketInv
  <2>2. SocketsOne(z)
      BY <2>1, ClosingKeepsOne
  <2> HIDE DEF z
  <2>3. Shaped(z)
      BY <2>2 DEF SocketsOne, Socket!Typed, Shaped
  <2>4. /\ y.mounted = "no more" /\ y.ws = NoSocket /\ y.timers \subseteq z.timers /\ y.sockets = z.sockets
        /\ y.reconnectTimer = z.reconnectTimer /\ y.reconnectDelay = z.reconnectDelay /\ Shaped(y)
    <3> DEFINE rest == z.timers \ {x.reconnectTimer}
    <3>1. rest \subseteq z.timers /\ y = [z EXCEPT !.mounted = "no more", !.timers = rest, !.ws = NoSocket]
        BY <2>3 DEF Shaped
    <3> HIDE DEF y, rest
    <3>2. y = [mounted |-> "no more", ws |-> NoSocket, sockets |-> z.sockets, timers |-> rest,
               reconnectTimer |-> z.reconnectTimer, reconnectDelay |-> z.reconnectDelay]
        BY <2>3, <3>1 DEF Shaped
    <3>3. QED BY <3>1, <3>2 DEF Shaped
  <2> HIDE DEF y
  <2>5. Alone(DOMAIN y.sockets, y.timers)
      BY <2>2, <2>4 DEF SocketsOne, Alone
  <2>6. SocketsOne(y)
      BY <2>2, <2>4, <2>5 DEF SocketsOne, Socket!Typed, Socket!Live, Shaped
  <2>7. QED BY <2>1, <2>6, BecomesOne
<1>3. CASE Socket!NetChanges
    BY <1>3 DEF Socket!NetChanges, SocketInv
<1>4. ASSUME NEW m \in Manager, NEW s \in SocketID, Socket!OnOpen(m, s) PROVE SocketInv'
  <2> DEFINE x == managers[m]
             y == [x EXCEPT !.sockets[s] = "open", !.reconnectDelay = 1]
  <2>1. SocketsOne(x) /\ Socket!Becomes(m, {y})
      BY <1>4 DEF Socket!OnOpen, SocketInv
  <2> HIDE DEF x
  <2>2. /\ y.mounted = x.mounted /\ y.ws = x.ws /\ y.timers = x.timers
        /\ DOMAIN y.sockets = DOMAIN x.sockets
        /\ \A o \in DOMAIN x.sockets : y.sockets[o] \in {"open", x.sockets[o]}
        /\ y.reconnectTimer = x.reconnectTimer /\ y.reconnectDelay = 1 /\ Shaped(y)
    <3> DEFINE opened == [x.sockets EXCEPT ![s] = "open"]
    <3>1. DOMAIN opened = DOMAIN x.sockets
          /\ \A o \in DOMAIN x.sockets : opened[o] \in {"open", x.sockets[o]}
        OBVIOUS
    <3>2. Shaped(x) /\ y = [x EXCEPT !.sockets = opened, !.reconnectDelay = 1]
        BY <2>1 DEF SocketsOne, Socket!Typed, Shaped
    <3> HIDE DEF y, opened
    <3>3. QED BY <3>1, <3>2 DEF Shaped
  <2> HIDE DEF y
  <2>3. SocketsOne(y)
      BY <2>1, <2>2, DelayFacts DEF SocketsOne, Socket!Typed, Socket!Live, Shaped
  <2>4. QED BY <2>1, <2>3, BecomesOne
<1>5. ASSUME NEW m \in Manager, NEW s \in SocketID, Socket!OnError(m, s) PROVE SocketInv'
  <2>1. SocketsOne(managers[m])
        /\ Socket!Becomes(m, {Socket!Closing(managers[m], {s, managers[m].ws})})
      BY <1>5 DEF Socket!OnError, SocketInv
  <2>2. QED BY <2>1, ClosingKeepsOne, BecomesOne
<1>6. ASSUME NEW m \in Manager, NEW s \in SocketID, Socket!OnClose(m, s) PROVE SocketInv'
  <2>1. /\ SocketsOne(managers[m]) /\ s \in DOMAIN managers[m].sockets
        /\ Socket!Becomes(m, Socket!ScheduleReconnect(Socket!Without(managers[m], s)))
      BY <1>6 DEF Socket!OnClose, Socket!Live, SocketInv
  <2>2. QED BY <2>1, ScheduleMakesOne, BecomesOne
<1>7. ASSUME NEW m \in Manager, NEW t \in SocketID, Socket!TimerFires(m, t) PROVE SocketInv'
  <2> DEFINE x == managers[m]
             z == [x EXCEPT !.timers = @ \ {t}, !.reconnectDelay = Socket!Doubled(@)]
  <2>1. SocketsOne(x) /\ t \in x.timers /\ Socket!Becomes(m, Socket!Connect(z))
      BY <1>7 DEF Socket!TimerFires, SocketInv
  <2> HIDE DEF x
  <2>2. DOMAIN x.sockets = {} /\ x.timers = {t} /\ x.mounted # "not yet"
      BY <2>1 DEF SocketsOne, Alone
  <2>3. /\ z.mounted = x.mounted /\ z.timers = {} /\ z.sockets = x.sockets
        /\ z.reconnectDelay = Socket!Doubled(x.reconnectDelay)
        /\ z.ws = x.ws /\ z.reconnectTimer = x.reconnectTimer /\ Shaped(z)
    <3>1. Shaped(x) /\ x.timers = {t}
        BY <2>1, <2>2 DEF SocketsOne, Socket!Typed, Shaped
    <3> DEFINE longer == Socket!Doubled(x.reconnectDelay)
    <3>2. z = [x EXCEPT !.timers = {}, !.reconnectDelay = longer]
        BY <3>1 DEF Shaped
    <3> HIDE DEF z, longer
    <3>3. z = [mounted |-> x.mounted, ws |-> x.ws, sockets |-> x.sockets, timers |-> {},
               reconnectTimer |-> x.reconnectTimer, reconnectDelay |-> longer]
        BY <3>1, <3>2 DEF Shaped
    <3>4. QED BY <3>3 DEF Shaped, longer
  <2> HIDE DEF z
  <2>4. Socket!Typed(z)
      BY <2>1, <2>2, <2>3, DelayFacts DEF SocketsOne, Socket!Typed, Socket!Live, Shaped
  <2>5. \A y \in Socket!Connect(z) : SocketsOne(y)
      BY <2>2, <2>3, <2>4, ConnectMakesOne
  <2>6. QED BY <2>1, <2>5, BecomesOne
<1>8. CASE UNCHANGED wsVars
    BY <1>8 DEF wsVars, SocketInv
<1>9. QED BY <1>1, <1>2, <1>3, <1>4, <1>5, <1>6, <1>7, <1>8 DEF Socket!Next, Socket!Browser

LEMMA OneFromInv == SocketInv => Socket!OneConnectionEach
<1> SUFFICES ASSUME SocketInv, NEW m \in Manager
             PROVE  Cardinality(DOMAIN managers[m].sockets) + Cardinality(managers[m].timers)
                        <= IF managers[m].mounted = "not yet" THEN 0 ELSE 1
    BY SocketCounts DEF Socket!OneConnectionEach, Socket!Live
<1> DEFINE live == DOMAIN managers[m].sockets
           pending == managers[m].timers
<1>1. Alone(live, pending) /\ (managers[m].mounted = "not yet" => live = {} /\ pending = {})
    BY DEF SocketInv, SocketsOne
<1> HIDE DEF live, pending
<1>2. Cardinality(live) + Cardinality(pending) <= 1
    BY <1>1, AloneIsOne
<1>3. Cardinality({}) = 0
    BY FS_EmptySet
<1>4. CASE managers[m].mounted = "not yet"
  <2>1. Cardinality(live) = 0 /\ Cardinality(pending) = 0
      BY <1>1, <1>3, <1>4
  <2>2. Cardinality(live) + Cardinality(pending) <= 0
      BY <2>1
  <2>3. QED BY <1>4, <2>2 DEF live, pending
<1>5. CASE managers[m].mounted # "not yet"
    BY <1>2, <1>5 DEF live, pending
<1>6. QED BY <1>4, <1>5

-----------------------------------------------------------------------------
(***************************************************************************)
(* Paging: for any tenants, rows, requests and limits.                     *)
(***************************************************************************)

LEMMA ApiOperators ==
    /\ \A S : Api!IsFiniteSet(S) <=> IsFiniteSet(S)
    /\ \A S : Api!Cardinality(S) = Cardinality(S)
    /\ \A S : Api!SetToSeqs(S) = SetToSeqs(S)
    /\ \A s : Api!ToSet(s) = ToSet(s)
<1>1. \A S : Api!IsFiniteSet(S) <=> IsFiniteSet(S)
    BY DEF Api!IsFiniteSet, IsFiniteSet
<1>2. ASSUME NEW S PROVE Api!Cardinality(S) = Cardinality(S)
    BY Zenon DEF Api!Cardinality, Cardinality
<1>3. \A S : Api!SetToSeqs(S) = SetToSeqs(S)
    BY <1>2 DEF Api!SetToSeqs, SetToSeqs
<1>4. \A s : Api!ToSet(s) = ToSet(s)
    BY DEF Api!ToSet, ToSet
<1>5. QED BY <1>1, <1>2, <1>3, <1>4

\* In an arrangement of S by the numbers of F, an element whose number is its
\* own has as many before it as have smaller numbers.
LEMMA PlaceIsRank ==
    ASSUME NEW S, IsFiniteSet(S), NEW F \in [S -> Int], NEW o \in SetToSeqs(S),
           \A i, j \in 1 .. Len(o) : i < j => F[o[i]] <= F[o[j]],
           NEW r \in S, \A s \in S \ {r} : F[s] # F[r]
    PROVE  LET k == Cardinality({s \in S : F[s] < F[r]})
           IN  k \in Nat /\ k + 1 \in DOMAIN o /\ o[k + 1] = r
<1> DEFINE B == {s \in S : F[s] < F[r]}
<1>1. /\ Len(o) \in Nat /\ DOMAIN o = 1 .. Len(o)
      /\ \A j, l \in DOMAIN o : o[j] = o[l] => j = l
      /\ \A i \in DOMAIN o : o[i] \in S
      /\ \A s \in S : \E i \in DOMAIN o : o[i] = s
    BY PermutationFacts DEF ToSet
<1>2. PICK p \in DOMAIN o : o[p] = r
    BY <1>1
<1>3. p \in Nat /\ p >= 1 /\ p <= Len(o)
    BY <1>1, <1>2
<1>4. \A j \in DOMAIN o : F[o[j]] < F[r] <=> j < p
  <2> TAKE j \in DOMAIN o
  <2>1. F[o[j]] \in Int /\ F[r] \in Int /\ j \in Nat
      BY <1>1
  <2>2. j < p => F[o[j]] <= F[r] /\ o[j] # r
      BY <1>1, <1>2, <1>3, <2>1
  <2>3. j > p => F[r] <= F[o[j]]
      BY <1>1, <1>2, <1>3, <2>1
  <2>4. j < p => F[o[j]] # F[r]
      BY <1>1, <2>2
  <2>5. j = p => o[j] = r
      BY <1>2
  <2>6. QED BY <1>3, <2>1, <2>2, <2>3, <2>4, <2>5
<1> DEFINE g == [j \in 1 .. p - 1 |-> o[j]]
<1>5. g \in Bijection(1 .. p - 1, B)
  <2>1. \A j \in 1 .. p - 1 : j \in DOMAIN o /\ g[j] = o[j] /\ o[j] \in B
      BY <1>1, <1>3, <1>4
  <2>2. \A j, l \in 1 .. p - 1 : g[j] = g[l] => j = l
      BY <1>1, <2>1
  <2>3. \A s \in B : \E j \in 1 .. p - 1 : g[j] = s
    <3>1. TAKE s \in B
    <3>2. PICK j \in DOMAIN o : o[j] = s
        BY <1>1
    <3>3. j < p /\ j >= 1 /\ j \in Nat
        BY <1>1, <1>4, <3>2
    <3>4. j \in 1 .. p - 1
        BY <1>3, <3>3
    <3>5. QED BY <3>2, <3>4
  <2>4. g \in Injection(1 .. p - 1, B)
      BY <2>1, <2>2 DEF Injection, IsInjective
  <2>5. g \in Surjection(1 .. p - 1, B)
      BY <2>1, <2>3 DEF Surjection
  <2>6. QED BY <2>4, <2>5 DEF Bijection
<1>6. IsFiniteSet(1 .. p - 1) /\ Cardinality(1 .. p - 1) = p - 1
  <2>1. /\ IsFiniteSet(1 .. p - 1)
        /\ Cardinality(1 .. p - 1) = IF 1 > p - 1 THEN 0 ELSE p - 1 - 1 + 1
      <3>1. p - 1 \in Int /\ 1 \in Int
          BY <1>3
      <3>2. QED BY ONLY <3>1, FS_Interval, Zenon
  <2>2. (IF 1 > p - 1 THEN 0 ELSE p - 1 - 1 + 1) = p - 1
      BY <1>3
  <2>3. QED BY <2>1, <2>2
<1>7. Cardinality(B) = p - 1
    BY <1>5, <1>6, FS_Bijection DEF ExistsBijection
<1>8. QED BY <1>2, <1>3, <1>7

\* The limit of a page is a positive number, whatever was asked for.
LEMMA LimitFacts == \A q : Api!LimitOf(q) \in Nat \ {0}
<1> SUFFICES ASSUME NEW q PROVE Api!LimitOf(q) \in Nat \ {0} OBVIOUS
<1>1. DefaultLimit \in Nat \ {0} /\ MaxLimit \in Nat
    BY ApiConfigured DEF Api!ConfigAssumption
<1>2. Api!Parsed(q.limit) \in 1 .. MaxLimit => Api!Parsed(q.limit) = q.limit
    BY <1>1 DEF Api!Parsed
<1>3. QED BY <1>1, <1>2 DEF Api!LimitOf

LEMMA LesserFacts ==
    ASSUME NEW a \in Int, NEW b \in Int
    PROVE  Api!Min({a, b}) = IF a <= b THEN a ELSE b
<1>1. \E x \in {a, b} : \A y \in {a, b} : x <= y
    OBVIOUS
<1>2. Api!Min({a, b}) \in {a, b} /\ \A y \in {a, b} : Api!Min({a, b}) <= y
    BY <1>1 DEF Api!Min
<1>3. QED BY <1>2

\* What a page has of an arrangement.
LEMMA PageFacts ==
    ASSUME NEW S, NEW o \in Seq(S), NEW offset \in Nat, NEW q
    PROVE  LET page == Api!Page(q, offset, o)
               limit == Api!LimitOf(q)
           IN  /\ Len(page) \in Nat /\ Len(page) <= limit
               /\ \A n \in 0 .. Len(page) : ToSet(SubSeq(page, 1, n)) \subseteq ToSet(o)
               /\ \A k \in Nat : k >= offset /\ k + 1 \in DOMAIN o =>
                     IF k < offset + limit THEN o[k + 1] \in ToSet(SubSeq(page, 1, Len(page)))
                     ELSE Len(page) = limit
<1> DEFINE limit == Api!LimitOf(q)
           page == Api!Page(q, offset, o)
           last == IF offset + limit <= Len(o) THEN offset + limit ELSE Len(o)
<1>1. limit \in Nat /\ Len(o) \in Nat /\ DOMAIN o = 1 .. Len(o)
    BY LimitFacts, LenProperties
<1>2. page = SubSeq(o, offset + 1, last) /\ last \in Nat
  <2>1. offset + limit \in Int /\ Len(o) \in Int
      BY <1>1
  <2>2. Api!Min({offset + limit, Len(o)}) = last
      BY ONLY <2>1, LesserFacts, Zenon
  <2>3. page = SubSeq(o, offset + 1, last)
      BY <2>2, Zenon DEF Api!Page
  <2>4. last \in Nat
      BY <1>1
  <2>5. QED BY <2>3, <2>4
<1>3. \A i \in offset + 1 .. last : i \in DOMAIN o /\ o[i] \in ToSet(o)
    BY <1>1 DEF ToSet
<1>4. /\ page \in Seq(ToSet(o))
      /\ Len(page) = IF offset + 1 <= last THEN last - offset ELSE 0
      /\ \A i \in 1 .. last - offset : page[i] = o[offset + i]
  <2>1. /\ SubSeq(o, offset + 1, last) \in Seq(ToSet(o))
        /\ Len(SubSeq(o, offset + 1, last)) = IF offset + 1 <= last THEN last - (offset + 1) + 1 ELSE 0
        /\ \A i \in 1 .. last - (offset + 1) + 1 : SubSeq(o, offset + 1, last)[i] = o[offset + 1 + i - 1]
      BY <1>2, <1>3, SubSeqProperties
  <2> HIDE DEF last, page
  <2>2. \A i \in Int : offset + 1 + i - 1 = offset + i
      OBVIOUS
  <2>3. last - (offset + 1) + 1 = last - offset
      BY <1>2
  <2>4. QED BY <1>2, <2>1, <2>2, <2>3
<1> HIDE DEF limit, page
<1>5. Len(page) \in Nat /\ Len(page) <= limit
    BY <1>1, <1>4
<1>6. ASSUME NEW n \in 0 .. Len(page) PROVE ToSet(SubSeq(page, 1, n)) \subseteq ToSet(o)
  <2>1. \A i \in 1 .. n : page[i] \in ToSet(o)
      BY <1>4, <1>5, LenProperties
  <2>2. SubSeq(page, 1, n) \in Seq(ToSet(o))
      BY <2>1, SubSeqProperties
  <2>3. QED BY <2>2, ElementFacts
<1>7. SubSeq(page, 1, Len(page)) = page
    BY <1>4, SubSeqFull
<1>8. ASSUME NEW k \in Nat, k >= offset, k + 1 \in DOMAIN o
      PROVE  IF k < offset + limit THEN o[k + 1] \in ToSet(page) ELSE Len(page) = limit
  <2>1. k + 1 <= Len(o)
      BY <1>1, <1>8
  <2>2. CASE k < offset + limit
    <3>1. k + 1 <= last /\ k + 1 - offset \in 1 .. last - offset
        BY <1>1, <1>8, <2>1, <2>2
    <3>2. page[k + 1 - offset] = o[k + 1]
      <4>1. offset + (k + 1 - offset) = k + 1
          OBVIOUS
      <4>2. QED BY <1>4, <3>1, <4>1
    <3>3. k + 1 - offset \in DOMAIN page
      <4>1. DOMAIN page = 1 .. Len(page)
          BY <1>4, LenProperties
      <4>2. QED BY <1>1, <1>2, <1>4, <3>1, <4>1
    <3>4. QED BY <2>2, <3>2, <3>3 DEF ToSet
  <2>3. CASE ~(k < offset + limit)
    <3>1. last = offset + limit
        BY <1>1, <1>8, <2>1, <2>3
    <3>2. limit \in Nat \ {0}
        BY LimitFacts DEF limit
    <3>3. last - offset = limit /\ offset + 1 <= last
        BY <3>1, <3>2
    <3> HIDE DEF last
    <3>4. Len(page) = limit
        BY <1>4, <3>3
    <3>5. QED BY <2>3, <3>4
  <2>4. QED BY <2>2, <2>3
<1>9. QED BY <1>5, <1>6, <1>7, <1>8 DEF page, limit
-----------------------------------------------------------------------------
Running == session \notin {Api!NoSession, Api!Denied, Api!Failed}

SessionTyped(s) ==
    /\ s = [at |-> s.at, query |-> s.query, offset |-> s.offset, rows |-> s.rows,
            seen |-> s.seen, before |-> s.before, intact |-> s.intact, whole |-> s.whole]
    /\ s.at \in {"count", "data", "page", "done"}
    /\ s.offset \in Nat /\ s.rows \in Nat
    /\ s.intact \in BOOLEAN /\ s.whole \in BOOLEAN

TableTyped ==
    /\ IsFiniteSet(table) /\ clock \in Int
    /\ \A r \in table : r.timestamp \in Int /\ r.kind \in Kind

Matching == Api!Where(session.query)

Rank(r) == Cardinality({o \in Matching :
               Api!SortKey(session.query, o) < Api!SortKey(session.query, r)})

\* The row is on a page still to come.
Ahead(r) ==
    \/ session.at \in {"count", "data"} /\ Rank(r) >= session.offset
    \/ /\ session.at = "page" /\ session.rows = Api!LimitOf(session.query)
       /\ Rank(r) >= session.offset + session.rows

Straight == /\ session.intact /\ session.whole
            /\ Api!Asked(session.query) = Api!LimitOf(session.query)

SeenOwn == \A r \in session.seen : Api!AskedFor(session.query, r)

StillThere == session.intact => session.before \subseteq Matching

NoneSkipped ==
    Straight => \A r \in session.before : r \in session.seen \/ Api!Tied(r) \/ Ahead(r)

ApiInv ==
    /\ TableTyped
    /\ Running => SessionTyped(session) /\ SeenOwn /\ StillThere /\ NoneSkipped

LEMMA SortKeyIsNumber ==
    ASSUME NEW q, NEW r, r.timestamp \in Int, r.kind \in Kind
    PROVE  Api!SortKey(q, r) \in Int
<1>1. r.kind.bytes \in Int
    BY ApiConfigured DEF Api!ConfigAssumption
<1>2. QED BY <1>1 DEF Api!SortKey

LEMMA MatchingTyped ==
    ASSUME TableTyped, NEW q
    PROVE  /\ Api!Where(q) \subseteq table /\ IsFiniteSet(Api!Where(q))
           /\ \A r \in table : Api!SortKey(q, r) \in Int
<1>1. Api!Where(q) \subseteq table
    BY DEF Api!Where
<1>2. IsFiniteSet(Api!Where(q))
    BY <1>1, FS_Subset DEF TableTyped
<1>3. \A r \in table : Api!SortKey(q, r) \in Int
    BY SortKeyIsNumber DEF TableTyped
<1>4. QED BY <1>1, <1>2, <1>3

\* More rows that match leave a row where it was or further back.
LEMMA RankGrows ==
    ASSUME NEW A, NEW B, A \subseteq B, IsFiniteSet(B)
    PROVE  /\ Cardinality(A) \in Nat /\ Cardinality(B) \in Nat
           /\ Cardinality(B) >= Cardinality(A)
<1>1. IsFiniteSet(A) /\ Cardinality(A) <= Cardinality(B)
    BY FS_Subset
<1>2. Cardinality(A) \in Nat /\ Cardinality(B) \in Nat
    BY <1>1, FS_CardinalityType
<1>3. QED BY <1>1, <1>2

LEMMA TableStep ==
    ASSUME ApiInv, TableTyped', session' = session,
           Running /\ session.intact => Matching \subseteq Matching'
    PROVE  ApiInv'
<1>1. Running' <=> Running
    BY DEF Running
<1> SUFFICES ASSUME Running PROVE (SessionTyped(session) /\ SeenOwn /\ StillThere /\ NoneSkipped)'
    BY <1>1 DEF ApiInv
<1>2. SessionTyped(session) /\ SeenOwn /\ StillThere /\ NoneSkipped
    BY DEF ApiInv
<1>3. SessionTyped(session)' /\ SeenOwn'
    BY <1>2 DEF SessionTyped, SeenOwn, Api!AskedFor
<1>4. StillThere'
    BY <1>2 DEF StillThere
<1>5. ASSUME Straight' PROVE \A r \in session'.before : r \in session'.seen \/ Api!Tied(r)' \/ Ahead(r)'
  <2>1. Straight
      BY <1>5 DEF Straight, Api!Asked, Api!LimitOf, Api!Parsed
  <2>2. Matching \subseteq Matching' /\ Matching' \subseteq table' /\ IsFiniteSet(Matching')
    <3>1. Matching' \subseteq table'
        BY DEF Matching, Api!Where
    <3>2. IsFiniteSet(Matching')
        BY <3>1, FS_Subset DEF TableTyped
    <3>3. QED BY <2>1, <3>1, <3>2 DEF Straight
  <2> TAKE r \in session'.before
  <2>3. r \in session.seen \/ Api!Tied(r) \/ Ahead(r)
      BY <1>2, <2>1 DEF NoneSkipped
  <2>4. ASSUME Api!Tied(r) PROVE Api!Tied(r)'
      BY <2>2, <2>4 DEF Api!Tied, Matching, Api!SortKey
  <2>5. Rank(r) \in Nat /\ Rank(r)' \in Nat /\ Rank(r)' >= Rank(r)
    <3> DEFINE A == {o \in Matching :
                        Api!SortKey(session.query, o) < Api!SortKey(session.query, r)}
               B == {o \in Matching' :
                        Api!SortKey(session.query, o) < Api!SortKey(session.query, r)}
    <3>1. A \subseteq B /\ IsFiniteSet(B)
        BY <2>2, FS_Subset
    <3>2. Rank(r) = Cardinality(A) /\ Rank(r)' = Cardinality(B)
        BY DEF Rank, Api!SortKey
    <3> HIDE DEF A, B
    <3>3. QED BY <3>1, <3>2, RankGrows
  <2>6. ASSUME Ahead(r) PROVE Ahead(r)'
      BY <1>2, <2>5, <2>6 DEF Ahead, SessionTyped, Api!LimitOf, Api!Parsed
  <2>7. QED BY <2>3, <2>4, <2>6
<1>6. NoneSkipped'
    BY <1>5 DEF NoneSkipped
<1>7. QED BY <1>3, <1>4, <1>6
LEMMA SessionKinds ==
    /\ Api!NoSession.at = "none" /\ Api!Denied.at = "denied" /\ Api!Failed.at = "failed"
    /\ \A s : SessionTyped(s) => s \notin {Api!NoSession, Api!Denied, Api!Failed}
<1>1. Api!NoSession.at = "none" /\ Api!Denied.at = "denied" /\ Api!Failed.at = "failed"
    BY DEF Api!NoSession, Api!Denied, Api!Failed
<1>2. \A s : SessionTyped(s) => s.at \in {"count", "data", "page", "done"}
    BY DEF SessionTyped
<1>3. ASSUME NEW s, SessionTyped(s) PROVE s \notin {Api!NoSession, Api!Denied, Api!Failed}
  <2>1. s.at \in {"count", "data", "page", "done"}
      BY <1>2, <1>3
  <2>2. s # Api!NoSession /\ s # Api!Denied /\ s # Api!Failed
      BY <1>1, <2>1
  <2>3. QED BY <2>2
<1>4. QED BY <1>1, <1>3

LEMMA ApiInit == Api!Init => ApiInv
<1>1. ASSUME Api!Init PROVE TableTyped
    BY <1>1, FS_EmptySet DEF Api!Init, TableTyped
<1>2. ASSUME Api!Init PROVE ~Running
    BY <1>2 DEF Api!Init, Running
<1>3. QED BY <1>1, <1>2 DEF ApiInv

LEMMA WriteFlowsKeeps == ASSUME ApiInv, Api!WriteFlows PROVE ApiInv'
<1>0. PICK n \in 1 .. MaxRows - written : \E ks \in [1 .. n -> Kind] :
          table' = table \cup {[id |-> written + i, timestamp |-> clock, kind |-> ks[i]] :
                                   i \in DOMAIN ks}
    BY DEF Api!WriteFlows
<1>1. PICK ks \in [1 .. n -> Kind] :
          table' = table \cup {[id |-> written + i, timestamp |-> clock, kind |-> ks[i]] :
                                   i \in DOMAIN ks}
    BY <1>0
<1>2. session' = session /\ clock' = clock
    BY DEF Api!WriteFlows
<1> DEFINE new == {[id |-> written + i, timestamp |-> clock, kind |-> ks[i]] : i \in 1 .. n}
<1>3. table' = table \cup new
    BY <1>1
<1>4. IsFiniteSet(new)
  <2>1. IsFiniteSet(1 .. n)
      BY FS_Interval
  <2> DEFINE f == [i \in 1 .. n |-> [id |-> written + i, timestamp |-> clock, kind |-> ks[i]]]
  <2>2. new = {f[i] : i \in 1 .. n}
      OBVIOUS
  <2> HIDE DEF f, new
  <2>3. f \in Surjection(1 .. n, new)
      BY <2>2 DEF f, Surjection
  <2>4. QED BY <2>1, <2>3, FS_Surjection DEF ExistsSurjection
<1>5. IsFiniteSet(table')
    BY <1>3, <1>4, FS_Union DEF ApiInv, TableTyped
<1>6. \A r \in new : r.timestamp \in Int /\ r.kind \in Kind
    BY DEF ApiInv, TableTyped
<1>7. TableTyped'
    BY <1>2, <1>3, <1>5, <1>6 DEF ApiInv, TableTyped
<1> HIDE DEF new
<1>8. Matching \subseteq Matching'
    BY <1>2, <1>3 DEF Matching, Api!Where, Api!Parsed
<1>9. QED BY <1>2, <1>7, <1>8, TableStep

LEMMA TickKeeps == ASSUME ApiInv, Api!Tick \/ Api!Stop PROVE ApiInv'
<1>1. table' = table /\ session' = session /\ (clock' = clock \/ clock' = clock + 1)
    BY DEF Api!Tick, Api!Stop
<1>2. TableTyped'
    BY <1>1 DEF ApiInv, TableTyped
<1>3. Matching' = Matching
    BY <1>1 DEF Matching, Api!Where, Api!Parsed
<1>4. QED BY <1>1, <1>2, <1>3, TableStep

LEMMA ExpireKeeps == ASSUME ApiInv, Api!Expire PROVE ApiInv'
<1>1. PICK r \in table :
          /\ table' = table \ {r}
          /\ session' = IF session # Api!NoSession /\ r \in Api!Where(session.query)
                        THEN [session EXCEPT !.intact = FALSE] ELSE session
    BY DEF Api!Expire
<1>2. clock' = clock /\ Api!Going
    BY DEF Api!Expire
<1>3. IsFiniteSet(table')
    BY <1>1, FS_Subset DEF ApiInv, TableTyped
<1>4. TableTyped'
    BY <1>1, <1>2, <1>3 DEF ApiInv, TableTyped
<1>5. session.at \notin {"denied", "failed", "done"}
    BY <1>2 DEF Api!Going
<1>6. CASE session = Api!NoSession \/ r \notin Api!Where(session.query)
  <2>1. session' = session
      BY <1>1, <1>6
  <2>2. Running => Matching \subseteq Matching'
      BY <1>1, <1>6, <2>1 DEF Running, Matching, Api!Where, Api!Parsed
  <2>3. QED BY <1>4, <2>1, <2>2, TableStep
<1>7. CASE session # Api!NoSession /\ r \in Api!Where(session.query)
  <2>1. Running
      BY <1>5, <1>7, SessionKinds DEF Running
  <2>2. SessionTyped(session) /\ SeenOwn
      BY <2>1 DEF ApiInv
  <2>3. session' = [session EXCEPT !.intact = FALSE]
      BY <1>1, <1>7
  <2>4. session' = [at |-> session.at, query |-> session.query, offset |-> session.offset,
                    rows |-> session.rows, seen |-> session.seen, before |-> session.before,
                    intact |-> FALSE, whole |-> session.whole]
      BY <2>2, <2>3 DEF SessionTyped
  <2>5. SessionTyped(session')
      BY <2>2, <2>4 DEF SessionTyped
  <2>6. SessionTyped(session)' /\ SeenOwn'
      BY <2>2, <2>4, <2>5 DEF SessionTyped, SeenOwn, Api!AskedFor
  <2>7. StillThere' /\ NoneSkipped'
      BY <2>4 DEF StillThere, NoneSkipped, Straight
  <2>8. QED BY <1>4, <2>6, <2>7 DEF ApiInv
<1>8. QED BY <1>6, <1>7

LEMMA OpenKeeps == ASSUME ApiInv, Api!Open PROVE ApiInv'
<1>1. table' = table /\ clock' = clock
    BY DEF Api!Open
<1>2. TableTyped'
    BY <1>1 DEF ApiInv, TableTyped
<1>3. PICK q :
          session' \in {Api!Denied,
                        [at |-> "count", query |-> q, offset |-> 0, rows |-> 0,
                         seen |-> {}, before |-> Api!Where(q),
                         intact |-> TRUE, whole |-> TRUE]}
    BY DEF Api!Open
<1>4. CASE session' = Api!Denied
    BY <1>2, <1>4 DEF ApiInv, Running, Api!Denied
<1>5. CASE session' = [at |-> "count", query |-> q, offset |-> 0, rows |-> 0,
                       seen |-> {}, before |-> Api!Where(q), intact |-> TRUE, whole |-> TRUE]
  <2>1. SessionTyped(session)' /\ SeenOwn'
      BY <1>5 DEF SessionTyped, SeenOwn, Api!AskedFor
  <2>2. Matching' = Api!Where(q)
      BY <1>1, <1>5 DEF Matching, Api!Where, Api!Parsed
  <2>3. StillThere'
      BY <1>5, <2>2 DEF StillThere
  <2>4. \A r \in session'.before : Ahead(r)'
    <3>1. IsFiniteSet(Matching')
        BY <2>2, MatchingTyped DEF ApiInv
    <3> TAKE r \in session'.before
    <3> DEFINE A == {o \in Matching' :
                        Api!SortKey(session'.query, o) < Api!SortKey(session'.query, r)}
    <3>2. IsFiniteSet(A)
        BY <3>1, FS_Subset
    <3>3. Cardinality(A) \in Nat
        BY <3>2, FS_CardinalityType
    <3>4. Rank(r)' = Cardinality(A)
        BY DEF Rank, Api!SortKey
    <3> HIDE DEF A
    <3>5. QED BY <1>5, <3>3, <3>4 DEF Ahead
  <2>5. NoneSkipped'
      BY <2>4 DEF NoneSkipped
  <2>6. QED BY <1>2, <2>1, <2>3, <2>5 DEF ApiInv
<1>6. QED BY <1>3, <1>4, <1>5
\* A step of the session from one place to the next.
LEMMA SessionStep ==
    ASSUME ApiInv, table' = table, clock' = clock, SessionTyped(session),
           SessionTyped(session'), SeenOwn',
           session'.query = session.query, session'.before = session.before,
           session'.intact = session.intact, session'.whole => session.whole,
           session.seen \subseteq session'.seen,
           Straight' /\ Straight =>
               \A r \in session.before :
                   Ahead(r) /\ r \in Matching /\ ~Api!Tied(r) => r \in session'.seen \/ Ahead(r)'
    PROVE  ApiInv'
<1>1. TableTyped'
    BY DEF ApiInv, TableTyped
<1>2. Running /\ SeenOwn /\ StillThere /\ NoneSkipped
    BY SessionKinds DEF ApiInv, Running
<1>3. Matching' = Matching
    BY DEF Matching, Api!Where, Api!Parsed
<1>4. StillThere'
    BY <1>2, <1>3 DEF StillThere
<1>5. ASSUME Straight' PROVE \A r \in session'.before : r \in session'.seen \/ Api!Tied(r)' \/ Ahead(r)'
  <2>1. Straight
      BY <1>5 DEF Straight, SessionTyped, Api!Asked, Api!LimitOf, Api!Parsed
  <2> TAKE r \in session'.before
  <2>2. r \in session.seen \/ Api!Tied(r) \/ Ahead(r)
      BY <1>2, <2>1 DEF NoneSkipped
  <2>3. r \in Matching
      BY <1>2, <2>1 DEF StillThere, Straight
  <2>4. Api!Tied(r) => Api!Tied(r)'
      BY <1>3 DEF Api!Tied, Matching, Api!SortKey
  <2>5. QED BY <1>5, <2>1, <2>2, <2>3, <2>4
<1>6. NoneSkipped'
    BY <1>5 DEF NoneSkipped
<1>7. SessionTyped(session)'
    BY DEF SessionTyped
<1>8. QED BY <1>1, <1>4, <1>6, <1>7 DEF ApiInv

LEMMA InSession ==
    ASSUME ApiInv, session.at \in {"count", "data", "page"}
    PROVE  SessionTyped(session) /\ SeenOwn /\ StillThere /\ NoneSkipped
<1>1. Running
    BY SessionKinds DEF Running
<1>2. QED BY <1>1 DEF ApiInv

\* Where the rank of a row depends on the query and the table only.
LEMMA RankStays ==
    ASSUME table' = table, session'.query = session.query
    PROVE  \A r : Rank(r)' = Rank(r)
<1>1. Matching' = Matching
    BY DEF Matching, Api!Where, Api!Parsed
<1>2. QED BY <1>1 DEF Rank, Api!SortKey

LEMMA RankTyped == ASSUME ApiInv PROVE \A r : Rank(r) \in Nat
<1> TAKE r
<1> DEFINE A == {o \in Matching :
                    Api!SortKey(session.query, o) < Api!SortKey(session.query, r)}
<1>1. IsFiniteSet(Matching)
    BY MatchingTyped DEF ApiInv, Matching
<1>2. IsFiniteSet(A)
    BY <1>1, FS_Subset
<1>3. Rank(r) = Cardinality(A)
    BY DEF Rank
<1> HIDE DEF A
<1>4. QED BY <1>2, <1>3, FS_CardinalityType

LEMMA CountQueryKeeps == ASSUME ApiInv, Api!CountQuery PROVE ApiInv'
<1>1. /\ session.at = "count" /\ session' = [session EXCEPT !.at = "data"]
      /\ table' = table /\ clock' = clock
    BY DEF Api!CountQuery
<1>2. SessionTyped(session) /\ SeenOwn
    BY <1>1, InSession
<1>3. session' = [at |-> "data", query |-> session.query, offset |-> session.offset,
                  rows |-> session.rows, seen |-> session.seen, before |-> session.before,
                  intact |-> session.intact, whole |-> session.whole]
    BY <1>1, <1>2 DEF SessionTyped
<1>4. SessionTyped(session') /\ SeenOwn'
    BY <1>2, <1>3 DEF SessionTyped, SeenOwn, Api!AskedFor
<1>5. \A r : Rank(r)' = Rank(r)
    BY <1>1, <1>3, RankStays
<1>6. \A r : Ahead(r) => Ahead(r)'
    BY <1>1, <1>3, <1>5 DEF Ahead
<1>7. QED BY <1>1, <1>2, <1>3, <1>4, <1>6, SessionStep

LEMMA NextPageKeeps == ASSUME ApiInv, Api!NextPage PROVE ApiInv'
<1>1. session.at = "page" /\ table' = table /\ clock' = clock
    BY DEF Api!NextPage
<1>2. SessionTyped(session) /\ SeenOwn
    BY <1>1, InSession
<1> DEFINE less == session.rows < Api!Asked(session.query)
           sum == session.offset + session.rows
<1>3. session' = IF less THEN [session EXCEPT !.at = "done"]
                 ELSE [session EXCEPT !.at = "count", !.offset = sum]
    BY DEF Api!NextPage
<1>4. sum \in Nat
    BY <1>2 DEF SessionTyped
<1> HIDE DEF less, sum
<1>5. session' = [at |-> IF less THEN "done" ELSE "count", query |-> session.query,
                  offset |-> IF less THEN session.offset ELSE sum,
                  rows |-> session.rows, seen |-> session.seen, before |-> session.before,
                  intact |-> session.intact, whole |-> session.whole]
    BY <1>2, <1>3 DEF SessionTyped
<1>6. SessionTyped(session') /\ SeenOwn'
    BY <1>2, <1>4, <1>5 DEF SessionTyped, SeenOwn, Api!AskedFor
<1>7. \A r : Rank(r)' = Rank(r)
    BY <1>1, <1>5, RankStays
<1>8. ASSUME Straight PROVE \A r : Ahead(r) => Ahead(r)'
  <2> TAKE r
  <2> SUFFICES ASSUME Ahead(r) PROVE Ahead(r)'
      OBVIOUS
  <2>1. session.rows = Api!LimitOf(session.query) /\ Rank(r) >= sum
      BY <1>1 DEF Ahead, sum
  <2>2. ~less
    <3>1. Api!LimitOf(session.query) \in Nat
        BY LimitFacts
    <3>2. QED BY <1>8, <2>1, <3>1 DEF Straight, less
  <2>3. session'.at = "count" /\ session'.offset = sum
      BY <1>5, <2>2
  <2>4. QED BY <1>7, <2>1, <2>3 DEF Ahead
<1>9. QED BY <1>1, <1>2, <1>5, <1>6, <1>8, SessionStep

LEMMA QueryFailsKeeps == ASSUME ApiInv, Api!QueryFails PROVE ApiInv'
<1>1. session' = Api!Failed /\ table' = table /\ clock' = clock
    BY DEF Api!QueryFails
<1>2. TableTyped'
    BY <1>1 DEF ApiInv, TableTyped
<1>3. ~Running'
    BY <1>1 DEF Running, Api!Failed
<1>4. QED BY <1>2, <1>3 DEF ApiInv
\* A page shows the rows that are on it, and a row further back is further back still.
LEMMA PageShows ==
    ASSUME ApiInv, session.at = "data", NEW order \in Api!Orderings(session.query, Matching)
    PROVE  LET page == Api!Page(session.query, session.offset, order)
           IN  /\ Len(page) \in Nat
               /\ \A n \in 0 .. Len(page) : ToSet(SubSeq(page, 1, n)) \subseteq Matching
               /\ \A r \in Matching :
                     Rank(r) >= session.offset /\ ~Api!Tied(r) =>
                        \/ r \in ToSet(SubSeq(page, 1, Len(page)))
                        \/ /\ Len(page) = Api!LimitOf(session.query)
                           /\ Rank(r) >= session.offset + Len(page)
<1> DEFINE q == session.query
           page == Api!Page(session.query, session.offset, order)
           limit == Api!LimitOf(session.query)
<1>1. SessionTyped(session)
    BY InSession
<1>2. session.offset \in Nat
    BY <1>1 DEF SessionTyped
<1>3. IsFiniteSet(Matching) /\ \A r \in Matching : r \in table /\ Api!SortKey(q, r) \in Int
    BY MatchingTyped DEF ApiInv, Matching
<1>4. /\ order \in SetToSeqs(Matching)
      /\ \A i, j \in 1 .. Len(order) :
            i < j => Api!SortKey(q, order[i]) <= Api!SortKey(q, order[j])
    BY ApiOperators DEF Api!Orderings, Api!IsSorted
<1>5. /\ Len(order) \in Nat /\ DOMAIN order = 1 .. Len(order)
      /\ order \in Seq(Matching) /\ ToSet(order) \subseteq Matching
    BY <1>3, <1>4, PermutationFacts
<1>6. /\ Len(page) \in Nat /\ Len(page) <= limit
      /\ \A n \in 0 .. Len(page) : ToSet(SubSeq(page, 1, n)) \subseteq ToSet(order)
      /\ \A k \in Nat : k >= session.offset /\ k + 1 \in DOMAIN order =>
            IF k < session.offset + limit
            THEN order[k + 1] \in ToSet(SubSeq(page, 1, Len(page)))
            ELSE Len(page) = limit
    BY <1>2, <1>5, PageFacts
<1>7. ASSUME NEW r \in Matching, Rank(r) >= session.offset, ~Api!Tied(r)
      PROVE  \/ r \in ToSet(SubSeq(page, 1, Len(page)))
             \/ Len(page) = limit /\ Rank(r) >= session.offset + Len(page)
  <2> DEFINE F == [s \in Matching |-> Api!SortKey(q, s)]
  <2>1. F \in [Matching -> Int]
      BY <1>3
  <2>2. \A s \in Matching \ {r} : F[s] # F[r]
      BY <1>3, <1>7 DEF Api!Tied, Matching
  <2>3. \A i, j \in 1 .. Len(order) : i < j => F[order[i]] <= F[order[j]]
      BY <1>4, <1>5 DEF ToSet
  <2>4. Rank(r) = Cardinality({s \in Matching : F[s] < F[r]})
      BY DEF Rank
  <2> HIDE DEF F
  <2>5. Rank(r) \in Nat /\ Rank(r) + 1 \in DOMAIN order /\ order[Rank(r) + 1] = r
      BY <1>3, <1>4, <2>1, <2>2, <2>3, <2>4, PlaceIsRank
  <2>6. limit \in Nat
      BY LimitFacts
  <2> HIDE DEF page, limit
  <2>7. QED BY <1>2, <1>6, <1>7, <2>5, <2>6
<1>8. QED BY <1>5, <1>6, <1>7

LEMMA DataQueryKeeps == ASSUME ApiInv, Api!DataQuery PROVE ApiInv'
<1>1. session.at = "data" /\ table' = table /\ clock' = clock
    BY DEF Api!DataQuery
<1>2. SessionTyped(session) /\ SeenOwn
    BY <1>1, InSession
<1>3. PICK order \in Api!Orderings(session.query, Matching) :
          \E n \in 0 .. Len(Api!Page(session.query, session.offset, order)) :
             session' = [session EXCEPT
                 !.at = "page",
                 !.seen = session.seen \cup
                     Api!ToSet(SubSeq(Api!Page(session.query, session.offset, order), 1, n)),
                 !.rows = n,
                 !.whole = session.whole
                     /\ n = Len(Api!Page(session.query, session.offset, order))]
    BY DEF Api!DataQuery, Matching
<1> DEFINE page == Api!Page(session.query, session.offset, order)
           limit == Api!LimitOf(session.query)
<1>4. PICK n \in 0 .. Len(page) :
          session' = [session EXCEPT
              !.at = "page", !.seen = session.seen \cup Api!ToSet(SubSeq(page, 1, n)),
              !.rows = n, !.whole = session.whole /\ n = Len(page)]
    BY <1>3
<1> DEFINE shown == session.seen \cup ToSet(SubSeq(page, 1, n))
           all == session.whole /\ n = Len(page)
<1>5. /\ Len(page) \in Nat /\ ToSet(SubSeq(page, 1, n)) \subseteq Matching
      /\ \A r \in Matching :
            Rank(r) >= session.offset /\ ~Api!Tied(r) =>
               \/ r \in ToSet(SubSeq(page, 1, Len(page)))
               \/ Len(page) = limit /\ Rank(r) >= session.offset + Len(page)
    BY <1>1, PageShows
<1>6. session' = [session EXCEPT !.at = "page", !.seen = shown, !.rows = n, !.whole = all]
    BY <1>4, ApiOperators
<1>7. shown \subseteq session.seen \cup Matching /\ n \in Nat /\ all \in BOOLEAN
    BY <1>5
<1> HIDE DEF page, limit, shown, all
<1>8. session' = [at |-> "page", query |-> session.query, offset |-> session.offset,
                  rows |-> n, seen |-> shown, before |-> session.before,
                  intact |-> session.intact, whole |-> all]
    BY <1>2, <1>6 DEF SessionTyped
<1>9. SessionTyped(session')
    BY <1>2, <1>7, <1>8 DEF SessionTyped
<1>10. SeenOwn'
  <2>1. ASSUME NEW r \in Matching PROVE Api!AskedFor(session.query, r)
    <3> DEFINE q == session.query
    <3>1. /\ r.kind.tenant = q.token
          /\ q.node # "" => r.kind.node = q.node
          /\ Api!Parsed(q.startTime) # 0 => r.timestamp >= Api!Parsed(q.startTime)
          /\ Api!Parsed(q.endTime) # 0 => r.timestamp <= Api!Parsed(q.endTime)
          /\ Api!Parsed(q.protocol) # 0 => r.kind.protocol = Api!Parsed(q.protocol)
        BY DEF Matching, Api!Where
    <3>2. \A v : v # Unparsable => Api!Parsed(v) = v
      <4>1. ASSUME NEW v, v # Unparsable PROVE Api!Parsed(v) = v
          BY <4>1 DEF Api!Parsed
      <4>2. QED BY <4>1
    <3> HIDE DEF q
    <3>3. q.protocol \in {0, Unparsable, r.kind.protocol}
        BY <3>1, <3>2
    <3>4. q.startTime \in {0, Unparsable} \/ r.timestamp >= q.startTime
        BY <3>1, <3>2
    <3>5. q.endTime \in {0, Unparsable} \/ r.timestamp <= q.endTime
        BY <3>1, <3>2
    <3>6. Api!AskedFor(q, r)
        BY <3>1, <3>3, <3>4, <3>5 DEF Api!AskedFor
    <3>7. QED BY <3>6 DEF q
  <2>2. session'.query = session.query /\ session'.seen = shown
      BY <1>8
  <2>3. \A r \in shown : Api!AskedFor(session.query, r)
      BY <1>2, <1>7, <2>1 DEF SeenOwn
  <2>4. \A r \in session'.seen : Api!AskedFor(session'.query, r)
      BY <2>2, <2>3
  <2>5. QED BY <2>4 DEF SeenOwn, Api!AskedFor
<1>11. \A r : Rank(r)' = Rank(r)
    BY <1>1, <1>8, RankStays
<1>12. ASSUME Straight',
              NEW r, Ahead(r), r \in Matching, ~Api!Tied(r)
       PROVE  r \in session'.seen \/ Ahead(r)'
  <2>1. Rank(r) >= session.offset
      BY <1>1, <1>12 DEF Ahead
  <2>2. n = Len(page)
      BY <1>8, <1>12 DEF Straight, all
  <2>3. CASE r \in ToSet(SubSeq(page, 1, Len(page)))
      BY <1>8, <2>2, <2>3 DEF shown
  <2>4. CASE Len(page) = limit /\ Rank(r) >= session.offset + Len(page)
    <3>1. Api!LimitOf(session.query)' = limit
        BY <1>8 DEF limit, Api!LimitOf, Api!Parsed
    <3>2. session'.at = "page" /\ session'.rows = limit /\ session'.offset = session.offset
        BY <1>8, <2>2, <2>4
    <3>3. Rank(r)' >= session'.offset + session'.rows
        BY <1>11, <2>4, <3>2
    <3>4. QED BY <3>1, <3>2, <3>3 DEF Ahead
  <2>5. QED BY <1>5, <1>12, <2>1, <2>3, <2>4
<1>13. session.seen \subseteq session'.seen /\ (session'.whole => session.whole)
    BY <1>8 DEF shown, all
<1>14. QED BY <1>1, <1>2, <1>8, <1>9, <1>10, <1>12, <1>13, SessionStep

LEMMA ApiStepKeepsInv == ASSUME ApiInv, [Api!Next]_apiVars PROVE ApiInv'
<1>1. ASSUME UNCHANGED apiVars PROVE ApiInv'
  <2>1. table' = table /\ clock' = clock /\ session' = session
      BY <1>1 DEF apiVars
  <2>2. TableTyped'
      BY <2>1 DEF ApiInv, TableTyped
  <2>3. Matching' = Matching
      BY <2>1 DEF Matching, Api!Where, Api!Parsed
  <2>4. QED BY <2>1, <2>2, <2>3, TableStep
<1>2. QED BY <1>1, WriteFlowsKeeps, ExpireKeeps, TickKeeps, OpenKeeps, CountQueryKeeps,
             DataQueryKeeps, QueryFailsKeeps, NextPageKeeps DEF Api!Next

LEMMA CompleteFromInv == ApiInv => Api!PagingComplete
<1> SUFFICES ASSUME ApiInv, Running PROVE Api!PagingComplete
    BY DEF Api!PagingComplete, Running
<1>1. SessionTyped(session) /\ SeenOwn /\ NoneSkipped
    BY DEF ApiInv
<1>2. ASSUME session.at = "done", Straight, NEW r \in session.before
      PROVE  r \in session.seen \/ Api!Tied(r)
    BY <1>1, <1>2 DEF NoneSkipped, Ahead
<1>3. QED BY <1>1, <1>2 DEF Api!PagingComplete, SeenOwn, Straight

-----------------------------------------------------------------------------
(***************************************************************************)
(* The figures of a round: for any nodes, metrics and lengths of the list. *)
(***************************************************************************)

LEMMA TrainingOperators ==
    /\ \A S : Training!IsFiniteSet(S) <=> IsFiniteSet(S)
    /\ \A S : Training!Cardinality(S) = Cardinality(S)
    /\ \A S : Training!SetToSeqs(S) = SetToSeqs(S)
    /\ \A s : Training!ToSet(s) = ToSet(s)
<1>1. \A S : Training!IsFiniteSet(S) <=> IsFiniteSet(S)
    BY DEF Training!IsFiniteSet, IsFiniteSet
<1>2. ASSUME NEW S PROVE Training!Cardinality(S) = Cardinality(S)
    BY Zenon DEF Training!Cardinality, Cardinality
<1>3. \A S : Training!SetToSeqs(S) = SetToSeqs(S)
    BY <1>2 DEF Training!SetToSeqs, SetToSeqs
<1>4. \A s : Training!ToSet(s) = ToSet(s)
    BY DEF Training!ToSet, ToSet
<1>5. QED BY <1>1, <1>2, <1>3, <1>4

\* A finite set has an element of which the function is greatest.
LEMMA GreatestOf ==
    ASSUME NEW S, IsFiniteSet(S), S # {}, NEW F, \A s \in S : F[s] \in Nat
    PROVE  \E n \in S : \A m \in S : F[m] <= F[n]
<1> DEFINE Upto(n) == {m \in S : F[m] <= F[n]}
           k == Cardinality(S)
           gap == [n \in S |-> k - Cardinality(Upto(n))]
           D == {gap[n] : n \in S}
<1>1. \A n \in S : /\ IsFiniteSet(Upto(n)) /\ Cardinality(Upto(n)) \in Nat
                   /\ Cardinality(Upto(n)) <= k
    BY FS_Subset, FS_CardinalityType
<1>2. k \in Nat
    BY FS_CardinalityType
<1>3. D \in SUBSET Nat /\ D # {}
  <2> HIDE DEF Upto
  <2>1. \A n \in S : k - Cardinality(Upto(n)) \in Nat
      BY <1>1, <1>2
  <2>2. QED BY <2>1
<1>4. PICK d \in D : \A e \in D : d <= e
  <2> HIDE DEF D
  <2>1. QED BY <1>3, LeastNatural
<1>5. PICK n \in S : d = gap[n]
    BY <1>4
<1>6. ASSUME NEW m \in S, ~(F[m] <= F[n]) PROVE FALSE
  <2>1. Upto(n) \subseteq Upto(m)
      BY <1>6
  <2>2. m \in Upto(m) /\ m \notin Upto(n)
      BY <1>6
  <2>3. Cardinality(Upto(n)) < Cardinality(Upto(m))
    <3> HIDE DEF Upto
    <3>1. Cardinality(Upto(n)) <= Cardinality(Upto(m))
          /\ (Cardinality(Upto(n)) = Cardinality(Upto(m)) => Upto(n) = Upto(m))
        BY <1>1, <2>1, FS_Subset
    <3>2. QED BY <1>1, <2>2, <3>1
  <2>4. gap[m] \in D
      OBVIOUS
  <2>5. d <= gap[m]
      BY <1>4, <2>4
  <2> HIDE DEF Upto, D
  <2>6. QED BY <1>1, <1>2, <1>5, <2>3, <2>5
<1>7. QED BY <1>6

\* The value at a place: fewer are below than the place says, and no fewer not above.
LEMMA PlaceFacts ==
    ASSUME NEW S, IsFiniteSet(S), NEW F \in [S -> Nat], NEW i \in 1 .. Cardinality(S)
    PROVE  LET v == Training!Place(F, i)
           IN  /\ \E n \in S : v = F[n]
               /\ Cardinality({n \in S : F[n] < v}) < i
               /\ Cardinality({n \in S : F[n] <= v}) >= i
<1> DEFINE Upto(n) == {m \in S : F[m] <= F[n]}
           Below(n) == {m \in S : F[m] < F[n]}
           C == {c \in Nat : c >= i /\ \E n \in S : c = Cardinality(Upto(n))}
<1>1. \A n \in S : /\ IsFiniteSet(Upto(n)) /\ Cardinality(Upto(n)) \in Nat
                   /\ IsFiniteSet(Below(n)) /\ Cardinality(Below(n)) \in Nat
    BY FS_Subset, FS_CardinalityType
<1>2. i \in Nat /\ i >= 1 /\ Cardinality(S) \in Nat /\ i <= Cardinality(S)
    BY FS_CardinalityType
<1>3. S # {}
    BY <1>2, FS_EmptySet
<1>4. C # {}
  <2>1. PICK n \in S : \A m \in S : F[m] <= F[n]
      BY <1>3, GreatestOf
  <2>2. Upto(n) = S
      BY <2>1
  <2>3. Cardinality(Upto(n)) = Cardinality(S)
      BY <2>2, Zenon
  <2> HIDE DEF Upto
  <2>4. Cardinality(S) \in C
      BY <1>2, <2>3
  <2>5. QED BY <2>4
<1>5. PICK c \in C : \A d \in C : c <= d
  <2>1. C \in SUBSET Nat
      OBVIOUS
  <2> HIDE DEF C
  <2>2. QED BY <1>4, <2>1, LeastNatural
<1>6. PICK n \in S : c = Cardinality(Upto(n))
    BY <1>5
<1>7. Cardinality(Upto(n)) >= i
    BY <1>5, <1>6
<1>8. Cardinality(Below(n)) < i
  <2> SUFFICES ASSUME Cardinality(Below(n)) >= i PROVE FALSE
    <3> HIDE DEF Below, Upto
    <3>1. QED BY <1>1, <1>2
  <2>1. Below(n) # {}
    <3>1. ASSUME Below(n) = {} PROVE FALSE
      <4>1. Cardinality(Below(n)) = 0
          BY <3>1, FS_EmptySet
      <4>2. QED BY <1>2, <4>1
    <3>2. QED BY <3>1
  <2>2. PICK m \in Below(n) : \A o \in Below(n) : F[o] <= F[m]
    <3>1. \A o \in Below(n) : F[o] \in Nat
        OBVIOUS
    <3>2. IsFiniteSet(Below(n))
        BY <1>1
    <3> HIDE DEF Below
    <3>3. QED BY <2>1, <3>1, <3>2, GreatestOf
  <2>3. m \in S /\ Upto(m) = Below(n)
      BY <2>2
  <2>4. Cardinality(Upto(m)) < Cardinality(Upto(n))
    <3>1. Below(n) \subseteq Upto(n) /\ n \in Upto(n) /\ n \notin Below(n)
        OBVIOUS
    <3> HIDE DEF Below, Upto
    <3>2. Cardinality(Below(n)) <= Cardinality(Upto(n))
          /\ (Cardinality(Below(n)) = Cardinality(Upto(n)) => Upto(n) = Below(n))
        BY <1>1, <3>1, FS_Subset
    <3>3. QED BY <1>1, <2>3, <3>1, <3>2
  <2>5. Cardinality(Upto(m)) \in C
      BY <1>1, <2>3
  <2>6. c <= Cardinality(Upto(m))
      BY <1>5, <2>5
  <2> HIDE DEF Below, Upto, C
  <2>7. QED BY <1>1, <1>6, <2>3, <2>4, <2>6
<1> DEFINE P(v) == /\ Training!Cardinality({m \in DOMAIN F : F[m] < v}) < i
                   /\ Training!Cardinality({m \in DOMAIN F : F[m] <= v}) >= i
<1>9. F[n] \in Training!Range(F) /\ P(F[n])
    BY <1>7, <1>8, TrainingOperators DEF Training!Range
<1>10. Training!Place(F, i) = CHOOSE v \in Training!Range(F) : P(v)
    BY DEF Training!Place
<1>11. Training!Place(F, i) \in Training!Range(F) /\ P(Training!Place(F, i))
  <2> HIDE DEF P
  <2>1. QED BY <1>9, <1>10
<1>12. QED BY <1>11, TrainingOperators DEF Training!Range
\* The worst are an arrangement of the elements whose values are greatest.
LEMMA WorstFacts ==
    ASSUME NEW S, IsFiniteSet(S), NEW F, \A s \in S : F[s] \in Nat, MaxListed \in Nat,
           NEW q \in Training!WorstFirst(S, F)
    PROVE  /\ ToSet(q) \subseteq S
           /\ \A n \in ToSet(q), o \in S \ ToSet(q) : F[n] >= F[o]
           /\ Len(q) < MaxListed => ToSet(q) = S
<1>1. PICK o \in SetToSeqs(S) :
          /\ \A i, j \in 1 .. Len(o) : i < j => F[o[i]] >= F[o[j]]
          /\ q = SubSeq(o, 1, Training!Min({MaxListed, Len(o)}))
    BY TrainingOperators DEF Training!WorstFirst, Training!IsSorted
<1>2. /\ o \in Seq(S) /\ DOMAIN o = 1 .. Len(o) /\ Len(o) \in Nat /\ ToSet(o) = S
    BY PermutationFacts
<1> DEFINE last == IF MaxListed <= Len(o) THEN MaxListed ELSE Len(o)
<1>3. Training!Min({MaxListed, Len(o)}) = last
  <2>1. \E x \in {MaxListed, Len(o)} : \A y \in {MaxListed, Len(o)} : x <= y
      BY <1>2
  <2>2. /\ Training!Min({MaxListed, Len(o)}) \in {MaxListed, Len(o)}
        /\ \A y \in {MaxListed, Len(o)} : Training!Min({MaxListed, Len(o)}) <= y
      BY <2>1 DEF Training!Min
  <2>3. QED BY <1>2, <2>2
<1>4. last \in Nat /\ last <= Len(o) /\ last <= MaxListed /\ (last < MaxListed => last = Len(o))
  <2>1. Len(o) \in Nat /\ MaxListed \in Nat
      BY <1>2
  <2>2. QED BY ONLY <2>1
<1> HIDE DEF last
<1>5. q = SubSeq(o, 1, last)
    BY <1>1, <1>3
<1>6. /\ q \in Seq(S) /\ Len(q) = last /\ DOMAIN q = 1 .. last
      /\ \A i \in 1 .. last : q[i] = o[i]
  <2>1. \A i \in 1 .. last : o[i] \in S
      BY <1>2, <1>4, LenProperties
  <2>2. /\ SubSeq(o, 1, last) \in Seq(S)
        /\ Len(SubSeq(o, 1, last)) = IF 1 <= last THEN last - 1 + 1 ELSE 0
        /\ \A i \in 1 .. last - 1 + 1 : SubSeq(o, 1, last)[i] = o[1 + i - 1]
      BY <1>4, <2>1, SubSeqProperties
  <2>3. last - 1 + 1 = last /\ \A i \in 1 .. last : 1 + i - 1 = i
      BY <1>4
  <2>4. Len(SubSeq(o, 1, last)) = last
      BY <1>4, <2>2, <2>3
  <2>5. \A i \in 1 .. last : q[i] = o[i]
      BY <1>5, <2>2, <2>3
  <2>6. QED BY <1>5, <2>2, <2>4, <2>5, LenProperties
<1>7. ToSet(q) \subseteq S
    BY <1>6, ElementFacts
<1>8. ASSUME NEW n \in ToSet(q), NEW m \in S \ ToSet(q) PROVE F[n] >= F[m]
  <2>1. PICK i \in 1 .. last : o[i] = n
      BY <1>6 DEF ToSet
  <2>2. PICK j \in 1 .. Len(o) : o[j] = m
      BY <1>2 DEF ToSet
  <2>3. ~(j <= last)
    <3>1. ASSUME j <= last PROVE FALSE
      <4>1. j \in 1 .. last
        <5>1. j \in 1 .. Len(o) /\ last \in Nat /\ Len(o) \in Nat
            BY <1>2, <1>4
        <5>2. QED BY ONLY <3>1, <5>1
      <4>2. q[j] = m /\ j \in DOMAIN q
          BY <1>6, <2>2, <4>1
      <4>3. QED BY <1>8, <4>2 DEF ToSet
    <3>2. QED BY <3>1
  <2>4. i < j /\ i \in 1 .. Len(o)
    <3>1. j \in 1 .. Len(o) /\ i \in 1 .. last /\ last \in Nat /\ Len(o) \in Nat
        BY <1>2, <1>4
    <3>2. QED BY ONLY <1>4, <2>3, <3>1
  <2>5. QED BY <1>1, <2>1, <2>2, <2>4
<1>9. ASSUME Len(q) < MaxListed PROVE ToSet(q) = S
  <2>1. last = Len(o)
      BY <1>4, <1>6, <1>9
  <2>2. \A j \in 1 .. Len(o) : o[j] \in ToSet(q)
      BY <1>6, <2>1 DEF ToSet
  <2>3. QED BY <1>2, <1>7, <2>2 DEF ToSet
<1>10. QED BY <1>7, <1>8, <1>9

-----------------------------------------------------------------------------
TrainingInv ==
    /\ sample \in [Node -> Sample \cup {NoSample}]
    /\ result # Training!NoResult =>
          /\ result.stragglers \in Training!StragglerLists
          /\ result.score = Training!StragglerScore

LEMMA TrainingInit == Training!Init => TrainingInv
BY DEF Training!Init, TrainingInv

LEMMA TrainingStepKeepsInv == TrainingInv /\ [Training!Next]_trainVars => TrainingInv'
<1> SUFFICES ASSUME TrainingInv, [Training!Next]_trainVars PROVE TrainingInv' OBVIOUS
<1>1. CASE Training!IngestNodeMetrics
    BY <1>1 DEF Training!IngestNodeMetrics, TrainingInv
<1>2. ASSUME sample' = sample
      PROVE  /\ Training!StragglerLists' = Training!StragglerLists
             /\ Training!StragglerScore' = Training!StragglerScore
  <2>1. Training!WithIB' = Training!WithIB /\ Training!Utils' = Training!Utils
      BY <1>2 DEF Training!WithIB, Training!Utils, Training!Reporting
  <2>2. QED BY <2>1 DEF Training!StragglerLists, Training!StragglerScore
<1>3. CASE Training!ComputeTrainingMetrics
    BY <1>2, <1>3 DEF Training!ComputeTrainingMetrics, TrainingInv
<1>4. CASE UNCHANGED trainVars
    BY <1>2, <1>4 DEF trainVars, TrainingInv
<1>5. QED BY <1>1, <1>3, <1>4 DEF Training!Next

\* The median is a node's value; half of the values are on either side of it.
LEMMA MedianFacts ==
    ASSUME NEW S, IsFiniteSet(S), S # {}, NEW F \in [S -> Nat]
    PROVE  LET m == Training!UpperMedian(F)
           IN  /\ \E n \in S : m = F[n]
               /\ 2 * Cardinality({n \in S : F[n] <= m}) >= Cardinality(S)
               /\ 2 * Cardinality({n \in S : F[n] >= m}) >= Cardinality(S)
<1> DEFINE m == Training!UpperMedian(F)
           k == Cardinality(S)
           L == {n \in S : F[n] < m}
           G == {n \in S : F[n] >= m}
<1>1. k \in Nat /\ k # 0
    BY FS_CardinalityType, FS_EmptySet
<1>2. k \div 2 \in Nat /\ 2 * (k \div 2) <= k /\ 2 * (k \div 2) + 1 >= k /\ k \div 2 + 1 \in 1 .. k
    BY <1>1
<1>3. m = Training!Place(F, k \div 2 + 1)
    BY TrainingOperators DEF Training!UpperMedian
<1>4. /\ \E n \in S : m = F[n]
      /\ Cardinality(L) < k \div 2 + 1
      /\ Cardinality({n \in S : F[n] <= m}) >= k \div 2 + 1
  <2> DEFINE i == k \div 2 + 1
  <2>1. i \in 1 .. Cardinality(S) /\ m = Training!Place(F, i)
      BY <1>2, <1>3
  <2> HIDE DEF i, m
  <2>2. /\ \E n \in S : Training!Place(F, i) = F[n]
        /\ Cardinality({n \in S : F[n] < Training!Place(F, i)}) < i
        /\ Cardinality({n \in S : F[n] <= Training!Place(F, i)}) >= i
      BY <2>1, PlaceFacts
  <2>3. QED BY <2>1, <2>2, Zenon DEF i
<1>5. m \in Nat
    BY <1>4
<1> HIDE DEF m
<1>6. L \cup G = S /\ L \cap G = {} /\ L \subseteq S /\ G \subseteq S
    BY <1>5
<1>7. /\ IsFiniteSet(L) /\ IsFiniteSet(G) /\ IsFiniteSet({n \in S : F[n] <= m})
      /\ Cardinality(L) \in Nat /\ Cardinality(G) \in Nat
      /\ Cardinality({n \in S : F[n] <= m}) \in Nat
    BY FS_Subset, FS_CardinalityType
<1>8. k = Cardinality(L) + Cardinality(G)
  <2> HIDE DEF L, G
  <2>1. Cardinality(L \cap G) = 0
      BY <1>6, FS_EmptySet
  <2>2. Cardinality(L \cup G) = Cardinality(L) + Cardinality(G) - Cardinality(L \cap G)
      BY <1>7, FS_Union
  <2>3. QED BY <1>6, <1>7, <2>1, <2>2
<1> DEFINE A == {n \in S : F[n] <= m}
<1> HIDE DEF L, G, A, k
<1>9. 2 * Cardinality(A) >= k /\ 2 * Cardinality(G) >= k
  <2>1. Cardinality(A) \in Nat /\ Cardinality(A) >= k \div 2 + 1
      BY <1>4, <1>7 DEF A
  <2>2. QED BY <1>1, <1>2, <1>4, <1>7, <1>8, <2>1
<1>10. QED BY <1>4, <1>9 DEF A, G, k, m
LEMMA DivisionGrows ==
    ASSUME NEW a \in Nat, NEW b \in Nat, a <= b, NEW m \in Nat \ {0}
    PROVE  a \div m <= b \div m
<1> DEFINE qa == a \div m
           qb == b \div m
<1>1. qa \in Int /\ qb \in Int /\ m * qa <= a /\ b < m * qb + m
    OBVIOUS
<1> HIDE DEF qa, qb
<1>2. ASSUME qb + 1 <= qa PROVE FALSE
  <2>1. PICK d \in Nat : qa = qb + 1 + d
    <3>1. qa - qb - 1 \in Nat /\ qa = qb + 1 + (qa - qb - 1)
        BY <1>1, <1>2
    <3>2. QED BY <3>1
  <2>2. m * qa = m * qb + m + m * d /\ m * d >= 0
      BY <1>1, <2>1
  <2>3. m * qa \in Int /\ m * qb \in Int /\ m * d \in Int
      BY <1>1, <2>1
  <2>4. QED BY <1>1, <2>2, <2>3
<1>3. QED BY <1>1, <1>2 DEF qa, qb

LEMMA RatioGrows ==
    ASSUME NEW a \in Nat, NEW b \in Nat, a <= b, NEW m \in Nat
    PROVE  Training!Ratio(a, m) <= Training!Ratio(b, m)
<1>1. a * 1000 \in Nat /\ b * 1000 \in Nat /\ a * 1000 <= b * 1000
    OBVIOUS
<1>2. CASE m = 0
    BY <1>2 DEF Training!Ratio
<1>3. CASE m # 0
  <2>1. (a * 1000) \div m <= (b * 1000) \div m
      BY <1>1, <1>3, DivisionGrows
  <2>2. QED BY <1>3, <2>1 DEF Training!Ratio
<1>4. QED BY <1>2, <1>3

LEMMA StragglersFromInv == TrainingInv => Training!StragglersAreWorst
<1> DEFINE S == Training!WithIB
           F == Training!Utils
           m == Training!UpperMedian(F)
           dev == Training!DeviationFrom(F, m)
           Far(n) == {o \in S : Training!Abs(F[n] - F[o]) > 20}
           q == result.stragglers
<1> SUFFICES ASSUME TrainingInv, result # Training!NoResult
             PROVE  /\ ToSet(q) \subseteq S
                    /\ \A n \in ToSet(q) : 2 * Cardinality(Far(n)) >= Cardinality(S)
                    /\ \A n \in ToSet(q), o \in S \ ToSet(q) : dev[n] >= dev[o]
                    /\ Len(q) < MaxListed => \A o \in S \ ToSet(q) : dev[o] <= 20
                    /\ S # {} => ToSet(q) # S
                    /\ ToSet(q) # {} => result.score >= Training!Ratio(20, m)
    BY TrainingOperators DEF Training!StragglersAreWorst
<1>1. q \in Training!StragglerLists /\ result.score = Training!StragglerScore
    BY DEF TrainingInv
<1>2. S \subseteq Node /\ IsFiniteSet(S) /\ F \in [S -> Nat] /\ MaxListed \in Nat
  <2>1. IsFiniteSet(Node) /\ MaxListed \in Nat /\ \A s \in Sample : s.util \in Nat
      BY TrainingConfigured, TrainingOperators DEF Training!ConfigAssumption
  <2>2. S \subseteq Node
      BY DEF Training!WithIB, Training!Reporting
  <2>3. \A n \in S : sample[n] \in Sample
      BY DEF Training!WithIB, Training!Reporting, TrainingInv
  <2>4. F \in [S -> Nat]
      BY <2>1, <2>3 DEF Training!Utils
  <2>5. QED BY <2>1, <2>2, <2>4, FS_Subset
<1> HIDE DEF S, F
<1>3. CASE S = {}
  <2>1. q = << >>
      BY <1>1, <1>3 DEF Training!StragglerLists, S
  <2>2. ToSet(q) = {}
      BY <2>1, EmptyFacts
  <2>3. QED BY <1>3, <2>2
<1>4. CASE S # {}
  <2>1. /\ \E n \in S : m = F[n]
        /\ 2 * Cardinality({n \in S : F[n] <= m}) >= Cardinality(S)
        /\ 2 * Cardinality({n \in S : F[n] >= m}) >= Cardinality(S)
      BY <1>2, <1>4, MedianFacts
  <2>2. m \in Nat
      BY <1>2, <2>1
  <2> HIDE DEF m
  <2>3. \A n \in S : /\ dev[n] = Training!Abs(F[n] - m) /\ dev[n] \in Nat
                     /\ dev[n] = IF F[n] < m THEN m - F[n] ELSE F[n] - m
      BY <1>2, <2>2 DEF Training!DeviationFrom, Training!Abs
  <2> HIDE DEF dev
  <2> DEFINE D == {n \in S : dev[n] > 20}
  <2>4. q \in Training!WorstFirst(D, dev)
    <3>1. DOMAIN dev = S
        BY <1>2 DEF dev, Training!DeviationFrom
    <3>2. Training!Deviating(dev) = D
        BY <3>1 DEF Training!Deviating
    <3>3. QED BY <1>1, <1>4, <3>2 DEF Training!StragglerLists, dev, m, F, S
  <2>5. D \subseteq S /\ IsFiniteSet(D) /\ \A n \in D : dev[n] \in Nat /\ dev[n] > 20
      BY <1>2, <2>3, FS_Subset
  <2>6. /\ ToSet(q) \subseteq D
        /\ \A n \in ToSet(q), o \in D \ ToSet(q) : dev[n] >= dev[o]
        /\ Len(q) < MaxListed => ToSet(q) = D
    <3> HIDE DEF D, q
    <3>1. QED BY <1>2, <2>4, <2>5, WorstFacts
  <2>7. \A n \in ToSet(q), o \in S \ ToSet(q) : dev[n] >= dev[o]
    <3> TAKE n \in ToSet(q), o \in S \ ToSet(q)
    <3>1. CASE o \in D
        BY <2>6, <3>1
    <3>2. CASE o \notin D
        BY <2>3, <2>5, <2>6, <3>2
    <3>3. QED BY <3>1, <3>2
  <2>8. Len(q) < MaxListed => \A o \in S \ ToSet(q) : dev[o] <= 20
      BY <2>3, <2>6
  <2>9. ToSet(q) # S
    <3>1. PICK n \in S : m = F[n]
        BY <2>1
    <3>2. dev[n] = 0
        BY <1>2, <2>3, <3>1
    <3>3. QED BY <2>6, <3>2
  <2>10. ASSUME NEW n \in ToSet(q) PROVE 2 * Cardinality(Far(n)) >= Cardinality(S)
    <3>1. n \in S /\ dev[n] > 20 /\ F[n] \in Nat
        BY <1>2, <2>5, <2>6
    <3>2. IsFiniteSet(Far(n)) /\ Cardinality(S) \in Nat
        BY <1>2, FS_Subset, FS_CardinalityType
    <3>3. ASSUME NEW T, T \subseteq Far(n), 2 * Cardinality(T) >= Cardinality(S)
          PROVE  2 * Cardinality(Far(n)) >= Cardinality(S)
      <4> HIDE DEF Far
      <4>1. IsFiniteSet(T) /\ Cardinality(T) <= Cardinality(Far(n))
          BY <3>2, <3>3, FS_Subset
      <4>2. Cardinality(T) \in Nat /\ Cardinality(Far(n)) \in Nat
          BY <3>2, <4>1, FS_CardinalityType
      <4>3. QED BY <3>2, <3>3, <4>1, <4>2
    <3>4. CASE F[n] < m
      <4>1. \A o \in S : F[o] >= m => Training!Abs(F[n] - F[o]) > 20
          BY <1>2, <2>2, <2>3, <3>1, <3>4 DEF Training!Abs
      <4>2. {o \in S : F[o] >= m} \subseteq Far(n)
          BY <4>1
      <4>3. QED BY <2>1, <3>3, <4>2
    <3>5. CASE ~(F[n] < m)
      <4>1. \A o \in S : F[o] <= m => Training!Abs(F[n] - F[o]) > 20
          BY <1>2, <2>2, <2>3, <3>1, <3>5 DEF Training!Abs
      <4>2. {o \in S : F[o] <= m} \subseteq Far(n)
          BY <4>1
      <4>3. QED BY <2>1, <3>3, <4>2
    <3>6. QED BY <3>4, <3>5
  <2>11. ASSUME ToSet(q) # {} PROVE result.score >= Training!Ratio(20, m)
    <3>1. PICK n \in S : dev[n] > 20
        BY <2>5, <2>6, <2>11
    <3>2. PICK g \in S : \A o \in S : dev[o] <= dev[g]
        BY <1>2, <1>4, <2>3, GreatestOf
    <3> DEFINE R == Training!Range(dev)
               top == Training!Max(R)
    <3>3. R = {dev[o] : o \in S}
        BY <1>2 DEF Training!Range, dev, Training!DeviationFrom
    <3>4. \E x \in R : \A y \in R : x >= y
        BY <2>3, <3>2, <3>3
    <3> HIDE DEF R
    <3>5. top \in R /\ \A y \in R : top >= y
        BY <3>4 DEF Training!Max
    <3>6. top \in Nat /\ 20 <= top
      <4>1. top \in Nat
          BY <2>3, <3>3, <3>5
      <4>2. dev[n] \in Nat /\ top >= dev[n]
          BY <2>3, <3>3, <3>5
      <4> HIDE DEF top
      <4>3. QED BY <3>1, <4>1, <4>2
    <3> HIDE DEF top
    <3>7. Training!Ratio(20, m) <= Training!Ratio(top, m)
        BY <2>2, <3>6, RatioGrows
    <3>8. result.score = Training!Ratio(top, m)
        BY <1>1, <1>4 DEF Training!StragglerScore, top, R, dev, m, F, S
    <3>9. Training!Ratio(20, m) \in Int /\ Training!Ratio(top, m) \in Int
        BY <2>2, <3>6 DEF Training!Ratio
    <3>10. QED BY <3>7, <3>8, <3>9
  <2>12. QED BY <2>5, <2>6, <2>7, <2>8, <2>9, <2>10, <2>11
<1>5. QED BY <1>3, <1>4

-----------------------------------------------------------------------------
(* The steps of the whole are steps of the components.                     *)

LEMMA StepOfRing == [Next]_vars => [Ring!Next]_ringVars
BY DEF Next, vars, RingStep, LimiterStep, AgentStep, ApiStep, TrainingStep, SocketStep, CpuStep,
       Produce, Drain, InRing, InFlow, InLimiter, InAgent, InApi, InTraining, InSocket, InCpu,
       ringVars

LEMMA RingInvHolds == Spec => []RingInv
<1>1. Init => RingInv
    BY RingInit DEF Init
<1>2. RingInv /\ [Next]_vars => RingInv'
    BY StepOfRing, RingStepKeepsInv
<1>3. QED BY <1>1, <1>2, PTL DEF Spec

(* On a ring of any shards with any hashes, the owner of a key is told by  *)
(* the members alone, but for coincidences, whatever has been added and    *)
(* removed in whatever order.                                              *)
THEOREM OwnersCorrect == Spec => []OwnerIsSuccessor
<1>1. RingInv => OwnerIsSuccessor
    BY OwnerFromInv DEF OwnerIsSuccessor
<1>2. QED BY <1>1, RingInvHolds, PTL

(* And a key moves only to an added shard or from a removed one, or among  *)
(* the shards whose points coincide.                                       *)
THEOREM KeysMove == Spec => KeysMoveMinimally
<1>1. RingInv /\ [Next]_vars =>
          [\A k \in Key :
              Ring!Owner'[k] # Ring!Owner[k] =>
              \/ Ring!Owner'[k] \in DOMAIN shards' \ DOMAIN shards
              \/ Ring!Owner[k] \notin DOMAIN shards'
              \/ /\ DOMAIN shards \subseteq DOMAIN shards'
                 /\ {Ring!Owner[k], Ring!Owner'[k]} \subseteq Ring!Successors(DOMAIN shards, k)]_(Ring!vars)
  <2> SUFFICES ASSUME RingInv, [Next]_vars, NEW k \in Key
               PROVE  Ring!Owner'[k] # Ring!Owner[k] =>
              \/ Ring!Owner'[k] \in DOMAIN shards' \ DOMAIN shards
              \/ Ring!Owner[k] \notin DOMAIN shards'
              \/ /\ DOMAIN shards \subseteq DOMAIN shards'
                 /\ {Ring!Owner[k], Ring!Owner'[k]} \subseteq Ring!Successors(DOMAIN shards, k)
      OBVIOUS
  <2>1. OwnerMoves(k)
      BY StepOfRing, RingStepMovesLittle
  <2>2. Ring!Owner[k] = Ring!GetShard(k) /\ Ring!Owner'[k] = Ring!GetShard(k)'
      BY DEF Ring!Owner
  <2>3. QED BY <2>1, <2>2 DEF OwnerMoves
<1>2. QED BY <1>1, RingInvHolds, PTL DEF Spec, KeysMoveMinimally, Ring!KeysMoveMinimally

LEMMA StepOfCpu == [Next]_vars => [Cpu!Next]_cpuVars
BY DEF Next, vars, RingStep, LimiterStep, AgentStep, ApiStep, TrainingStep, SocketStep, CpuStep,
       Produce, Drain, InRing, InFlow, InLimiter, InAgent, InApi, InTraining, InSocket, InCpu,
       cpuVars

LEMMA CpuInvHolds == Spec => []CpuInv
<1>1. Init => CpuInv
    BY CpuInit DEF Init
<1>2. CpuInv /\ [Next]_vars => CpuInv'
    BY StepOfCpu, CpuStepKeepsInv
<1>3. QED BY <1>1, <1>2, PTL DEF Spec

(* The counters of a CPU are its time since its first switch, told apart by *)
(* what it ran, and its softirq time is exact unless a softirq was under    *)
(* way when the programs were attached.                                     *)
THEOREM TimesCorrect == Spec => []TimeAccounted
<1>1. CpuInv => TimeAccounted
    BY TimesFromInv DEF TimeAccounted
<1>2. QED BY <1>1, CpuInvHolds, PTL

LEMMA StepOfFlow == [Next]_vars => [Flow!Next]_flowVars
BY DEF Next, vars, RingStep, LimiterStep, AgentStep, ApiStep, TrainingStep, SocketStep, CpuStep,
       Produce, Drain, InRing, InFlow, InLimiter, InAgent, InApi, InTraining, InSocket, InCpu,
       flowVars, Flow!Next

LEMMA FlowInvHolds == Spec => []FlowInv
<1>1. Init => FlowInv
    BY FlowInit DEF Init
<1>2. FlowInv /\ [Next]_vars => FlowInv'
    BY StepOfFlow, FlowStepKeepsInv
<1>3. QED BY <1>1, <1>2, PTL DEF Spec

(* However many producers race and whatever the rate, the queue passes its *)
(* maximum depth by the producers at most: each of them can have been let  *)
(* through before another one's item counted.                              *)
THEOREM QueueIsBounded == Spec => []QueueBounded
<1>1. FlowInv => QueueBounded
    BY FewQueuedBounds DEF QueueBounded, FlowInv
<1>2. QED BY <1>1, FlowInvHolds, PTL

LEMMA StepOfLimiter == [Next]_vars => [Limiter!Next]_limitVars
BY DEF Next, vars, RingStep, LimiterStep, AgentStep, ApiStep, TrainingStep, SocketStep, CpuStep,
       Produce, Drain, InRing, InFlow, InLimiter, InAgent, InApi, InTraining, InSocket, InCpu,
       limitVars

LEMMA LimiterInvHolds == Spec => [](LimiterInv /\ SingleInv)
<1>1. Init => LimiterInv /\ SingleInv
    BY LimiterInit, SingleInit DEF Init
<1>2. (LimiterInv /\ SingleInv) /\ [Next]_vars => (LimiterInv /\ SingleInv)'
    BY StepOfLimiter, LimiterStepKeepsInv, SingleStep
<1>3. QED BY <1>1, <1>2, PTL DEF Spec

(* Whatever the limit, the window and the number of callers, a window      *)
(* shorter by the longest call has fewer moments with an admitted call     *)
(* than the limit and two for each caller, or one if the limit is one.     *)
THEOREM LimitHolds == Spec => []MomentsBounded
<1>1. LimiterInv /\ SingleInv => MomentsBounded
    BY MomentsFromInv DEF MomentsBounded
<1>2. QED BY <1>1, LimiterInvHolds, PTL

LEMMA StepOfSocket == [Next]_vars => [Socket!Next]_wsVars
BY DEF Next, vars, RingStep, LimiterStep, AgentStep, ApiStep, TrainingStep, SocketStep, CpuStep,
       Produce, Drain, InRing, InFlow, InLimiter, InAgent, InApi, InTraining, InSocket, InCpu,
       wsVars

LEMMA SocketInvHolds == Spec => []SocketInv
<1>1. Init => SocketInv
    BY SocketInit DEF Init
<1>2. SocketInv /\ [Next]_vars => SocketInv'
    BY StepOfSocket, SocketStepKeepsInv
<1>3. QED BY <1>1, <1>2, PTL DEF Spec

(* Whatever the order of the events of sockets and timers, each manager    *)
(* has one live connection, or one attempt that is waited for, and never   *)
(* both, and one whose page has not been shown has neither: the dashboard  *)
(* has no more connections than pages have been visited.                   *)
THEOREM ConnectsOnce == Spec => []OneConnectionEach
<1>1. SocketInv => OneConnectionEach
    BY OneFromInv DEF OneConnectionEach
<1>2. QED BY <1>1, SocketInvHolds, PTL

LEMMA StepOfApi == [Next]_vars => [Api!Next]_apiVars
BY DEF Next, vars, RingStep, LimiterStep, AgentStep, ApiStep, TrainingStep, SocketStep, CpuStep,
       Produce, Drain, InRing, InFlow, InLimiter, InAgent, InApi, InTraining, InSocket, InCpu,
       apiVars

LEMMA ApiInvHolds == Spec => []ApiInv
<1>1. Init => ApiInv
    BY ApiInit DEF Init
<1>2. ApiInv /\ [Next]_vars => ApiInv'
    BY StepOfApi, ApiStepKeepsInv
<1>3. QED BY <1>1, <1>2, PTL DEF Spec

(* Whatever is written and expires between the pages, a session that was   *)
(* granted the limit it asked for, that lost no row and no page, has been  *)
(* shown every row that its query had at its start, but for ties; and no   *)
(* session is shown a row of another tenant, or one that a filter which it *)
(* has given, and which parses, leaves out.                                *)
THEOREM PagesComplete == Spec => []PagingComplete
<1>1. ApiInv => PagingComplete
    BY CompleteFromInv DEF PagingComplete
<1>2. QED BY <1>1, ApiInvHolds, PTL

LEMMA StepOfTraining == [Next]_vars => [Training!Next]_trainVars
BY DEF Next, vars, RingStep, LimiterStep, AgentStep, ApiStep, TrainingStep, SocketStep, CpuStep,
       Produce, Drain, InRing, InFlow, InLimiter, InAgent, InApi, InTraining, InSocket, InCpu,
       trainVars

LEMMA TrainingInvHolds == Spec => []TrainingInv
<1>1. Init => TrainingInv
    BY TrainingInit DEF Init
<1>2. TrainingInv /\ [Next]_vars => TrainingInv'
    BY StepOfTraining, TrainingStepKeepsInv
<1>3. QED BY <1>1, <1>2, PTL DEF Spec

(* For any nodes and metrics, the stragglers of a round are those that     *)
(* deviate most from the median, each of them far from half of the nodes,  *)
(* and the score shows them.                                               *)
THEOREM StragglersCorrect == Spec => []StragglersAreWorst
<1>1. TrainingInv => StragglersAreWorst
    BY StragglersFromInv DEF StragglersAreWorst
<1>2. QED BY <1>1, TrainingInvHolds, PTL
=============================================================================
