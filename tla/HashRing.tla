------------------------------ MODULE HashRing ------------------------------
(***************************************************************************)
(* The consistent hash ring of pkg/aggregator/hashring.go, meant to spread *)
(* agents over aggregator shards (docs/PRD-and-Functional-Spec.md:797; no  *)
(* program uses it yet).  Its methods run under a lock, so each is one     *)
(* step.                                                                   *)
(*                                                                         *)
(* The ring is sorted by sort.Slice, which is not stable: virtual nodes    *)
(* with equal hashes may change places at every addition.                  *)
(***************************************************************************)
EXTENDS Naturals, FiniteSets, Sequences, SequencesExt

CONSTANTS Shard, Key,
          VirtualNodes,  \* virtual nodes of a shard (150 unless configured)
          VHash,         \* VHash[s][i]: the CRC-32 of the name of virtual node i of s
          KHash,         \* KHash[k]: the CRC-32 of a key
          NoShard        \* the empty string GetShard returns for an empty ring

\* A shard has a virtual node at least, and hashes are numbers.
HashesAreNumbers ==
    /\ IsFiniteSet(Shard) /\ VirtualNodes \in Nat \ {0}
    /\ \A s \in Shard, i \in 1 .. VirtualNodes : VHash[s][i] \in Nat
    /\ \A k \in Key : KHash[k] \in Nat

VARIABLES
    shards,  \* the index given to each registered shard
    ring     \* the entries in ring order; vnode only tells entries apart

vars == <<shards, ring>>

Points(S) == {[hash |-> VHash[s][i], shardID |-> s, vnode |-> i] :
                  s \in S, i \in 1 .. VirtualNodes}

InOrder(q) == IsSorted(q, LAMBDA a, b : a.hash <= b.hash)

\* The results sort.Slice may produce from a set of entries.
Sortings(entries) == {q \in SetToSeqs(entries) : InOrder(q)}

Init == shards = << >> /\ ring = << >>

\* Mutant: the new entries are appended and the ring is not sorted again.
AddShardUnsorted(s) ==
    /\ s \notin DOMAIN shards
    /\ shards' = [x \in DOMAIN shards \cup {s} |->
                     IF x = s THEN Cardinality(DOMAIN shards) ELSE shards[x]]
    /\ ring' = ring \o [i \in 1 .. VirtualNodes |->
                           [hash |-> VHash[s][i], shardID |-> s, vnode |-> i]]

\* Adding a registered shard does nothing.  An index may be given twice once
\* shards have been removed; nothing reads it.
AddShard(s) ==
    /\ s \notin DOMAIN shards
    /\ shards' = [x \in DOMAIN shards \cup {s} |->
                     IF x = s THEN Cardinality(DOMAIN shards) ELSE shards[x]]
    /\ ring' \in Sortings(ToSet(ring) \cup Points({s}))

\* Mutant: the shards that remain are added again at new places.
RemoveShardShifting(s) ==
    /\ s \in DOMAIN shards
    /\ shards' = [x \in DOMAIN shards \ {s} |-> shards[x]]
    /\ ring' = LET rest == SelectSeq(ring, LAMBDA e : e.shardID # s)
               IN  [i \in DOMAIN rest |-> [ring[i] EXCEPT !.shardID = rest[i].shardID]]

\* The entries of the other shards, in the order they had.
Without(q, s) ==
    {r \in SetToSeqs({e \in ToSet(q) : e.shardID # s}) :
        \A i, j \in DOMAIN r, k, l \in DOMAIN q : r[i] = q[k] /\ r[j] = q[l] /\ i < j => k < l}

RemoveShard(s) ==
    /\ s \in DOMAIN shards
    /\ shards' = [x \in DOMAIN shards \ {s} |-> shards[x]]
    /\ ring' \in Without(ring, s)

\* The first entry at or after the key, or else the first of the ring.
GetShard(k) ==
    IF ring = << >> THEN NoShard
    ELSE LET after == {i \in DOMAIN ring : ring[i].hash >= KHash[k]}
             idx == IF after = {} THEN 1 ELSE CHOOSE i \in after : \A j \in after : i <= j
         IN  ring[idx].shardID

Next == \E s \in Shard : AddShard(s) \/ RemoveShard(s)

Spec == Init /\ [][Next]_vars

-----------------------------------------------------------------------------
(* The type invariant: the ring is sorted and holds every virtual node of  *)
(* every registered shard once, and no other.                              *)
TypeOK ==
    /\ DOMAIN shards \subseteq Shard
    /\ \A s \in DOMAIN shards : shards[s] \in 0 .. Cardinality(Shard) - 1
    /\ InOrder(ring) /\ IsInjective(ring)
    /\ ToSet(ring) = Points(DOMAIN shards)

\* The shards of the points that follow a key on the circle, told from the
\* members alone: several only when points of several shards coincide.
Successors(S, k) ==
    LET after == {p \in Points(S) : p.hash >= KHash[k]}
        candidates == IF after = {} THEN Points(S) ELSE after
    IN  {p.shardID : p \in {c \in candidates :
                               \A o \in candidates : c.hash <= o.hash}}

Owner == [k \in Key |-> GetShard(k)]

(* The owner of a key is a shard of its successor among the members: rings *)
(* that have come to the same members by different histories agree on      *)
(* every key, except where virtual nodes of two shards coincide.           *)
OwnerIsSuccessor ==
    \A k \in Key : IF DOMAIN shards = {} THEN Owner[k] = NoShard
                   ELSE Owner[k] \in Successors(DOMAIN shards, k)

(* A key moves only to the shard that is added or from the one that is     *)
(* removed.  An addition may also swap the owners of a key whose successor *)
(* is a coincidence of two old shards; a removal moves no other key at all.*)
KeysMoveMinimally ==
    [][\A k \in Key :
          Owner'[k] # Owner[k] =>
              \/ Owner'[k] \in DOMAIN shards' \ DOMAIN shards
              \/ Owner[k] \notin DOMAIN shards'
              \/ /\ DOMAIN shards \subseteq DOMAIN shards'
                 /\ {Owner[k], Owner'[k]} \subseteq Successors(DOMAIN shards, k)]_vars
=============================================================================
