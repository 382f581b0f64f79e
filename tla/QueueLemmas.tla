---------------------------- MODULE QueueLemmas ----------------------------
(***************************************************************************)
(* Lemmas about sequences that serve as queues, for the proofs about Go    *)
(* channels, lists and their histories, about the sorted arrangements of a *)
(* set, and about the least number of a kind.                              *)
(***************************************************************************)
EXTENDS Integers, Sequences, SequencesExt, SequenceTheorems, FiniteSetTheorems,
        WellFoundedInduction, TLAPS

(* The empty queue.                                                        *)
LEMMA EmptyFacts ==
    /\ \A S : << >> \in Seq(S)
    /\ Len(<< >>) = 0 /\ DOMAIN << >> = {} /\ ToSet(<< >>) = {}
BY EmptySeq, LenProperties DEF ToSet

(* Appending adds one element behind the others.                           *)
LEMMA AppendFacts ==
    ASSUME NEW S, NEW s \in Seq(S), NEW e \in S
    PROVE  /\ Append(s, e) \in Seq(S) /\ DOMAIN s = 1 .. Len(s) /\ Len(s) \in Nat
           /\ Len(Append(s, e)) = Len(s) + 1
           /\ DOMAIN Append(s, e) = 1 .. Len(s) + 1
           /\ \A i \in 1 .. Len(s) : Append(s, e)[i] = s[i]
           /\ Append(s, e)[Len(s) + 1] = e
           /\ ToSet(Append(s, e)) = ToSet(s) \cup {e}
<1>1. /\ Append(s, e) \in Seq(S) /\ DOMAIN s = 1 .. Len(s) /\ Len(s) \in Nat
      /\ Len(Append(s, e)) = Len(s) + 1
      /\ DOMAIN Append(s, e) = 1 .. Len(s) + 1
      /\ \A i \in 1 .. Len(s) : Append(s, e)[i] = s[i]
      /\ Append(s, e)[Len(s) + 1] = e
    BY AppendProperties, LenProperties
<1>2. ToSet(Append(s, e)) = ToSet(s) \cup {e}
    BY <1>1 DEF ToSet
<1>3. QED BY <1>1, <1>2

(* The head and the tail make up the sequence.                             *)
LEMMA TailFacts ==
    ASSUME NEW S, NEW s \in Seq(S), s # << >>
    PROVE  /\ Head(s) \in S /\ Tail(s) \in Seq(S)
           /\ DOMAIN s = 1 .. Len(s) /\ Len(s) \in Nat \ {0}
           /\ Len(Tail(s)) = Len(s) - 1
           /\ DOMAIN Tail(s) = 1 .. Len(s) - 1
           /\ \A i \in 1 .. Len(s) - 1 : Tail(s)[i] = s[i + 1]
           /\ Head(s) = s[1]
           /\ ToSet(s) = ToSet(Tail(s)) \cup {Head(s)}
<1>1. /\ Head(s) \in S /\ Tail(s) \in Seq(S)
      /\ DOMAIN s = 1 .. Len(s) /\ Len(s) \in Nat \ {0}
      /\ Len(Tail(s)) = Len(s) - 1
      /\ DOMAIN Tail(s) = 1 .. Len(s) - 1
      /\ \A i \in 1 .. Len(s) - 1 : Tail(s)[i] = s[i + 1]
      /\ Head(s) = s[1]
    BY HeadTailProperties, LenProperties, EmptySeq
<1>2. ASSUME NEW i \in 1 .. Len(s), i # 1
      PROVE  s[i] \in ToSet(Tail(s))
  <2>1. i - 1 \in 1 .. Len(s) - 1 /\ s[i] = Tail(s)[i - 1]
      BY <1>1, <1>2
  <2>2. QED BY <1>1, <2>1 DEF ToSet
<1>3. ToSet(Tail(s)) \subseteq ToSet(s)
    BY <1>1 DEF ToSet
<1>4. ToSet(s) = ToSet(Tail(s)) \cup {Head(s)}
    BY <1>1, <1>2, <1>3 DEF ToSet
<1>5. QED BY <1>1, <1>4

(* The elements of a sequence over a set are in the set, and a sequence is *)
(* one over any set that has its elements.                                 *)
LEMMA ElementFacts ==
    ASSUME NEW S, NEW s \in Seq(S)
    PROVE  ToSet(s) \subseteq S /\ \A T : ToSet(s) \subseteq T => s \in Seq(T)
<1>1. DOMAIN s = 1 .. Len(s) /\ Len(s) \in Nat /\ s \in [1 .. Len(s) -> S]
    BY LenProperties
<1>2. ToSet(s) \subseteq S
    BY <1>1 DEF ToSet
<1>3. ASSUME NEW T, ToSet(s) \subseteq T PROVE s \in Seq(T)
  <2>1. s \in [1 .. Len(s) -> T]
      BY <1>1, <1>3 DEF ToSet
  <2>2. QED BY <1>1, <2>1, SeqDef
<1>4. QED BY <1>2, <1>3

-----------------------------------------------------------------------------
(* Sets and their arrangements.                                            *)

(* A permutation of a set has each of its elements once.                   *)
LEMMA PermutationFacts ==
    ASSUME NEW S, IsFiniteSet(S), NEW q \in SetToSeqs(S)
    PROVE  /\ q \in Seq(S) /\ Len(q) = Cardinality(S) /\ DOMAIN q = 1 .. Len(q) /\ Len(q) \in Nat
           /\ \A j, l \in DOMAIN q : q[j] = q[l] => j = l
           /\ ToSet(q) = S
<1>1. Cardinality(S) \in Nat
    BY FS_CardinalityType
<1>2. q \in [1 .. Cardinality(S) -> S] /\ \A j, l \in 1 .. Cardinality(S) : j # l => q[j] # q[l]
    BY DEF SetToSeqs
<1>3. q \in Seq(S) /\ Len(q) = Cardinality(S) /\ DOMAIN q = 1 .. Len(q)
    BY <1>1, <1>2, SeqDef, LenProperties
<1>4. ToSet(q) \subseteq S
    BY <1>2 DEF ToSet
<1>5. ExistsBijection(1 .. Cardinality(S), ToSet(q))
  <2>1. q \in Bijection(1 .. Cardinality(S), ToSet(q))
      BY <1>2 DEF ToSet, Bijection, Injection, Surjection, IsInjective
  <2>2. QED BY <2>1 DEF ExistsBijection
<1>6. Cardinality(ToSet(q)) = Cardinality(S)
    BY <1>1, <1>5, FS_CountingElements
<1>7. ToSet(q) = S
    BY <1>4, <1>6, FS_Subset
<1>8. QED BY <1>1, <1>2, <1>3, <1>7

(* A set of natural numbers has a least element.                           *)
LEMMA LeastNatural ==
    ASSUME NEW S \in SUBSET Nat, S # {}
    PROVE  \E m \in S : \A k \in S : m <= k
<1> DEFINE T == {0 .. n : n \in S}
           R == StrictSubsetOrdering(Nat)
<1>1. IsWellFoundedOn(R, FiniteSubsetsOf(Nat))
    BY FS_StrictSubsetOrderingWellFounded
<1>2. \A n \in S : IsFiniteSet(0 .. n)
    BY FS_Interval
<1>3. T \subseteq FiniteSubsetsOf(Nat)
    BY <1>2 DEF FiniteSubsetsOf
<1>4. T # {}
    OBVIOUS
<1>5. \A U, V \in SUBSET Nat : U \subseteq V /\ U # V => <<U, V>> \in R
    BY DEF StrictSubsetOrdering
<1> HIDE DEF R
<1>6. PICK M \in T : \A U \in T : <<U, M>> \notin R
    BY <1>1, <1>3, <1>4, WFMin
<1>7. PICK m \in S : M = 0 .. m
    BY <1>6
<1>8. ASSUME NEW k \in S, k < m PROVE FALSE
  <2>1. 0 .. k \subseteq M /\ m \in M /\ m \notin 0 .. k
      BY <1>7, <1>8
  <2>2. 0 .. k \in T /\ 0 .. k \in SUBSET Nat /\ M \in SUBSET Nat
      BY <1>7
  <2>3. 0 .. k # M
      BY <2>1
  <2>4. <<0 .. k, M>> \in R
      BY <2>1, <2>2, <2>3, <1>5
  <2>5. QED BY <2>2, <2>4, <1>6
<1>9. QED BY <1>8

-----------------------------------------------------------------------------
(* Queues of numbered elements.                                            *)

Numbers(q) == {q[i].n : i \in DOMAIN q}
InOrder(q) == \A i, j \in DOMAIN q : i < j => q[i].n < q[j].n

(* An element with a number above all others keeps the order.              *)
LEMMA AppendInOrder ==
    ASSUME NEW S, NEW q \in Seq(S), NEW e \in S,
           \A k \in Numbers(q) : k < e.n, InOrder(q)
    PROVE  /\ Numbers(Append(q, e)) = Numbers(q) \cup {e.n}
           /\ InOrder(Append(q, e))
<1> DEFINE r == Append(q, e)
<1>1. /\ Len(q) \in Nat /\ DOMAIN q = 1 .. Len(q) /\ DOMAIN r = 1 .. Len(q) + 1
      /\ \A i \in 1 .. Len(q) : r[i] = q[i]
      /\ r[Len(q) + 1] = e
    BY AppendFacts
<1> HIDE DEF r
<1>2. Numbers(r) = Numbers(q) \cup {e.n}
    BY <1>1 DEF Numbers
<1>3. ASSUME NEW i \in DOMAIN r, NEW j \in DOMAIN r, i < j
      PROVE  r[i].n < r[j].n
  <2>1. i \in 1 .. Len(q) /\ r[i] = q[i] /\ r[i].n \in Numbers(q)
      BY <1>1, <1>3 DEF Numbers
  <2>2. CASE j = Len(q) + 1
      BY <1>1, <2>1, <2>2
  <2>3. CASE j # Len(q) + 1
    <3>1. j \in 1 .. Len(q) /\ r[j] = q[j]
        BY <1>1, <2>3
    <3>2. QED BY <1>1, <1>3, <2>1, <3>1 DEF InOrder
  <2>4. QED BY <2>2, <2>3
<1>4. QED BY <1>2, <1>3 DEF InOrder, r

(* The head has the least number, and the tail keeps the order.            *)
LEMMA TailInOrder ==
    ASSUME NEW S, NEW q \in Seq(S), q # << >>, InOrder(q)
    PROVE  /\ Numbers(q) = Numbers(Tail(q)) \cup {Head(q).n}
           /\ \A k \in Numbers(Tail(q)) : Head(q).n < k
           /\ InOrder(Tail(q))
<1> DEFINE r == Tail(q)
<1>1. /\ Len(q) \in Nat \ {0} /\ DOMAIN q = 1 .. Len(q) /\ DOMAIN r = 1 .. Len(q) - 1
      /\ \A i \in 1 .. Len(q) - 1 : r[i] = q[i + 1]
      /\ Head(q) = q[1]
    BY TailFacts
<1> HIDE DEF r
<1>2. ASSUME NEW i \in DOMAIN r
      PROVE  i + 1 \in DOMAIN q /\ r[i] = q[i + 1] /\ q[1].n < r[i].n
  <2>1. i + 1 \in DOMAIN q /\ 1 \in DOMAIN q /\ 1 < i + 1 /\ r[i] = q[i + 1]
      BY <1>1
  <2>2. QED BY <2>1 DEF InOrder
<1>3. ASSUME NEW i \in DOMAIN q, i # 1
      PROVE  i - 1 \in DOMAIN r /\ q[i] = r[i - 1]
    BY <1>1, <1>3
<1>4. 1 \in DOMAIN q
    BY <1>1
<1>5. Numbers(q) = Numbers(r) \cup {q[1].n}
  <2>1. Numbers(q) \subseteq Numbers(r) \cup {q[1].n}
      BY <1>3 DEF Numbers
  <2>2. Numbers(r) \cup {q[1].n} \subseteq Numbers(q)
      BY <1>2, <1>4 DEF Numbers
  <2>3. QED BY <2>1, <2>2
<1>6. \A k \in Numbers(r) : q[1].n < k
    BY <1>2 DEF Numbers
<1>7. ASSUME NEW i \in DOMAIN r, NEW j \in DOMAIN r, i < j
      PROVE  r[i].n < r[j].n
  <2>1. /\ i + 1 \in DOMAIN q /\ j + 1 \in DOMAIN q /\ i + 1 < j + 1
        /\ r[i] = q[i + 1] /\ r[j] = q[j + 1]
      BY <1>1, <1>2, <1>7
  <2>2. QED BY <2>1 DEF InOrder
<1>8. QED BY <1>1, <1>5, <1>6, <1>7 DEF InOrder, r

=============================================================================
