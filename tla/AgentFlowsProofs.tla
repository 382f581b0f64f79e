-------------------------- MODULE AgentFlowsProofs --------------------------
(***************************************************************************)
(* Proofs about the flow path of the agent, for any flows, any size of the *)
(* batches, any timeouts and any number of packets, drops and requests     *)
(* given up: that no report is ahead of the kernel, that a flush posts     *)
(* each flow once, and that reports arrive in order.                       *)
(***************************************************************************)
EXTENDS AgentFlows, QueueLemmas, FiniteSetTheorems

-----------------------------------------------------------------------------
(* The inductive invariant.                                                *)

Entries == [packets : Nat, last : Nat]
Reports == [key : Key, age : Nat, packets : Nat]
FlowRecords == [report : Reports, last : Nat]

Types ==
    /\ kernel \in [Key -> Entries \cup {None}]
    /\ now \in Nat
    /\ drops \in [Key -> Nat]
    /\ cache \in [Key -> FlowRecords \cup {None}]
    /\ poller \in [pc : {"select", "iterate", "update"}, left : SUBSET Key,
                   read : FlowRecords \cup {None}]
    /\ flusher \in [flows : Seq(Reports), i : Nat]
    /\ awaited \in Seq(Reports)
    /\ givenUp \subseteq Seq(Reports)
    /\ latest \in [Key -> Reports \cup {None}]

\* What is filed under a key is of that key; the poller has a value in its
\* hands exactly before it files it, and iterates over keys that are there.
Filed ==
    /\ \A k \in Key : /\ cache[k] # None => cache[k].report.key = k
                      /\ latest[k] # None => latest[k].key = k
    /\ poller.read # None => poller.pc = "update"
    /\ poller.pc = "update" => poller.read \in FlowRecords
    /\ poller.left \subseteq Tracked
    /\ poller.pc = "select" => poller.left = {}

\* A report that does not claim more than the kernel has counted.
Behind(r) ==
    \/ r.age < drops[r.key]
    \/ /\ r.age = drops[r.key]
       /\ r.key \in Tracked
       /\ r.packets <= kernel[r.key].packets

\* Where the flusher is: the batch that is awaited is the one at its index.
Cut ==
    /\ flusher.flows = << >> => flusher.i = 0 /\ awaited = << >> /\ unposted = {}
    /\ flusher.flows # << >> => flusher.i < Len(flusher.flows)
    /\ awaited # << >> => awaited = Batch(flusher.i)
    /\ \A j, l \in DOMAIN flusher.flows : flusher.flows[j].key = flusher.flows[l].key => j = l

\* The reports at each stage: with the flusher, in the FlowTable, read by the
\* poller, and taken by the aggregator.
ToSend == {flusher.flows[j] : j \in flusher.i + 1 .. Len(flusher.flows)}
InTable == {cache[k].report : k \in Cached}
Read == {f.report : f \in {poller.read} \ {None}}
Taken == {latest[k] : k \in Key} \ {None}

\* Of two reports of a flow, one in A is not newer than one in B.
NotAfter(r, s) == r.key = s.key => r.age < s.age \/ (r.age = s.age /\ r.packets <= s.packets)
AllBefore(A, B) == \A r \in A, s \in B : NotAfter(r, s)

\* The stages are in order, and the aggregator's is unless a request has been
\* given up.
Ordered ==
    /\ AllBefore(ToSend, InTable \cup Read)
    /\ AllBefore(InTable, Read)
    /\ ~timedOut => givenUp = {} /\ AllBefore(Taken, ToSend \cup InTable \cup Read)

Inv == Types /\ Filed /\ NothingAhead /\ Cut /\ PostsEachFlowOnce /\ Ordered

-----------------------------------------------------------------------------
(* Lemmas about reports and batches.                                       *)

LEMMA BehindFact == NothingAhead <=> \A r \in OnItsWay : Behind(r)
BY DEF NothingAhead, Behind

\* All that is on its way, by where it is.
Stages ==
    InTable \cup Read \cup Taken \cup ToSet(flusher.flows)
    \cup ToSet(awaited) \cup UNION {ToSet(b) : b \in givenUp}

LEMMA OnItsWayParts == OnItsWay = Stages
<1>1. InTable \cup Read = {f.report : f \in ({cache[k] : k \in Key} \cup {poller.read}) \ {None}}
    BY DEF InTable, Read, Cached
<1>2. QED BY <1>1 DEF OnItsWay, Taken, Stages

LEMMA StagesOnTheirWay ==
    ASSUME Types
    PROVE  /\ OnItsWay = Stages
           /\ ToSend \subseteq ToSet(flusher.flows)
           /\ OnItsWay \subseteq Reports
           /\ InTable \cup Read \cup Taken \cup ToSend \subseteq OnItsWay
<1>2. /\ DOMAIN flusher.flows = 1 .. Len(flusher.flows) /\ flusher.flows \in Seq(Reports)
      /\ flusher.i \in Nat /\ Len(flusher.flows) \in Nat
    BY LenProperties DEF Types
<1>3. ToSend \subseteq ToSet(flusher.flows)
    BY <1>2 DEF ToSend, ToSet
<1>4. OnItsWay = Stages
    BY OnItsWayParts
<1>5. InTable \cup Read \cup Taken \subseteq Reports
    BY DEF Types, InTable, Read, Taken, Cached, FlowRecords
<1>6. \A b \in Seq(Reports) : ToSet(b) \subseteq Reports
    BY ElementFacts
<1>7. ToSet(flusher.flows) \cup ToSet(awaited) \cup UNION {ToSet(b) : b \in givenUp} \subseteq Reports
    BY <1>2, <1>6 DEF Types
<1>8. QED BY <1>3, <1>4, <1>5, <1>7 DEF Stages

\* The batch that begins behind the index i.
BatchEnd(i) == Smaller(i + BatchSize, Len(flusher.flows))

LEMMA BatchFacts ==
    ASSUME Types, NEW i \in Nat, i < Len(flusher.flows)
    PROVE  /\ Batch(i) \in Seq(Reports) /\ Batch(i) # << >>
           /\ Len(Batch(i)) = BatchEnd(i) - i
           /\ BatchEnd(i) \in i + 1 .. Len(flusher.flows)
           /\ ToSet(Batch(i)) = {flusher.flows[j] : j \in i + 1 .. BatchEnd(i)}
<1> DEFINE q == flusher.flows
           n == BatchEnd(i)
           b == SubSeq(q, i + 1, n)
<1>1. q \in Seq(Reports) /\ Len(q) \in Nat /\ DOMAIN q = 1 .. Len(q)
      /\ \A j \in 1 .. Len(q) : q[j] \in Reports
    BY LenProperties, ElementOfSeq DEF Types
<1>2. n \in i + 1 .. Len(q) /\ n \in Int /\ i + 1 \in Int
    BY <1>1, BatchesHaveRoom DEF BatchEnd, Smaller
<1> HIDE DEF q, n
<1>3. \A j \in i + 1 .. n : q[j] \in Reports
    BY <1>1, <1>2
<1>4. /\ b \in Seq(Reports)
      /\ Len(b) = IF i + 1 <= n THEN n - (i + 1) + 1 ELSE 0
      /\ \A j \in 1 .. n - (i + 1) + 1 : b[j] = q[i + 1 + j - 1]
    BY <1>2, <1>3, SubSeqProperties
<1> HIDE DEF b
<1>5. Len(b) = n - i /\ Len(b) # 0 /\ DOMAIN b = 1 .. n - i
      /\ \A j \in 1 .. n - i : b[j] = q[i + j]
  <2>1. Len(b) = n - i /\ n - i \in Nat /\ n - i # 0
      BY <1>2, <1>4
  <2>2. DOMAIN b = 1 .. Len(b)
      BY <1>4, LenProperties
  <2>3. \A j \in 1 .. n - i : i + 1 + j - 1 = i + j /\ n - (i + 1) + 1 = n - i
      BY <1>2
  <2>4. QED BY <1>4, <2>1, <2>2, <2>3
<1>6. ToSet(b) = {q[j] : j \in i + 1 .. n}
  <2>1. ASSUME NEW j \in 1 .. n - i PROVE i + j \in i + 1 .. n
      BY <1>2
  <2>2. ASSUME NEW j \in i + 1 .. n PROVE j - i \in 1 .. n - i /\ i + (j - i) = j
      BY <1>2
  <2>3. ToSet(b) \subseteq {q[j] : j \in i + 1 .. n}
      BY <1>5, <2>1 DEF ToSet
  <2>4. {q[j] : j \in i + 1 .. n} \subseteq ToSet(b)
    <3>1. SUFFICES ASSUME NEW j \in i + 1 .. n PROVE q[j] \in ToSet(b)
        OBVIOUS
    <3>2. q[j] = b[j - i] /\ j - i \in DOMAIN b
        BY <1>5, <2>2
    <3>3. QED BY <3>2 DEF ToSet
  <2>5. QED BY <2>3, <2>4
<1>7. b = Batch(i)
    BY DEF b, q, n, Batch, BatchEnd
<1>8. b # << >>
    BY <1>5, EmptyFacts
<1>9. QED BY <1>2, <1>4, <1>5, <1>6, <1>7, <1>8 DEF q, n

LEMMA InitInv == Init => Inv
<1> SUFFICES ASSUME Init PROVE Inv
    OBVIOUS
<1> USE DEF Init
<1>1. << >> \in Seq(Reports) /\ ToSet(<< >>) = {} /\ Len(<< >>) = 0 /\ DOMAIN << >> = {}
    BY EmptyFacts
<1>2. Types /\ Filed
    BY <1>1 DEF Types, Filed, Kernel!Init, Tracked, Kernel!Tracked
<1>3. InTable = {} /\ Read = {} /\ Taken = {} /\ ToSend = {}
    BY <1>1 DEF InTable, Read, Taken, ToSend, Cached
<1>4. NothingAhead
    BY <1>1, <1>2, <1>3, StagesOnTheirWay DEF NothingAhead, Stages
<1>5. Cut /\ PostsEachFlowOnce
    BY <1>1 DEF Cut, PostsEachFlowOnce
<1>6. Ordered
    BY <1>3 DEF Ordered, AllBefore
<1>7. QED BY <1>2, <1>4, <1>5, <1>6 DEF Inv

-----------------------------------------------------------------------------
(* The steps that move no report.                                          *)

LEMMA NothingMoves ==
    ASSUME Inv, Types', Filed',
           UNCHANGED <<cache, latest, flusher, awaited, givenUp, unposted, timedOut>>,
           poller'.read = poller.read,
           \A r \in Reports : Behind(r) => Behind(r)'
    PROVE  Inv'
<1>1. /\ InTable' = InTable /\ Read' = Read /\ Taken' = Taken /\ ToSend' = ToSend
      /\ OnItsWay' = OnItsWay
    BY DEF InTable, Cached, Read, Taken, ToSend, OnItsWay
<1>2. NothingAhead'
  <2>1. OnItsWay \subseteq Reports /\ \A r \in OnItsWay : Behind(r)
      BY StagesOnTheirWay, BehindFact DEF Inv
  <2>2. \A r \in OnItsWay' : Behind(r)'
      BY <1>1, <2>1
  <2>3. QED BY <2>2 DEF NothingAhead, Behind
<1>3. Cut' /\ PostsEachFlowOnce'
    BY DEF Inv, Cut, PostsEachFlowOnce, Batch
<1>4. Ordered'
    BY <1>1 DEF Inv, Ordered
<1>5. QED BY <1>2, <1>3, <1>4 DEF Inv

LEMMA KernelInsertKeepsInv ==
    ASSUME Inv, NEW k \in Key, KernelInsert(k)
    PROVE  Inv'
<1>1. PICK t \in 0 .. now : kernel' = [kernel EXCEPT ![k] = [packets |-> 1, last |-> t]]
    BY DEF KernelInsert, Kernel!Insert
<1>2. /\ k \notin Tracked /\ UNCHANGED <<now, drops, cache, sending, latest>>
      /\ poller' = poller \/ (poller.pc # "select" /\ poller' = [poller EXCEPT !.left = @ \cup {k}])
    BY DEF KernelInsert, Kernel!Insert, Tracked
<1>3. [packets |-> 1, last |-> t] \in Entries
    BY DEF Entries, Inv, Types
<1>4. Tracked' = Tracked \cup {k}
      /\ \A l \in Key : l # k => kernel'[l] = kernel[l]
    BY <1>1, <1>3, NoneIsNoEntry DEF Tracked, Kernel!Tracked, Inv, Types, Entries
<1>5. Types'
    BY <1>1, <1>2, <1>3 DEF Inv, Types, sending
<1>6. Filed' /\ poller'.read = poller.read
    BY <1>2, <1>4 DEF Inv, Types, Filed
<1>7. \A r \in Reports : Behind(r) => Behind(r)'
    BY <1>2, <1>4 DEF Behind, Tracked, Kernel!Tracked
<1>8. QED BY <1>2, <1>5, <1>6, <1>7, NothingMoves DEF sending

LEMMA KernelCountKeepsInv ==
    ASSUME Inv, NEW k \in Key, KernelCount(k)
    PROVE  Inv'
<1>1. /\ k \in Tracked /\ UNCHANGED <<now, drops, cache, poller, sending, latest>>
      /\ \/ kernel' = [kernel EXCEPT ![k].packets = @ + 1]
         \/ \E t \in 0 .. now : kernel' = [kernel EXCEPT ![k].last = t]
    BY DEF KernelCount, Kernel!CountPacket, Kernel!Touch, Tracked
<1>2. k \in Key /\ kernel[k] \in Entries
    BY <1>1 DEF Tracked, Kernel!Tracked, Inv, Types
<1>3. PICK e \in Entries : kernel' = [kernel EXCEPT ![k] = e] /\ kernel[k].packets <= e.packets
  <2>1. CASE kernel' = [kernel EXCEPT ![k].packets = @ + 1]
    <3> DEFINE e == [kernel[k] EXCEPT !.packets = @ + 1]
    <3>1. e \in Entries /\ kernel[k].packets <= e.packets
        BY <1>2 DEF Entries
    <3>2. QED BY <2>1, <3>1
  <2>2. ASSUME NEW t \in 0 .. now, kernel' = [kernel EXCEPT ![k].last = t]
        PROVE  \E e \in Entries : kernel' = [kernel EXCEPT ![k] = e] /\ kernel[k].packets <= e.packets
    <3> DEFINE e == [kernel[k] EXCEPT !.last = t]
    <3>1. t \in Nat
        BY DEF Inv, Types
    <3>2. e \in Entries /\ kernel[k].packets <= e.packets
        BY <1>2, <3>1 DEF Entries
    <3>3. QED BY <2>2, <3>2
  <2>3. QED BY <1>1, <2>1, <2>2
<1>4. \A l \in Key : kernel'[l] = IF l = k THEN e ELSE kernel[l]
    BY <1>3 DEF Inv, Types
<1>5. Tracked' = Tracked
    BY <1>1, <1>3, <1>4, NoneIsNoEntry DEF Tracked, Kernel!Tracked, Entries
<1>6. Types'
    BY <1>1, <1>3 DEF Inv, Types, sending
<1>7. Filed'
    BY <1>1, <1>5 DEF Inv, Filed
<1>8. \A r \in Reports : Behind(r) => Behind(r)'
  <2>1. \A l \in Tracked : kernel[l].packets <= kernel'[l].packets
                           /\ kernel[l].packets \in Nat /\ kernel'[l].packets \in Nat
      BY <1>2, <1>3, <1>4 DEF Tracked, Kernel!Tracked, Inv, Types, Entries
  <2>2. \A r \in Reports : r.packets \in Nat
      BY DEF Reports
  <2>3. QED BY <1>1, <1>5, <2>1, <2>2 DEF Behind
<1>9. QED BY <1>1, <1>6, <1>7, <1>8, NothingMoves DEF sending

LEMMA KernelDropKeepsInv ==
    ASSUME Inv, NEW k \in Key, KernelDrop(k)
    PROVE  Inv'
<1>1. /\ kernel' = [kernel EXCEPT ![k] = None] /\ UNCHANGED <<now, cache, sending, latest>>
      /\ drops' = [drops EXCEPT ![k] = @ + 1]
    BY DEF KernelDrop, Kernel!Evict
<1>2. Tracked' = Tracked \ {k} /\ \A l \in Key : l # k => kernel'[l] = kernel[l]
    BY <1>1 DEF Tracked, Kernel!Tracked, Inv, Types
<1>3. /\ drops'[k] = drops[k] + 1 /\ \A l \in Key : drops[l] \in Nat
      /\ \A l \in Key : l # k => drops'[l] = drops[l]
    BY <1>1 DEF Inv, Types
<1>4. /\ poller' \in [pc : {"select", "iterate", "update"}, left : SUBSET Key,
                      read : FlowRecords \cup {None}]
      /\ poller'.pc = poller.pc /\ poller'.read = poller.read
      /\ poller'.left \subseteq Tracked' /\ (poller.pc = "select" => poller'.left = {})
  <2>1. CASE poller.pc = "select"
      BY <2>1 DEF KernelDrop, Inv, Types, Filed
  <2>2. CASE poller.pc # "select"
    <3>1. PICK l \in {poller.left \ {k}, Tracked \ {k}, {}} : poller' = [poller EXCEPT !.left = l]
        BY <2>2 DEF KernelDrop
    <3>2. l \subseteq Key /\ l \subseteq Tracked \ {k}
        BY <3>1 DEF Inv, Filed, Types, Tracked, Kernel!Tracked
    <3>3. QED BY <1>2, <2>2, <3>1, <3>2 DEF Inv, Types
  <2>3. QED BY <2>1, <2>2
<1>5. Types'
    BY <1>1, <1>4 DEF Inv, Types, sending
<1>6. Filed'
    BY <1>1, <1>4 DEF Inv, Filed
<1>7. \A r \in Reports : Behind(r) => Behind(r)'
  <2>1. \A r \in Reports : r.key \in Key /\ r.age \in Nat
      BY DEF Reports
  <2>2. QED BY <1>2, <1>3, <2>1 DEF Behind
<1>8. QED BY <1>1, <1>4, <1>5, <1>6, <1>7, NothingMoves DEF sending

LEMMA QuietPollsKeepInv ==
    ASSUME Inv, PollTick \/ PollEnd
    PROVE  Inv'
<1>1. UNCHANGED <<kernel, now, drops, cache, sending, latest>> /\ poller'.read = poller.read
      /\ Tracked' = Tracked /\ Tracked \subseteq Key
    BY DEF PollTick, PollEnd, Polling, kernelVars, Inv, Types, Tracked, Kernel!Tracked
<1>2. Types' /\ Filed'
    BY <1>1 DEF PollTick, PollEnd, Inv, Types, Filed, sending
<1>3. \A r \in Reports : Behind(r) => Behind(r)'
    BY <1>1 DEF Behind
<1>4. QED BY <1>1, <1>2, <1>3, NothingMoves DEF sending

LEMMA StutterKeepsInv ==
    ASSUME Inv, UNCHANGED vars
    PROVE  Inv'
<1>1. Types' /\ Filed'
    BY DEF vars, kernelVars, sending, Inv, Types, Filed, Tracked, Kernel!Tracked
<1>2. \A r \in Reports : Behind(r) => Behind(r)'
    BY DEF Behind, vars, kernelVars, Tracked, Kernel!Tracked
<1>3. QED BY <1>1, <1>2, NothingMoves DEF vars, sending

-----------------------------------------------------------------------------
(* The steps that take a report from one stage to the next.                *)

\* NothingAhead, of the next state, for reports that were on their way.
LEMMA StaysBehind ==
    ASSUME Inv, UNCHANGED <<kernel, drops>>, OnItsWay' \subseteq OnItsWay
    PROVE  NothingAhead'
<1>1. \A r \in OnItsWay : Behind(r)
    BY BehindFact DEF Inv
<1>2. \A r : Behind(r) => Behind(r)'
    BY DEF Behind, Tracked, Kernel!Tracked
<1>3. \A r \in OnItsWay' : Behind(r)'
    BY <1>1, <1>2
<1>4. QED BY <1>3 DEF NothingAhead, Behind

\* What the poller reads is the newest report that there is of its flow.
LEMMA PollNextKeepsInv ==
    ASSUME Inv, PollNext
    PROVE  Inv'
<1>1. /\ UNCHANGED <<kernel, now, drops, cache, flusher, awaited, givenUp, unposted, timedOut, latest>>
      /\ poller.pc = "iterate"
    BY DEF PollNext, Polling, kernelVars, sending
<1>2. PICK k \in poller.left :
          poller' = [pc |-> "update", left |-> poller.left \ {k},
                     read |-> [report |-> [key |-> k, age |-> drops[k],
                                           packets |-> kernel[k].packets],
                               last |-> kernel[k].last]]
    BY DEF PollNext
<1>3. k \in Key /\ k \in Tracked /\ kernel[k] \in Entries /\ drops[k] \in Nat
    BY DEF Inv, Types, Filed, Tracked, Kernel!Tracked
<1> DEFINE new == [key |-> k, age |-> drops[k], packets |-> kernel[k].packets]
<1>4. new \in Reports /\ poller'.read \in FlowRecords /\ poller'.read.report = new
    BY <1>2, <1>3 DEF Reports, FlowRecords, Entries
<1>5. new.key = k /\ new.age = drops[k] /\ new.packets = kernel[k].packets
    OBVIOUS
<1> HIDE DEF new
<1>6. /\ InTable' = InTable /\ Taken' = Taken /\ ToSend' = ToSend
      /\ Read = {} /\ Read' \subseteq {new}
    BY <1>1, <1>2, <1>4 DEF InTable, Cached, Read, Taken, ToSend, Inv, Filed
<1>7. Types'
    BY <1>1, <1>2, <1>4 DEF Inv, Types
<1>8. Filed'
    BY <1>1, <1>2, <1>4 DEF Inv, Filed, Tracked, Kernel!Tracked
<1>9. Behind(new)
    BY <1>3, <1>5 DEF Behind, Entries
<1>10. NothingAhead'
  <2>1. OnItsWay' \subseteq OnItsWay \cup {new}
    <3>1. (OnItsWay = Stages)'
        BY OnItsWayParts, PTL
    <3>2. QED BY <1>1, <1>6, <3>1, StagesOnTheirWay DEF Inv, Stages
  <2>2. \A r \in OnItsWay : Behind(r)
      BY BehindFact DEF Inv
  <2>3. \A r : Behind(r) => Behind(r)'
      BY <1>1 DEF Behind, Tracked, Kernel!Tracked
  <2>4. \A r \in OnItsWay' : Behind(r)'
      BY <1>9, <2>1, <2>2, <2>3
  <2>5. QED BY <2>4 DEF NothingAhead, Behind
<1>11. Cut' /\ PostsEachFlowOnce'
    BY <1>1 DEF Inv, Cut, PostsEachFlowOnce, Batch
<1>12. Ordered'
  <2>1. AllBefore(OnItsWay, {new})
    <3>1. \A r \in OnItsWay : Behind(r)
        BY BehindFact DEF Inv
    <3>2. QED BY <1>5, <3>1 DEF AllBefore, NotAfter, Behind
  <2>2. InTable \cup Taken \cup ToSend \subseteq OnItsWay
      BY StagesOnTheirWay DEF Inv
  <2>3. QED BY <1>1, <1>6, <2>1, <2>2 DEF Inv, Ordered, AllBefore
<1>13. QED BY <1>7, <1>8, <1>10, <1>11, <1>12 DEF Inv

\* The FlowTable's report is replaced by one that is not older.
LEMMA PollUpdateKeepsInv ==
    ASSUME Inv, PollUpdate
    PROVE  Inv'
<1>1. /\ UNCHANGED <<kernel, now, drops, flusher, awaited, givenUp, unposted, timedOut, latest>>
      /\ poller.pc = "update"
      /\ poller' = [poller EXCEPT !.pc = "iterate", !.read = None]
      /\ cache' = [cache EXCEPT ![poller.read.report.key] = poller.read]
    BY DEF PollUpdate, Polling, kernelVars, sending, Update
<1>2. PICK f \in FlowRecords : f = poller.read
    BY <1>1 DEF Inv, Filed
<1>3. PICK k \in Key : k = f.report.key
    BY DEF FlowRecords, Reports
<1>4. /\ poller'.pc = "iterate" /\ poller'.read = None /\ poller'.left = poller.left
      /\ poller' \in [pc : {"select", "iterate", "update"}, left : SUBSET Key,
                      read : FlowRecords \cup {None}]
    BY <1>1 DEF Inv, Types
<1>5. /\ cache' \in [Key -> FlowRecords \cup {None}]
      /\ \A l \in Key : cache'[l] = IF l = k THEN f ELSE cache[l]
    BY <1>1, <1>2, <1>3 DEF Inv, Types
<1>6. Types'
    BY <1>1, <1>4, <1>5 DEF Inv, Types
<1>7. Filed'
    BY <1>1, <1>3, <1>4, <1>5 DEF Inv, Filed, Tracked, Kernel!Tracked
<1>8. /\ Taken' = Taken /\ ToSend' = ToSend /\ Read' = {}
      /\ InTable' \subseteq InTable \cup Read
  <2>1. Taken' = Taken /\ ToSend' = ToSend /\ Read' = {}
      BY <1>1, <1>4 DEF Taken, ToSend, Read
  <2>2. ASSUME NEW l \in Key, cache'[l] # None PROVE cache'[l].report \in InTable \cup Read
      BY <1>2, <1>5, <2>2 DEF InTable, Cached, Read
  <2>3. QED BY <2>1, <2>2 DEF InTable, Cached
<1>9. NothingAhead'
  <2>1. (OnItsWay = Stages)'
      BY OnItsWayParts, PTL
  <2>2. OnItsWay' \subseteq OnItsWay
      BY <1>1, <1>8, <2>1, StagesOnTheirWay DEF Inv, Stages
  <2>3. QED BY <1>1, <2>2, StaysBehind
<1>10. Cut' /\ PostsEachFlowOnce'
    BY <1>1 DEF Inv, Cut, PostsEachFlowOnce, Batch
<1>11. Ordered'
    BY <1>1, <1>8 DEF Inv, Ordered, AllBefore
<1>12. QED BY <1>6, <1>7, <1>9, <1>10, <1>11 DEF Inv

LEMMA EvictStaleKeepsInv ==
    ASSUME Inv, EvictStale
    PROVE  Inv'
<1>1. /\ UNCHANGED <<kernel, drops, poller, flusher, awaited, givenUp, unposted, timedOut, latest>>
      /\ now' \in Nat
      /\ cache' \in [Key -> FlowRecords \cup {None}]
      /\ \A k \in Key : cache'[k] \in {cache[k], None}
    BY DEF EvictStale, Cached, sending, Inv, Types
<1>2. Types' /\ Filed'
    BY <1>1 DEF Inv, Types, Filed, Tracked, Kernel!Tracked
<1>3. /\ Taken' = Taken /\ ToSend' = ToSend /\ Read' = Read
      /\ InTable' \subseteq InTable
    BY <1>1 DEF Taken, ToSend, Read, InTable, Cached
<1>4. NothingAhead'
  <2>1. (OnItsWay = Stages)'
      BY OnItsWayParts, PTL
  <2>2. OnItsWay' \subseteq OnItsWay
      BY <1>1, <1>3, <2>1, StagesOnTheirWay DEF Inv, Stages
  <2>3. QED BY <1>1, <2>2, StaysBehind
<1>5. Cut' /\ PostsEachFlowOnce'
    BY <1>1 DEF Inv, Cut, PostsEachFlowOnce, Batch
<1>6. Ordered'
    BY <1>1, <1>3 DEF Inv, Ordered, AllBefore
<1>7. QED BY <1>2, <1>4, <1>5, <1>6 DEF Inv

\* A flush begins with the reports of the FlowTable, each of them once.
LEMMA FlushTickKeepsInv ==
    ASSUME Inv, FlushTick
    PROVE  Inv'
<1>1. /\ UNCHANGED <<kernel, now, drops, cache, poller, awaited, givenUp, timedOut, latest>>
      /\ flusher.flows = << >> /\ Cached # {} /\ unposted' = Cached
    BY DEF FlushTick, kernelVars
<1>2. PICK q \in SetToSeqs({cache[k].report : k \in Cached}) : flusher' = [flows |-> q, i |-> 0]
    BY DEF FlushTick
<1>3. Cached \subseteq Key /\ \A k \in Cached : cache[k] \in FlowRecords /\ cache[k].report.key = k
                                               /\ cache[k].report \in Reports
    BY DEF Cached, Inv, Types, Filed, FlowRecords
<1>4. IsFiniteSet(InTable) /\ InTable \subseteq Reports /\ InTable # {}
  <2>1. IsFiniteSet(Cached)
      BY <1>3, KeysAreFinite, FS_Subset
  <2>2. [k \in Cached |-> cache[k].report] \in Surjection(Cached, InTable)
      BY DEF Surjection, InTable
  <2>3. QED BY <1>1, <1>3, <2>1, <2>2, FS_Surjection DEF InTable
<1>5. /\ q \in Seq(InTable) /\ DOMAIN q = 1 .. Len(q) /\ Len(q) \in Nat
      /\ \A j, l \in DOMAIN q : q[j] = q[l] => j = l
      /\ ToSet(q) = InTable
    BY <1>2, <1>4, PermutationFacts DEF InTable
<1>6. q \in Seq(Reports) /\ q # << >> /\ 0 < Len(q)
  <2>1. q # << >>
      BY <1>4, <1>5, EmptyFacts
  <2>2. q \in Seq(Reports)
      BY <1>4, <1>5, ElementFacts
  <2>3. QED BY <1>5, <2>1, <2>2, EmptySeq
<1>7. /\ flusher'.flows = q /\ flusher'.i = 0
      /\ flusher' \in [flows : Seq(Reports), i : Nat]
    BY <1>2, <1>6
<1>8. \A r, s \in InTable : r.key = s.key => r = s
    BY <1>3 DEF InTable
<1>9. Types' /\ Filed'
    BY <1>1, <1>7 DEF Inv, Types, Filed, Tracked, Kernel!Tracked
<1>10. /\ Taken' = Taken /\ Read' = Read /\ InTable' = InTable
       /\ ToSend' = ToSet(q)
    BY <1>1, <1>5, <1>7 DEF Taken, Read, InTable, Cached, ToSend, ToSet
<1>11. NothingAhead'
  <2>1. (OnItsWay = Stages)'
      BY OnItsWayParts, PTL
  <2>2. OnItsWay' \subseteq OnItsWay
      BY <1>1, <1>5, <1>7, <1>10, <2>1, StagesOnTheirWay DEF Inv, Stages
  <2>3. QED BY <1>1, <2>2, StaysBehind
<1>12. Cut'
  <2>1. awaited = << >>
      BY <1>1 DEF Inv, Cut
  <2>2. ASSUME NEW j \in DOMAIN q, NEW l \in DOMAIN q, q[j].key = q[l].key PROVE j = l
    <3>1. q[j] \in InTable /\ q[l] \in InTable
        BY <1>5 DEF ToSet
    <3>2. QED BY <1>5, <1>8, <2>2, <3>1
  <2>3. QED BY <1>1, <1>6, <1>7, <2>1, <2>2 DEF Cut
<1>13. PostsEachFlowOnce'
  <2>1. awaited' = << >> /\ Len(<< >>) = 0
      BY <1>1, EmptyFacts DEF Inv, Cut
  <2>2. Cached = {q[j].key : j \in 1 .. Len(q)}
    <3>1. Cached = {r.key : r \in InTable}
        BY <1>3 DEF InTable
    <3>2. InTable = {q[j] : j \in 1 .. Len(q)}
        BY <1>5 DEF ToSet
    <3>3. QED BY <3>1, <3>2
  <2>3. 0 + 0 + 1 = 1
      OBVIOUS
  <2>4. QED BY <1>1, <1>7, <2>1, <2>2, <2>3 DEF PostsEachFlowOnce
<1>14. Ordered'
  <2>1. AllBefore(InTable, InTable)
    <3>1. \A r \in InTable : r.packets \in Nat
        BY <1>4 DEF Reports
    <3>2. QED BY <1>8, <3>1 DEF AllBefore, NotAfter
  <2>2. QED BY <1>1, <1>5, <1>10, <2>1 DEF Inv, Ordered, AllBefore
<1>15. QED BY <1>9, <1>11, <1>12, <1>13, <1>14 DEF Inv

-----------------------------------------------------------------------------
(* The requests.                                                           *)

\* A request takes the batch at the index: it is what has not been posted.
LEMMA PostKeepsInv ==
    ASSUME Inv, Post
    PROVE  Inv'
<1>1. /\ UNCHANGED <<kernel, now, drops, cache, poller, flusher, givenUp, timedOut, latest>>
      /\ flusher.flows # << >> /\ awaited = << >> /\ awaited' = Batch(flusher.i)
      /\ unposted' = unposted \ KeysOf(awaited')
    BY DEF Post, kernelVars
<1> DEFINE i == flusher.i
           q == flusher.flows
<1>2. i \in Nat /\ i < Len(q) /\ Len(q) \in Nat /\ DOMAIN q = 1 .. Len(q) /\ q \in Seq(Reports)
    BY <1>1, LenProperties DEF Inv, Types, Cut
<1>3. /\ awaited' \in Seq(Reports)
      /\ Len(awaited') = BatchEnd(i) - i
      /\ BatchEnd(i) \in i + 1 .. Len(q)
      /\ ToSet(awaited') = {q[j] : j \in i + 1 .. BatchEnd(i)}
    BY <1>1, <1>2, BatchFacts DEF Inv
<1>4. Types' /\ Filed'
    BY <1>1, <1>3 DEF Inv, Types, Filed, Tracked, Kernel!Tracked
<1>5. Taken' = Taken /\ Read' = Read /\ InTable' = InTable /\ ToSend' = ToSend
    BY <1>1 DEF Taken, Read, InTable, Cached, ToSend
<1>6. NothingAhead'
  <2>1. ToSet(awaited') \subseteq ToSet(q)
    <3>1. \A j \in i + 1 .. BatchEnd(i) : j \in 1 .. Len(q)
        BY <1>2, <1>3
    <3>2. \A j \in i + 1 .. BatchEnd(i) : q[j] \in ToSet(q)
        BY <1>2, <3>1 DEF ToSet
    <3>3. QED BY <1>3, <3>2
  <2>2. (OnItsWay = Stages)'
      BY OnItsWayParts, PTL
  <2>3. OnItsWay' \subseteq OnItsWay
      BY <1>1, <1>5, <2>1, <2>2, OnItsWayParts DEF Stages
  <2>4. QED BY <1>1, <2>3, StaysBehind
<1>7. Cut'
    BY <1>1 DEF Inv, Cut, Batch
<1>8. PostsEachFlowOnce'
  <2>1. unposted = {q[j].key : j \in i + 1 .. Len(q)}
      BY <1>1, <1>2, EmptyFacts DEF Inv, PostsEachFlowOnce
  <2>2. KeysOf(awaited') = {q[j].key : j \in i + 1 .. BatchEnd(i)}
      BY <1>3 DEF KeysOf
  <2>3. \A j, l \in 1 .. Len(q) : q[j].key = q[l].key => j = l
      BY <1>2 DEF Inv, Cut
  <2>4. unposted' = {q[j].key : j \in BatchEnd(i) + 1 .. Len(q)}
    <3>1. \A j : j \in i + 1 .. Len(q) => j \in 1 .. Len(q)
        BY <1>2
    <3>2. \A j : j \in i + 1 .. Len(q)
                 <=> j \in i + 1 .. BatchEnd(i) \/ j \in BatchEnd(i) + 1 .. Len(q)
        BY <1>2, <1>3
    <3>3. \A j : ~(j \in i + 1 .. BatchEnd(i) /\ j \in BatchEnd(i) + 1 .. Len(q))
        BY <1>2, <1>3
    <3>4. ASSUME NEW k PROVE k \in unposted' <=> k \in {q[j].key : j \in BatchEnd(i) + 1 .. Len(q)}
      <4> HIDE DEF q, i
      <4>1. k \in unposted' <=> k \in unposted /\ k \notin KeysOf(awaited')
          BY <1>1
      <4>2. ASSUME NEW j \in BatchEnd(i) + 1 .. Len(q), k = q[j].key PROVE k \in unposted'
          BY <2>1, <2>2, <2>3, <3>1, <3>2, <3>3, <4>1, <4>2
      <4>3. ASSUME k \in unposted' PROVE k \in {q[j].key : j \in BatchEnd(i) + 1 .. Len(q)}
          BY <2>1, <2>2, <3>2, <4>1, <4>3
      <4>4. QED BY <4>2, <4>3
    <3>5. QED BY <3>4
  <2>5. i + Len(awaited') + 1 = BatchEnd(i) + 1
      BY <1>2, <1>3
  <2>6. QED BY <1>1, <2>4, <2>5 DEF PostsEachFlowOnce
<1>9. Ordered'
    BY <1>1, <1>5 DEF Inv, Ordered
<1>10. QED BY <1>4, <1>6, <1>7, <1>8, <1>9 DEF Inv

\* Where the end of a request leaves the flusher.
LEMMA AnsweredFacts ==
    ASSUME Inv, Answered
    PROVE  /\ flusher' \in [flows : Seq(Reports), i : Nat] /\ awaited' = << >>
           /\ ToSet(awaited) \subseteq ToSend
           /\ ToSet(flusher'.flows) \subseteq ToSet(flusher.flows)
           /\ ToSend' \subseteq ToSend
           /\ \A r \in ToSend' : r.key \notin KeysOf(awaited)
           /\ Cut' /\ PostsEachFlowOnce'
<1>1. awaited # << >> /\ awaited' = << >> /\ unposted' = unposted /\ NextBatch(flusher.i)
    BY DEF Answered
<1> DEFINE i == flusher.i
           q == flusher.flows
<1>2. /\ i \in Nat /\ i < Len(q) /\ Len(q) \in Nat /\ DOMAIN q = 1 .. Len(q) /\ q \in Seq(Reports)
      /\ awaited = Batch(i) /\ q # << >>
    BY <1>1, LenProperties DEF Inv, Types, Cut
<1>3. /\ Len(awaited) = BatchEnd(i) - i
      /\ BatchEnd(i) \in i + 1 .. Len(q)
      /\ ToSet(awaited) = {q[j] : j \in i + 1 .. BatchEnd(i)}
    BY <1>2, BatchFacts DEF Inv
<1>4. \A j, l \in 1 .. Len(q) : q[j].key = q[l].key => j = l
    BY <1>2 DEF Inv, Cut
<1>5. ToSet(awaited) \subseteq ToSend
    BY <1>2, <1>3 DEF ToSend
<1>6. unposted = {q[j].key : j \in BatchEnd(i) + 1 .. Len(q)}
  <2>1. i + Len(awaited) + 1 = BatchEnd(i) + 1
      BY <1>2, <1>3
  <2>2. QED BY <2>1 DEF Inv, PostsEachFlowOnce
<1>7. CASE i + BatchSize < Len(q)
  <2>1. flusher' = [flusher EXCEPT !.i = i + BatchSize]
      BY <1>1, <1>7 DEF NextBatch
  <2>2. i + BatchSize \in Nat /\ BatchEnd(i) = i + BatchSize
      BY <1>2, <1>7, BatchesHaveRoom DEF BatchEnd, Smaller
  <2>3. /\ flusher'.flows = q /\ flusher'.i = BatchEnd(i)
        /\ flusher' \in [flows : Seq(Reports), i : Nat]
      BY <2>1, <2>2 DEF Inv, Types
  <2>4. ToSend' = {q[j] : j \in BatchEnd(i) + 1 .. Len(q)}
      BY <2>3 DEF ToSend
  <2>5. \A j \in BatchEnd(i) + 1 .. Len(q), l \in i + 1 .. BatchEnd(i) :
            j \in i + 1 .. Len(q) /\ j \in 1 .. Len(q) /\ l \in 1 .. Len(q) /\ j # l
      BY <1>2, <1>3
  <2>6. ToSend' \subseteq ToSend
    <3>1. ToSend = {q[j] : j \in i + 1 .. Len(q)}
        BY DEF ToSend
    <3>2. \A j \in BatchEnd(i) + 1 .. Len(q) : j \in i + 1 .. Len(q)
        BY <1>2, <1>3
    <3>3. QED BY <2>4, <3>1, <3>2
  <2>7. \A r \in ToSend' : r.key \notin KeysOf(awaited)
      BY <1>3, <1>4, <2>4, <2>5 DEF KeysOf
  <2>8. Cut'
      BY <1>1, <1>2, <1>4, <1>7, <2>2, <2>3 DEF Cut
  <2>9. PostsEachFlowOnce'
    <3>1. awaited' = << >> /\ Len(<< >>) = 0 /\ BatchEnd(i) + 0 + 1 = BatchEnd(i) + 1
        BY <1>1, <2>2, EmptyFacts
    <3>2. QED BY <1>1, <1>6, <2>3, <3>1 DEF PostsEachFlowOnce
  <2>10. QED BY <1>1, <1>5, <2>3, <2>6, <2>7, <2>8, <2>9
<1>8. CASE ~(i + BatchSize < Len(q))
  <2>1. flusher' = [flows |-> << >>, i |-> 0]
      BY <1>1, <1>8 DEF NextBatch
  <2>2. << >> \in Seq(Reports) /\ ToSet(<< >>) = {} /\ Len(<< >>) = 0 /\ DOMAIN << >> = {}
      BY EmptyFacts
  <2>3. BatchEnd(i) = Len(q)
      BY <1>2, <1>8, BatchesHaveRoom DEF BatchEnd, Smaller
  <2>4. ToSend' = {}
      BY <2>1, <2>2 DEF ToSend
  <2>5. unposted = {}
    <3>1. Len(q) + 1 .. Len(q) = {}
        BY <1>2
    <3>2. QED BY <1>6, <2>3, <3>1
  <2>6. Cut'
      BY <1>1, <2>1, <2>2, <2>5 DEF Cut
  <2>7. PostsEachFlowOnce'
    <3>1. 0 + 0 + 1 .. 0 = {}
        OBVIOUS
    <3>2. QED BY <1>1, <2>1, <2>2, <2>5, <3>1 DEF PostsEachFlowOnce
  <2>8. QED BY <1>1, <1>5, <2>1, <2>2, <2>4, <2>6, <2>7
<1>9. QED BY <1>7, <1>8

\* What a request does to the aggregator's reports.
LEMMA ObserveFacts ==
    ASSUME Types, NEW b \in Seq(Reports), Observe(b) \/ UNCHANGED latest
    PROVE  /\ latest' \in [Key -> Reports \cup {None}]
           /\ \A k \in Key : \/ latest'[k] = latest[k]
                             \/ latest'[k] \in ToSet(b) /\ latest'[k].key = k
           /\ Taken' \subseteq Taken \cup ToSet(b)
<1>1. ToSet(b) \subseteq Reports
    BY ElementFacts
<1>2. ASSUME Observe(b), NEW k \in Key
      PROVE  /\ latest'[k] \in Reports \cup {None}
             /\ latest'[k] = latest[k] \/ (latest'[k] \in ToSet(b) /\ latest'[k].key = k)
  <2>1. CASE k \in KeysOf(b)
    <3>1. \E r \in ToSet(b) : r.key = k
        BY <2>1 DEF KeysOf
    <3>2. latest'[k] = CHOOSE r \in ToSet(b) : r.key = k
        BY <1>2, <2>1 DEF Observe
    <3>3. QED BY <1>1, <3>1, <3>2
  <2>2. CASE k \notin KeysOf(b)
    <3>1. latest'[k] = latest[k]
        BY <1>2, <2>2 DEF Observe
    <3>2. QED BY <3>1 DEF Types
  <2>3. QED BY <2>1, <2>2
<1>3. latest' \in [Key -> Reports \cup {None}]
  <2>1. CASE Observe(b)
    <3>1. latest' = [k \in Key |-> latest'[k]]
        BY <2>1 DEF Observe
    <3>2. QED BY <1>2, <2>1, <3>1
  <2>2. CASE UNCHANGED latest
      BY <2>2 DEF Types
  <2>3. QED BY <2>1, <2>2
<1>4. \A k \in Key : latest'[k] = latest[k] \/ (latest'[k] \in ToSet(b) /\ latest'[k].key = k)
    BY <1>2
<1>5. Taken' \subseteq Taken \cup ToSet(b)
    BY <1>4 DEF Taken
<1>6. QED BY <1>3, <1>4, <1>5

\* A request ends: taken, lost, or given up and still under way.
LEMMA EndOfRequestKeepsInv ==
    ASSUME Inv, Answered, Observe(awaited) \/ UNCHANGED latest,
           givenUp' \subseteq givenUp \cup {awaited},
           ~timedOut' => ~timedOut /\ givenUp' = givenUp
    PROVE  Inv'
<1>1. UNCHANGED <<kernel, now, drops, cache, poller>>
    BY DEF Answered, kernelVars
<1>2. /\ flusher' \in [flows : Seq(Reports), i : Nat] /\ awaited' = << >>
      /\ ToSet(awaited) \subseteq ToSend
      /\ ToSet(flusher'.flows) \subseteq ToSet(flusher.flows)
      /\ ToSend' \subseteq ToSend
      /\ \A r \in ToSend' : r.key \notin KeysOf(awaited)
      /\ Cut' /\ PostsEachFlowOnce'
    BY AnsweredFacts
<1>3. awaited \in Seq(Reports)
    BY DEF Inv, Types
<1>4. /\ latest' \in [Key -> Reports \cup {None}]
      /\ \A k \in Key : \/ latest'[k] = latest[k]
                        \/ latest'[k] \in ToSet(awaited) /\ latest'[k].key = k
      /\ Taken' \subseteq Taken \cup ToSet(awaited)
    BY <1>3, ObserveFacts DEF Inv
<1>5. << >> \in Seq(Reports) /\ ToSet(<< >>) = {}
    BY EmptyFacts
<1>6. Types'
    BY <1>1, <1>2, <1>3, <1>4, <1>5 DEF Inv, Types
<1>7. Filed'
    BY <1>1, <1>4 DEF Inv, Filed, Tracked, Kernel!Tracked
<1>8. Read' = Read /\ InTable' = InTable
    BY <1>1 DEF Read, InTable, Cached
<1>9. NothingAhead'
  <2>1. (OnItsWay = Stages)'
      BY OnItsWayParts, PTL
  <2>2. UNION {ToSet(b) : b \in givenUp'}
            \subseteq ToSet(awaited) \cup UNION {ToSet(b) : b \in givenUp}
    <3>1. \A b \in givenUp' : b \in givenUp \/ b = awaited
        OBVIOUS
    <3>2. QED BY <3>1
  <2>3. OnItsWay' \subseteq OnItsWay
      BY <1>2, <1>4, <1>5, <1>8, <2>1, <2>2, OnItsWayParts DEF Stages
  <2>4. QED BY <1>1, <2>3, StaysBehind
<1>10. Ordered'
  <2>1. AllBefore(ToSend', InTable' \cup Read') /\ AllBefore(InTable', Read')
      BY <1>2, <1>8 DEF Inv, Ordered, AllBefore
  <2>2. ASSUME ~timedOut' PROVE givenUp' = {} /\ AllBefore(Taken', ToSend' \cup InTable' \cup Read')
    <3>1. givenUp' = {} /\ AllBefore(Taken, ToSend \cup InTable \cup Read)
        BY <2>2 DEF Inv, Ordered
    <3>2. AllBefore(Taken, ToSend' \cup InTable' \cup Read')
        BY <1>2, <1>8, <3>1 DEF AllBefore
    <3>3. AllBefore(ToSet(awaited), InTable' \cup Read')
        BY <1>2, <1>8 DEF Inv, Ordered, AllBefore
    <3>4. AllBefore(ToSet(awaited), ToSend')
        BY <1>2 DEF AllBefore, NotAfter, KeysOf
    <3>5. QED BY <1>4, <3>1, <3>2, <3>3, <3>4 DEF AllBefore
  <2>3. QED BY <2>1, <2>2 DEF Ordered
<1>11. QED BY <1>2, <1>6, <1>7, <1>9, <1>10 DEF Inv

LEMMA SendKeepsInv ==
    ASSUME Inv, SendTaken \/ SendLost \/ SendTimesOut
    PROVE  Inv'
<1>1. CASE SendTaken
    BY <1>1, EndOfRequestKeepsInv DEF SendTaken
<1>2. CASE SendLost
    BY <1>2, EndOfRequestKeepsInv DEF SendLost
<1>3. CASE SendTimesOut
    BY <1>3, EndOfRequestKeepsInv DEF SendTimesOut
<1>4. QED BY <1>1, <1>2, <1>3

\* A request that comes late has been given up, and so one has timed out.
LEMMA LateArrivalKeepsInv ==
    ASSUME Inv, NEW b \in givenUp, LateArrival(b)
    PROVE  Inv'
<1>1. /\ UNCHANGED <<kernel, now, drops, cache, poller, flusher, awaited, unposted, timedOut>>
      /\ givenUp' = givenUp \ {b} /\ (Observe(b) \/ UNCHANGED latest)
    BY DEF LateArrival, kernelVars
<1>2. b \in Seq(Reports) /\ timedOut
    BY DEF Inv, Types, Ordered
<1>3. /\ latest' \in [Key -> Reports \cup {None}]
      /\ \A k \in Key : \/ latest'[k] = latest[k]
                        \/ latest'[k] \in ToSet(b) /\ latest'[k].key = k
      /\ Taken' \subseteq Taken \cup ToSet(b)
    BY <1>1, <1>2, ObserveFacts DEF Inv
<1>4. Types'
    BY <1>1, <1>3 DEF Inv, Types
<1>5. Filed'
    BY <1>1, <1>3 DEF Inv, Filed, Tracked, Kernel!Tracked
<1>6. Read' = Read /\ InTable' = InTable /\ ToSend' = ToSend
    BY <1>1 DEF Read, InTable, Cached, ToSend
<1>7. NothingAhead'
  <2>1. (OnItsWay = Stages)'
      BY OnItsWayParts, PTL
  <2>2. /\ UNION {ToSet(c) : c \in givenUp'} \subseteq UNION {ToSet(c) : c \in givenUp}
        /\ ToSet(b) \subseteq UNION {ToSet(c) : c \in givenUp}
      BY <1>1
  <2>3. OnItsWay' \subseteq OnItsWay
      BY <1>1, <1>3, <1>6, <2>1, <2>2, OnItsWayParts DEF Stages
  <2>4. QED BY <1>1, <2>3, StaysBehind
<1>8. Cut' /\ PostsEachFlowOnce'
    BY <1>1 DEF Inv, Cut, PostsEachFlowOnce, Batch
<1>9. Ordered'
    BY <1>1, <1>2, <1>6 DEF Inv, Ordered
<1>10. QED BY <1>4, <1>5, <1>7, <1>8, <1>9 DEF Inv

-----------------------------------------------------------------------------
(* The theorems.                                                           *)

LEMMA NextKeepsInv == Inv /\ [Next]_vars => Inv'
<1> SUFFICES ASSUME Inv, [Next]_vars PROVE Inv'
    OBVIOUS
<1>1. CASE KernelStep
    BY <1>1, KernelInsertKeepsInv, KernelCountKeepsInv, KernelDropKeepsInv DEF KernelStep
<1>2. CASE Poll
    BY <1>2, QuietPollsKeepInv, PollNextKeepsInv, PollUpdateKeepsInv DEF Poll
<1>3. CASE FlushTick
    BY <1>3, FlushTickKeepsInv
<1>4. CASE Send
    BY <1>4, PostKeepsInv, SendKeepsInv DEF Send
<1>5. CASE EvictStale
    BY <1>5, EvictStaleKeepsInv
<1>6. CASE \E b \in givenUp : LateArrival(b)
    BY <1>6, LateArrivalKeepsInv
<1>7. CASE UNCHANGED vars
    BY <1>7, StutterKeepsInv
<1>8. QED BY <1>1, <1>2, <1>3, <1>4, <1>5, <1>6, <1>7 DEF Next

(* What the theorems rest on: the agent's records are of the types that    *)
(* they are given, and the reports of a flow are in the order of its       *)
(* stages (EBPFAgent's pollFlowMaps, FlowTable and flushFlows).            *)
THEOREM InvHolds == Spec => []Inv
BY InitInv, NextKeepsInv, PTL DEF Spec

(* No report that the agent holds, sends, or has lost sight of claims more *)
(* of a flow than the kernel has counted in the entry it was read from:    *)
(* pollFlowMaps replaces the counts of a flow, and never adds to them.     *)
THEOREM ReportsNotAhead == Spec => []NothingAhead
<1>1. Inv => NothingAhead
    BY DEF Inv
<1>2. QED BY <1>1, InvHolds, PTL

(* The loop of flushFlows cuts its batches so that, whatever becomes of    *)
(* the requests, each flow drained is posted once and only once.           *)
THEOREM FlushesPostOnce == Spec => []PostsEachFlowOnce
<1>1. Inv => PostsEachFlowOnce
    BY DEF Inv
<1>2. QED BY <1>1, InvHolds, PTL

(* flushFlows sends its batches one after another, and so the aggregator   *)
(* never gets an older report of a flow after a newer one unless the HTTP  *)
(* client has given up a request that was still under way.                 *)
THEOREM ReportsInOrder == Spec => InOrderUnlessTimedOut
<1> DEFINE P == \A k \in Key : latest[k] # None /\ Older(latest'[k], latest[k]) => timedOut
<1>1. ASSUME Inv, [Next]_vars PROVE P
  <2>1. SUFFICES ASSUME NEW k \in Key, latest[k] # None, Older(latest'[k], latest[k]), ~timedOut
                 PROVE  FALSE
      BY DEF P
  <2>2. latest[k] \in Reports /\ latest[k].key = k /\ latest[k] \in Taken
      BY <1>1, <2>1 DEF Inv, Types, Filed, Taken
  <2>3. latest'[k] # latest[k]
      BY <2>1, <2>2 DEF Older, Reports
  <2>4. givenUp = {} /\ AllBefore(Taken, ToSend)
      BY <1>1, <2>1 DEF Inv, Ordered, AllBefore
  <2>5. SendTaken
      BY <1>1, <2>3, <2>4 DEF Next, KernelStep, KernelInsert, KernelCount, KernelDrop, Poll, PollTick,
                        PollNext, PollUpdate, PollEnd, Polling, FlushTick, Send, Post, SendLost,
                        SendTimesOut, EvictStale, vars
  <2>6. latest'[k] \in ToSet(awaited) /\ latest'[k].key = k
    <3>1. awaited \in Seq(Reports) /\ Types
        BY <1>1 DEF Inv, Types
    <3>2. QED BY <2>3, <2>5, <3>1, ObserveFacts DEF SendTaken
  <2>7. latest'[k] \in ToSend
      BY <1>1, <2>5, <2>6, AnsweredFacts DEF SendTaken
  <2>8. latest'[k] \in Reports
      BY <1>1, <2>7, StagesOnTheirWay DEF Inv
  <2>9. NotAfter(latest[k], latest'[k])
      BY <2>2, <2>4, <2>7 DEF AllBefore
  <2>10. QED BY <2>1, <2>2, <2>6, <2>8, <2>9 DEF NotAfter, Older, Reports
<1>2. QED BY <1>1, InvHolds, PTL DEF Spec, InOrderUnlessTimedOut

=============================================================================
