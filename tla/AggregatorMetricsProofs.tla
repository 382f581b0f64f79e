---------------------- MODULE AggregatorMetricsProofs ----------------------
(***************************************************************************)
(* Proofs about the metric path of the aggregator, for any nodes, tenants, *)
(* reports, capacity of the channel and number of arrivals: that a metric  *)
(* is in one place at a time, that a node goes back in time only if its    *)
(* requests have overtaken each other, and what the assignments to the map *)
(* can do to a round that ranges over it at the same time.                 *)
(***************************************************************************)
EXTENDS AggregatorMetrics, QueueLemmas, FiniteSetTheorems

-----------------------------------------------------------------------------
(* The inductive invariant, in six parts.                                 *)

Copy == [node : Node, tenant : Tenant \cup {None}, from : SUBSET (Metric \cup {Zero})]
WorkerState == [pc : {"select", "store", "stopped"}, m : Metric \cup {None}]
ComputerState == [pc : {"select", "iterate", "copy", "stopped"},
                  left : SUBSET Node, at : Node \cup {None},
                  from : SUBSET (Metric \cup {Zero}), used : SUBSET Copy]
RoundState == [start : [Node -> Metric \cup {None, Zero}], moved : BOOLEAN]

Types ==
    /\ metricCh \in Seq(Metric) /\ Len(metricCh) <= MetricChCap
    /\ received \in 0 .. MaxMetrics /\ overtaken \subseteq Node
    /\ worker \in WorkerState
    /\ pending \in Seq(Nat)
    /\ attempts \in [1 .. MaxMetrics -> Nat]
    /\ nodeMetrics \in [Node -> Metric \cup {None, Zero}]
    /\ newest \in [Node -> Metric \cup {None}]
    /\ computer \in ComputerState /\ round \in RoundState
    /\ growing \in BOOLEAN /\ cancelled \in BOOLEAN /\ crashed \in BOOLEAN

\* The metric that is on its way to the list, and those that were in a write.
Hand == IF worker.pc = "store" THEN {worker.m.n} ELSE {}
Written == {n \in 1 .. MaxMetrics : attempts[n] > 0}
Queued == Numbers(metricCh)
Listed == ToSet(pending)

\* Each accepted metric is in one of five places.
Places ==
    /\ Queued \cup Hand \cup Listed \cup Written \cup dropped = 1 .. received
    /\ Queued \cap (Hand \cup Listed \cup Written \cup dropped) = {}
    /\ Hand \cap (Listed \cup Written \cup dropped) = {}
    /\ Listed \cap (Written \cup dropped) = {}
    /\ Written \cap dropped = {}
    /\ failed \subseteq Written
    /\ InOrder(metricCh)
    /\ IsInjective(pending)
    /\ \A n \in 1 .. MaxMetrics : attempts[n] <= 1

\* The metrics of a node are taken and filed in the order of their arrival.
Filing ==
    /\ worker.pc = "store" => worker.m # None
    /\ \A x \in Node : nodeMetrics[x] \in Metric => nodeMetrics[x].node = x
    /\ \A x \in Node : newest[x] # None =>
           newest[x].n <= received /\ \A q \in Queued : newest[x].n < q
    /\ worker.pc # "store" => nodeMetrics = newest
    /\ worker.pc = "store" =>
           /\ newest = File(nodeMetrics, worker.m)
           /\ nodeMetrics[worker.m.node] # None
           /\ nodeMetrics[worker.m.node] \in Metric =>
                  nodeMetrics[worker.m.node].n < worker.m.n

\* The metrics of a node whose requests have not overtaken each other are
\* taken in the order of their Timestamps.
Times ==
    /\ \A i \in 1 .. Len(metricCh) :
           LET m == metricCh[i] IN
           m.node \notin overtaken /\ newest[m.node] # None => newest[m.node].at <= m.at
    /\ \A i, j \in 1 .. Len(metricCh) :
           i < j /\ metricCh[i].node = metricCh[j].node /\ metricCh[i].node \notin overtaken =>
               metricCh[i].at <= metricCh[j].at

\* What a copy of node x may have words of.
Fresh(x, from) ==
    /\ \A v \in from \ {Zero} :
           /\ v.node = x
           /\ round.start[x] \in Metric => v.n >= round.start[x].n
    /\ Zero \in from => round.moved \/ round.start[x] = Zero

\* What holds of the map and the round while entries are only replaced.
Start ==
    \A x \in Node :
        /\ round.start[x] \in Metric =>
               nodeMetrics[x] \in Metric /\ nodeMetrics[x].n >= round.start[x].n
        /\ round.start[x] = None /\ x \in KnownNodes => round.moved

\* Outside its rounds the loop holds no copies.
Idle == ~Ranging => computer.used = {} /\ computer.at = None

\* A round visits nodes it has not used, and forgets none unless some moved.
Round ==
    Ranging =>
        /\ Start
        /\ computer.left \subseteq KnownNodes
        /\ computer.pc = "iterate" => computer.at = None
        /\ computer.pc = "copy" =>
               computer.at \in KnownNodes \ computer.left /\ Fresh(computer.at, computer.from)
        /\ \A c \in computer.used :
               /\ c.node \in KnownNodes \ (computer.left \cup {computer.at})
               /\ Fresh(c.node, c.from)
               /\ \A v \in c.from \ {Zero} : c.from = {v} => c.tenant = v.tenant
        /\ \A c, d \in computer.used : c.node = d.node => c = d
        /\ \A x \in KnownNodes \ (computer.left \cup {computer.at}) :
               round.moved \/ \E c \in computer.used : c.node = x

Inv == Types /\ Places /\ Filing /\ Times /\ Idle /\ Round

LEMMA InitInv == Init => Inv
<1> SUFFICES ASSUME Init PROVE Inv
    OBVIOUS
<1> USE DEF Init, NoRound
<1>1. Types
  <2>1. /\ metricCh \in Seq(Metric) /\ Len(metricCh) <= MetricChCap /\ pending \in Seq(Nat)
        /\ received \in 0 .. MaxMetrics
      BY EmptyFacts, MetricChHasRoom, ArrivalsAreBounded
  <2>2. computer \in ComputerState
      BY DEF ComputerState
  <2>3. round \in RoundState /\ worker \in WorkerState
      BY DEF RoundState, WorkerState
  <2>4. cancelled \in BOOLEAN /\ crashed \in BOOLEAN /\ growing \in BOOLEAN
      OBVIOUS
  <2>5. QED BY <2>1, <2>2, <2>3, <2>4 DEF Types
<1>2. Hand = {} /\ Written = {} /\ Queued = {} /\ Listed = {}
    BY EmptyFacts DEF Hand, Written, Queued, Listed, Numbers
<1>3. InOrder(metricCh) /\ IsInjective(pending)
    BY EmptyFacts DEF InOrder, IsInjective
<1>4. Places
    BY <1>2, <1>3 DEF Places
<1>5. Filing /\ Times /\ Idle /\ Round
    BY NoneIsNoValue, EmptyFacts DEF Filing, Times, Idle, Round, Ranging
<1>6. QED BY <1>1, <1>4, <1>5 DEF Inv

-----------------------------------------------------------------------------
(* The handlers and processMetrics.                                        *)

(* A metric that arrives has the greatest number so far, and if it is      *)
(* older than one of its node then its node counts as overtaken.           *)
LEMMA ArrivalKeepsInv ==
    ASSUME Inv, NEW r \in Reports, IngestNodeMetrics(r)
    PROVE  Inv'
<1> DEFINE m == [n |-> received + 1, at |-> r.at, node |-> r.node, tenant |-> r.tenant]
<1>1. /\ UNCHANGED <<worker, pending, attempts, failed, nodeMetrics, newest, growing, computer,
                     round, cancelled, crashed>>
      /\ received' = received + 1 /\ received \in Nat /\ received' \in 0 .. MaxMetrics
    BY ArrivalsAreBounded DEF IngestNodeMetrics, working, computing, Inv, Types
<1>2. m \in Metric /\ m.n = received'
    BY <1>1, ReportsAreTyped DEF Metric
<1>3. \/ /\ Len(metricCh) < MetricChCap /\ metricCh' = Append(metricCh, m) /\ dropped' = dropped
         /\ overtaken' = IF Overtaken(m) THEN overtaken \cup {m.node} ELSE overtaken
      \/ /\ metricCh' = metricCh /\ dropped' = dropped \cup {received'}
         /\ overtaken' = overtaken
    BY <1>1 DEF IngestNodeMetrics
<1> HIDE DEF m
<1>4. /\ \A k \in Queued \cup Hand \cup Listed \cup Written \cup dropped :
             k \in Nat /\ k < received'
      /\ 1 .. received' = (1 .. received) \cup {received'}
    BY <1>1 DEF Inv, Places
<1>5. Hand' = Hand /\ Written' = Written /\ Listed' = Listed
    BY <1>1 DEF Hand, Written, Listed
<1>6. Round' /\ Idle'
    BY <1>1 DEF Inv, Round, Idle, Ranging, Start, Fresh, KnownNodes
<1>7. CASE /\ Len(metricCh) < MetricChCap /\ metricCh' = Append(metricCh, m) /\ dropped' = dropped
           /\ overtaken' = IF Overtaken(m) THEN overtaken \cup {m.node} ELSE overtaken
  <2>1. Queued' = Queued \cup {received'} /\ InOrder(metricCh')
      BY <1>2, <1>4, <1>7, AppendInOrder DEF Inv, Types, Places, Queued
  <2>2. /\ metricCh' \in Seq(Metric) /\ Len(metricCh') <= MetricChCap /\ overtaken' \subseteq Node
        /\ Len(metricCh) \in Nat /\ Len(metricCh') = Len(metricCh) + 1
        /\ \A i \in 1 .. Len(metricCh) : metricCh'[i] = metricCh[i] /\ metricCh[i] \in ToSet(metricCh)
        /\ metricCh'[Len(metricCh) + 1] = m
    <3>1. metricCh \in Seq(Metric) /\ overtaken \subseteq Node /\ m.node \in Node
        BY <1>2 DEF Inv, Types, Metric
    <3>2. /\ metricCh' \in Seq(Metric) /\ Len(metricCh) \in Nat
          /\ Len(metricCh') = Len(metricCh) + 1 /\ DOMAIN metricCh = 1 .. Len(metricCh)
          /\ \A i \in 1 .. Len(metricCh) : metricCh'[i] = metricCh[i]
          /\ metricCh'[Len(metricCh) + 1] = m
        BY <1>2, <1>7, <3>1, AppendFacts
    <3>3. \A i \in 1 .. Len(metricCh) : metricCh[i] \in ToSet(metricCh)
        BY <3>2 DEF ToSet
    <3>4. QED BY <1>7, <3>1, <3>2, <3>3, MetricChHasRoom
  <2>3. Types'
      BY <1>1, <2>2 DEF Inv, Types
  <2>4. Places'
      BY <1>1, <1>4, <1>5, <1>7, <2>1 DEF Inv, Places
  <2>5. \A x \in Node : newest[x] # None =>
            newest[x].n <= received' /\ \A q \in Queued' : newest[x].n < q
    <3> SUFFICES ASSUME NEW x \in Node, newest[x] # None
                 PROVE  newest[x].n <= received' /\ \A q \in Queued' : newest[x].n < q
        OBVIOUS
    <3>1. newest[x].n \in Nat
        BY DEF Inv, Types, Metric
    <3>2. newest[x].n < received'
        BY <1>1, <3>1 DEF Inv, Filing
    <3>3. QED BY <1>1, <2>1, <3>1, <3>2 DEF Inv, Filing
  <2>6. Filing'
      BY <1>1, <2>5 DEF Inv, Filing
  <2>7. overtaken \subseteq overtaken'
      BY <1>7
  <2>8. ASSUME m.node \notin overtaken'
        PROVE  /\ newest[m.node] # None => newest[m.node].at <= m.at
               /\ \A i \in 1 .. Len(metricCh) :
                      metricCh[i].node = m.node => metricCh[i].at <= m.at
    <3>1. ~Overtaken(m)
        BY <1>7, <2>8
    <3>2. \A i \in 1 .. Len(metricCh) : metricCh[i] \in Metric
        BY ElementFacts DEF Inv, Types
    <3>3. m.at \in Nat /\ m.node \in Node /\ \A x \in Node : newest[x] # None => newest[x].at \in Nat
        BY <1>2 DEF Inv, Types, Metric
    <3>4. ASSUME NEW i \in 1 .. Len(metricCh), metricCh[i].node = m.node
          PROVE  metricCh[i].at <= m.at
      <4>1. ~(metricCh[i].at > m.at)
          BY <2>2, <3>1, <3>4 DEF Overtaken
      <4>2. metricCh[i].at \in Nat
          BY <3>2 DEF Metric
      <4>3. QED BY <3>3, <4>1, <4>2
    <3>5. QED BY <3>1, <3>3, <3>4 DEF Overtaken
  <2>9. Times'
      BY <1>1, <2>2, <2>7, <2>8 DEF Inv, Times
  <2>10. QED BY <1>6, <2>3, <2>4, <2>6, <2>9 DEF Inv
<1>8. CASE /\ metricCh' = metricCh /\ dropped' = dropped \cup {received'}
           /\ overtaken' = overtaken
  <2>1. Queued' = Queued /\ InOrder(metricCh')
      BY <1>8 DEF Queued, Inv, Places
  <2>2. Types'
      BY <1>1, <1>8 DEF Inv, Types
  <2>3. Places'
      BY <1>1, <1>4, <1>5, <1>8, <2>1 DEF Inv, Places
  <2>4. \A x \in Node : newest[x] # None => newest[x].n <= received'
    <3>1. \A x \in Node : newest[x] # None => newest[x].n \in Nat
        BY DEF Inv, Types, Metric
    <3>2. QED BY <1>1, <3>1 DEF Inv, Filing
  <2>5. Filing' /\ Times'
      BY <1>1, <1>8, <2>1, <2>4 DEF Inv, Filing, Times
  <2>6. QED BY <1>6, <2>2, <2>3, <2>5 DEF Inv
<1>9. QED BY <1>3, <1>7, <1>8

(* The metric taken is newer than what has been taken for its node before, *)
(* and its key is in the map.  A round under way may lose nodes if entries *)
(* move, and a copy under way may have words of the metric, or zeros.      *)
LEMMA DequeueKeepsInv ==
    ASSUME Inv, Dequeue
    PROVE  Inv'
<1> DEFINE h == Head(metricCh)
<1>1. /\ worker.pc = "select" /\ metricCh # << >> /\ metricCh' = Tail(metricCh)
      /\ worker' = [pc |-> "store", m |-> h]
      /\ newest' = [newest EXCEPT ![h.node] = h]
      /\ nodeMetrics' = [nodeMetrics EXCEPT ![h.node] = IF @ = None THEN Zero ELSE @]
      /\ UNCHANGED <<received, dropped, overtaken, pending, attempts, failed, cancelled, crashed>>
    BY DEF Dequeue
<1>2. /\ growing' \in BOOLEAN
      /\ \/ ~Ranging /\ computer' = computer /\ round' = round
         \/ /\ Ranging
            /\ round' = [round EXCEPT !.moved = @ \/ Moves(h)]
            /\ \E left \in Remaining(h) :
                  computer' = [computer EXCEPT !.left = left, !.from = @ \cup Mixed(h)]
    BY DEF Dequeue, computing
<1>3. h \in Metric /\ metricCh' \in Seq(Metric) /\ Len(metricCh') <= MetricChCap
    BY <1>1, TailFacts, MetricChHasRoom DEF Inv, Types
<1>4. /\ Queued = Queued' \cup {h.n} /\ (\A q \in Queued' : h.n < q) /\ InOrder(metricCh')
    BY <1>1, TailInOrder DEF Inv, Types, Places, Queued
<1>5. h.n \in Nat /\ h.node \in Node /\ h # None /\ h.n \notin Queued' /\ h.at \in Nat
      /\ h.tenant \in Tenant
  <2>1. h # None
      BY <1>3, NoneIsNoValue
  <2>2. h.n \in 1 .. MaxMetrics /\ h.node \in Node /\ h.at \in Nat /\ h.tenant \in Tenant
      BY <1>3 DEF Metric
  <2>3. QED BY <1>4, <2>1, <2>2, ArrivalsAreBounded
<1>6. Hand = {} /\ Hand' = {h.n} /\ Written' = Written /\ Listed' = Listed
    BY <1>1 DEF Hand, Written, Listed
<1>7. nodeMetrics = newest /\ (nodeMetrics[h.node] # None => nodeMetrics[h.node].n < h.n)
    BY <1>1, <1>4, <1>5 DEF Inv, Filing
<1>8. /\ \A i \in 1 .. Len(metricCh') : i + 1 \in 1 .. Len(metricCh) /\ metricCh'[i] = metricCh[i + 1]
      /\ h = metricCh[1] /\ 1 \in 1 .. Len(metricCh) /\ Len(metricCh) \in Nat
      /\ Len(metricCh') = Len(metricCh) - 1
    BY <1>1, TailFacts DEF Inv, Types
<1> HIDE DEF h
<1>9. /\ nodeMetrics' \in [Node -> Metric \cup {None, Zero}]
      /\ newest' \in [Node -> Metric \cup {None}]
      /\ worker' \in WorkerState
    BY <1>1, <1>3, <1>5 DEF Inv, Types, WorkerState
<1>10. /\ KnownNodes' = KnownNodes \cup {h.node}
       /\ \A x \in Node : nodeMetrics[x] # None => nodeMetrics'[x] = nodeMetrics[x]
       /\ h.node \notin KnownNodes => nodeMetrics'[h.node] = Zero
       /\ \A x \in Node : x # h.node => nodeMetrics'[x] = nodeMetrics[x]
       /\ KnownNodes \subseteq Node
  <2>1. Zero # None
      BY NoneIsNoValue
  <2>2. \A x \in Node : nodeMetrics'[x] = IF x = h.node /\ nodeMetrics[x] = None THEN Zero
                                          ELSE nodeMetrics[x]
      BY <1>1, <1>5 DEF Inv, Types
  <2>3. QED BY <1>5, <2>1, <2>2 DEF KnownNodes
<1>11. Mixed(h) \subseteq {h, Zero} /\ \A L \in Remaining(h) : L \subseteq Node
    BY <1>5, <1>10 DEF Mixed, Remaining, Inv, Types, ComputerState
<1>12. computer' \in ComputerState /\ round' \in RoundState
  <2>1. CASE ~Ranging
      BY <1>2, <2>1 DEF Inv, Types
  <2>2. CASE Ranging
    <3>1. PICK left \in Remaining(h) :
              computer' = [computer EXCEPT !.left = left, !.from = @ \cup Mixed(h)]
        BY <1>2, <2>2
    <3>2. left \subseteq Node /\ computer.from \cup Mixed(h) \subseteq Metric \cup {Zero}
        BY <1>3, <1>11 DEF Inv, Types, ComputerState
    <3>3. computer' \in ComputerState
        BY <3>1, <3>2 DEF Inv, Types, ComputerState
    <3>4. Moves(h) \in BOOLEAN
        BY DEF Moves, Inv, Types
    <3>5. round' \in RoundState
        BY <1>2, <2>2, <3>4 DEF Inv, Types, RoundState
    <3>6. QED BY <3>3, <3>5
  <2>3. QED BY <2>1, <2>2
<1>13. Types'
    BY <1>1, <1>2, <1>3, <1>9, <1>12 DEF Inv, Types
<1>14. Places'
    BY <1>1, <1>4, <1>5, <1>6 DEF Inv, Places
<1>15. Filing'
  <2>1. \A x \in Node : newest'[x] # None =>
          newest'[x].n <= received /\ \A q \in Queued' : newest'[x].n < q
    <3> SUFFICES ASSUME NEW x \in Node, newest'[x] # None
                 PROVE  newest'[x].n <= received /\ \A q \in Queued' : newest'[x].n < q
        OBVIOUS
    <3>1. CASE x = h.node
      <4>1. newest'[x] = h /\ h.n \in 1 .. received
          BY <1>1, <1>4, <1>5, <3>1 DEF Inv, Types, Places
      <4>2. QED BY <1>4, <4>1
    <3>2. CASE x # h.node
        BY <1>1, <1>4, <3>2 DEF Inv, Types, Filing
    <3>3. QED BY <3>1, <3>2
  <2>2. \A x \in Node : nodeMetrics'[x] \in Metric => nodeMetrics'[x].node = x
    <3>1. \A x \in Node : nodeMetrics'[x] \in Metric => nodeMetrics'[x] = nodeMetrics[x]
        BY <1>10, ZeroIsNoMetric DEF KnownNodes
    <3>2. QED BY <3>1 DEF Inv, Filing
  <2>3. newest' = File(nodeMetrics', h)
    <3>1. newest' = [nodeMetrics EXCEPT ![h.node] = h]
        BY <1>1, <1>7
    <3>2. [nodeMetrics' EXCEPT ![h.node] = h] = [nodeMetrics EXCEPT ![h.node] = h]
        BY <1>1 DEF Inv, Types
    <3>3. QED BY <3>1, <3>2 DEF File
  <2>4. nodeMetrics'[h.node] # None
      BY <1>5, <1>10 DEF KnownNodes
  <2>5. nodeMetrics'[h.node] \in Metric => nodeMetrics'[h.node].n < h.n
      BY <1>5, <1>7, <1>10, ZeroIsNoMetric DEF KnownNodes
  <2>6. QED BY <1>1, <1>5, <2>1, <2>2, <2>3, <2>4, <2>5 DEF Filing
<1>16. Times'
  <2>1. ASSUME NEW i \in 1 .. Len(metricCh'), metricCh'[i].node \notin overtaken,
               newest'[metricCh'[i].node] # None
        PROVE  newest'[metricCh'[i].node].at <= metricCh'[i].at
    <3>1. metricCh'[i] = metricCh[i + 1] /\ i + 1 \in 1 .. Len(metricCh) /\ 1 < i + 1
        BY <1>8
    <3>2. metricCh'[i].node \in Node
      <4>1. metricCh'[i] \in Metric
          BY <1>3, ElementFacts
      <4>2. QED BY <4>1 DEF Metric
    <3>3. CASE metricCh'[i].node = h.node
      <4>1. newest'[h.node] = h
          BY <1>1, <1>5 DEF Inv, Types
      <4>2. h.at <= metricCh[i + 1].at
          BY <1>8, <2>1, <3>1, <3>3 DEF Inv, Times
      <4>3. QED BY <3>1, <3>3, <4>1, <4>2
    <3>4. CASE metricCh'[i].node # h.node
      <4>1. newest'[metricCh'[i].node] = newest[metricCh'[i].node]
          BY <1>1, <3>2, <3>4 DEF Inv, Types
      <4>2. QED BY <2>1, <3>1, <4>1 DEF Inv, Times
    <3>5. QED BY <3>3, <3>4
  <2>2. ASSUME NEW i \in 1 .. Len(metricCh'), NEW j \in 1 .. Len(metricCh'), i < j,
               metricCh'[i].node = metricCh'[j].node, metricCh'[i].node \notin overtaken
        PROVE  metricCh'[i].at <= metricCh'[j].at
    <3>1. /\ metricCh'[i] = metricCh[i + 1] /\ i + 1 \in 1 .. Len(metricCh)
          /\ metricCh'[j] = metricCh[j + 1] /\ j + 1 \in 1 .. Len(metricCh) /\ i + 1 < j + 1
        BY <1>8, <2>2
    <3>2. QED BY <2>2, <3>1 DEF Inv, Times
  <2>3. QED BY <1>1, <2>1, <2>2 DEF Times
<1>17. Round' /\ Idle'
  <2>1. CASE ~Ranging
      BY <1>2, <2>1 DEF Inv, Round, Idle, Ranging
  <2>2. CASE Ranging
    <3>1. PICK left \in Remaining(h) :
              computer' = [computer EXCEPT !.left = left, !.from = @ \cup Mixed(h)]
        BY <1>2, <2>2
    <3>2. /\ computer'.pc = computer.pc /\ computer'.at = computer.at /\ computer'.used = computer.used
          /\ computer'.left = left /\ computer'.from = computer.from \cup Mixed(h)
          /\ round'.start = round.start /\ round'.moved = (round.moved \/ Moves(h))
          /\ Ranging'
        BY <1>2, <2>2, <3>1 DEF Inv, Types, ComputerState, RoundState, Ranging
    <3>3. left \subseteq computer.left \cup ({h.node} \ KnownNodes)
        BY DEF Remaining
    <3>4. Round
        BY DEF Inv
    <3>5. Start'
        BY <1>10, <2>2, <3>2, <3>4, NoneIsNoValue, ZeroIsNoMetric DEF Round, Start, KnownNodes, Moves
    <3>6. ASSUME NEW c \in computer.used, Fresh(c.node, c.from) PROVE Fresh(c.node, c.from)'
        BY <3>2, <3>6 DEF Fresh
    <3>7. \A c \in computer'.used :
               /\ c.node \in KnownNodes' \ (computer'.left \cup {computer'.at})
               /\ Fresh(c.node, c.from)'
               /\ \A v \in c.from \ {Zero} : c.from = {v} => c.tenant = v.tenant
      <4> SUFFICES ASSUME NEW c \in computer.used
                   PROVE  /\ c.node \in KnownNodes' \ (computer'.left \cup {computer'.at})
                          /\ Fresh(c.node, c.from)'
                          /\ \A v \in c.from \ {Zero} : c.from = {v} => c.tenant = v.tenant
          BY <3>2
      <4>1. /\ c.node \in KnownNodes \ (computer.left \cup {computer.at})
            /\ Fresh(c.node, c.from)
            /\ \A v \in c.from \ {Zero} : c.from = {v} => c.tenant = v.tenant
          BY <2>2, <3>4 DEF Round
      <4>2. c.node \in KnownNodes' \ (computer'.left \cup {computer'.at})
          BY <1>10, <3>2, <3>3, <4>1
      <4>3. Fresh(c.node, c.from)'
          BY <3>6, <4>1
      <4>4. QED BY <4>1, <4>2, <4>3
    <3>8. computer.pc = "copy" =>
               computer'.at \in KnownNodes' \ computer'.left /\ Fresh(computer.at, computer.from)'
      <4> SUFFICES ASSUME computer.pc = "copy"
                   PROVE  computer'.at \in KnownNodes' \ computer'.left
                          /\ Fresh(computer.at, computer.from)'
          OBVIOUS
      <4>1. computer.at \in KnownNodes \ computer.left /\ Fresh(computer.at, computer.from)
          BY <2>2, <3>4 DEF Round
      <4>2. computer'.at \in KnownNodes' \ computer'.left
          BY <1>10, <3>2, <3>3, <4>1
      <4>3. ASSUME NEW v \in (computer.from \cup Mixed(h)) \ {Zero}
            PROVE  /\ v.node = computer.at
                   /\ round.start[computer.at] \in Metric => v.n >= round.start[computer.at].n
        <5>1. CASE v \in computer.from
            BY <4>1, <4>3, <5>1 DEF Fresh
        <5>2. CASE v \in Mixed(h)
          <6>1. v = h /\ computer.at = h.node
              BY <4>3, <5>2 DEF Mixed
          <6>2. ASSUME round.start[h.node] \in Metric PROVE h.n >= round.start[h.node].n
            <7>1. nodeMetrics[h.node] \in Metric /\ nodeMetrics[h.node].n >= round.start[h.node].n
                BY <1>5, <2>2, <3>4, <6>2 DEF Round, Start
            <7>2. nodeMetrics[h.node].n < h.n
                BY <1>7, <7>1, NoneIsNoValue
            <7>3. nodeMetrics[h.node].n \in Int /\ round.start[h.node].n \in Int
                BY <6>2, <7>1 DEF Metric
            <7>4. QED BY <1>5, <7>1, <7>2, <7>3
          <6>3. QED BY <6>1, <6>2
        <5>3. QED BY <4>3, <5>1, <5>2
      <4>4. Zero \in computer.from \cup Mixed(h) => round'.moved \/ round'.start[computer.at] = Zero
        <5>1. Zero \in Mixed(h) => Moves(h)
          <6>1. h # Zero
              BY <1>3, ZeroIsNoMetric
          <6>2. QED BY <6>1 DEF Mixed
        <5>2. QED BY <3>2, <4>1, <5>1 DEF Fresh
      <4>5. Fresh(computer.at, computer.from)'
          BY <3>2, <4>3, <4>4 DEF Fresh
      <4>6. QED BY <4>2, <4>5
    <3>9. \A x \in KnownNodes' \ (computer'.left \cup {computer'.at}) :
               round'.moved \/ \E c \in computer'.used : c.node = x
      <4>1. CASE Moves(h)
          BY <3>2, <4>1
      <4>2. CASE ~Moves(h)
        <5>1. KnownNodes' = KnownNodes /\ computer'.left = computer.left
            BY <1>10, <3>1, <3>2, <4>2 DEF Moves, Remaining
        <5>2. QED BY <2>2, <3>2, <3>4, <5>1 DEF Round
      <4>3. QED BY <4>1, <4>2
    <3>10. /\ computer'.left \subseteq KnownNodes'
           /\ computer'.pc = "iterate" => computer'.at = None
           /\ \A c, d \in computer'.used : c.node = d.node => c = d
        BY <1>10, <2>2, <3>2, <3>3, <3>4 DEF Round
    <3>11. QED BY <3>2, <3>5, <3>7, <3>8, <3>9, <3>10 DEF Round, Idle
  <2>3. QED BY <2>1, <2>2
<1>18. QED BY <1>13, <1>14, <1>15, <1>16, <1>17 DEF Inv

(* The metric in hand is in the map and on the list.                       *)
LEMMA StoreKeepsInv ==
    ASSUME Inv, Store
    PROVE  Inv'
<1> DEFINE m == worker.m
<1>1. /\ worker.pc = "store" /\ nodeMetrics' = File(nodeMetrics, m)
      /\ pending' = Append(pending, m.n)
      /\ worker' = [pc |-> "select", m |-> None]
      /\ UNCHANGED <<metricCh, received, dropped, overtaken, attempts, failed, growing, newest,
                     computer, round, cancelled, crashed>>
    BY DEF Store, channel, computing
<1>2. m \in Metric /\ m # None /\ m.n \in Nat /\ m.node \in Node
  <2>1. m \in Metric /\ m # None
      BY <1>1 DEF Inv, Types, Filing, WorkerState
  <2>2. QED BY <2>1, ArrivalsAreBounded DEF Metric
<1>3. /\ Hand = {m.n} /\ Hand' = {} /\ Queued' = Queued /\ Written' = Written
      /\ Listed' = Listed \cup {m.n} /\ pending' \in Seq(Nat)
  <2>1. worker'.pc = "select"
      BY <1>1
  <2>2. Listed' = Listed \cup {m.n} /\ pending' \in Seq(Nat)
    <3>1. pending \in Seq(Nat)
        BY DEF Inv, Types
    <3>2. /\ Append(pending, m.n) \in Seq(Nat)
          /\ ToSet(Append(pending, m.n)) = ToSet(pending) \cup {m.n}
        BY <1>2, <3>1, AppendFacts
    <3>3. QED BY <1>1, <3>2 DEF Listed
  <2>3. QED BY <1>1, <2>1, <2>2 DEF Hand, Queued, Written
<1>4. IsInjective(pending')
  <2>1. /\ DOMAIN pending = 1 .. Len(pending) /\ DOMAIN pending' = 1 .. Len(pending) + 1
        /\ \A i \in 1 .. Len(pending) : pending'[i] = pending[i]
        /\ pending'[Len(pending) + 1] = m.n /\ Len(pending) \in Nat
      BY <1>1, <1>2, AppendFacts DEF Inv, Types
  <2>2. \A i \in 1 .. Len(pending) : pending[i] # m.n
    <3>1. m.n \notin Listed
        BY <1>3 DEF Inv, Places
    <3>2. QED BY <2>1, <3>1 DEF Listed, ToSet
  <2>3. QED BY <2>1, <2>2 DEF Inv, Places, IsInjective
<1>5. Places'
    BY <1>1, <1>3, <1>4 DEF Inv, Places
<1> HIDE DEF m
<1>6. /\ nodeMetrics' = [nodeMetrics EXCEPT ![m.node] = m] /\ nodeMetrics' = newest
      /\ nodeMetrics' \in [Node -> Metric \cup {None, Zero}]
    BY <1>1, <1>2 DEF Inv, Types, Filing, File, m
<1>7. Types'
    BY <1>1, <1>3, <1>6 DEF Inv, Types, WorkerState
<1>8. Filing' /\ Times'
    BY <1>1, <1>2, <1>3, <1>6 DEF Inv, Types, Filing, Times
<1>9. Round' /\ Idle'
  <2> SUFFICES ASSUME Ranging PROVE Round'
      BY <1>1 DEF Inv, Round, Idle, Ranging
  <2>1. KnownNodes' = KnownNodes
    <3>1. nodeMetrics[m.node] # None
        BY <1>1 DEF Inv, Filing, m
    <3>2. QED BY <1>2, <1>6, <3>1 DEF KnownNodes, Inv, Types
  <2>2. ASSUME NEW x \in Node, round.start[x] \in Metric
        PROVE  nodeMetrics'[x] \in Metric /\ nodeMetrics'[x].n >= round.start[x].n
    <3>1. nodeMetrics[x] \in Metric /\ nodeMetrics[x].n >= round.start[x].n
        BY <2>2 DEF Inv, Round, Start
    <3>2. CASE x = m.node
      <4>1. nodeMetrics[x].n < m.n
          BY <1>1, <3>1, <3>2 DEF Inv, Filing, m
      <4>2. nodeMetrics[x].n \in Int /\ round.start[x].n \in Int
          BY <2>2, <3>1 DEF Metric
      <4>3. nodeMetrics'[x] = m
          BY <1>2, <1>6, <3>2 DEF Inv, Types
      <4>4. QED BY <1>2, <3>1, <4>1, <4>2, <4>3
    <3>3. CASE x # m.node
        BY <1>6, <3>1, <3>3 DEF Inv, Types
    <3>4. QED BY <3>2, <3>3
  <2>3. Start'
      BY <1>1, <2>1, <2>2 DEF Inv, Round, Start
  <2>4. QED BY <1>1, <2>1, <2>3 DEF Inv, Round, Ranging, Fresh
<1>10. QED BY <1>5, <1>7, <1>8, <1>9 DEF Inv

(* A write takes everything that is listed, and the list is empty after,   *)
(* whether or not the write has failed.                                    *)
LEMMA WritePendingKeepsInv ==
    ASSUME Inv, WritePending
    PROVE  Inv'
<1>1. /\ worker.pc = "select" /\ attempts' = Attempted /\ pending' = << >>
      /\ failed' \in {failed, failed \cup Listed}
      /\ UNCHANGED <<metricCh, received, dropped, overtaken, worker, nodeMetrics, growing, newest,
                     computer, round, cancelled, crashed>>
    BY DEF WritePending, channel, computing, Listed
<1>2. /\ attempts' \in [1 .. MaxMetrics -> Nat]
      /\ \A n \in 1 .. MaxMetrics : attempts'[n] = attempts[n] + IF n \in Listed THEN 1 ELSE 0
    BY <1>1 DEF Attempted, Listed, Inv, Types
<1>3. Listed \subseteq 1 .. MaxMetrics
    BY ArrivalsAreBounded DEF Inv, Places, Types
<1>4. Written' = Written \cup Listed
  <2>1. ASSUME NEW n \in 1 .. MaxMetrics
        PROVE  attempts'[n] > 0 <=> attempts[n] > 0 \/ n \in Listed
    <3>1. attempts[n] \in Nat
        BY DEF Inv, Types
    <3>2. QED BY <1>2, <3>1
  <2>2. QED BY <1>3, <2>1 DEF Written
<1>5. Listed' = {} /\ Hand' = Hand /\ Queued' = Queued
    BY <1>1, EmptyFacts DEF Listed, Hand, Queued
<1>6. \A n \in 1 .. MaxMetrics : attempts'[n] <= 1
  <2> SUFFICES ASSUME NEW n \in 1 .. MaxMetrics PROVE attempts'[n] <= 1
      OBVIOUS
  <2>1. attempts[n] \in Nat /\ attempts[n] <= 1
      BY DEF Inv, Types, Places
  <2>2. n \in Listed => attempts[n] = 0
      BY <2>1 DEF Inv, Places, Written
  <2>3. QED BY <1>2, <2>1, <2>2
<1>7. Types' /\ IsInjective(pending')
    BY <1>1, <1>2, EmptyFacts DEF Inv, Types, IsInjective
<1>8. Places'
    BY <1>1, <1>4, <1>5, <1>6, <1>7 DEF Inv, Places
<1>9. Filing' /\ Times' /\ Idle' /\ Round'
    BY <1>1, <1>5 DEF Inv, Filing, Times, Idle, Round, Ranging, Start, Fresh, KnownNodes
<1>10. QED BY <1>7, <1>8, <1>9 DEF Inv

(* On a stop, on cancellation and when the process ends nothing moves.     *)
LEMMA WorkerRestKeepsInv ==
    ASSUME Inv, FatalError \/ WorkerStop \/ Cancel
    PROVE  Inv'
<1>1. /\ UNCHANGED <<metricCh, received, dropped, overtaken, pending, attempts, failed, nodeMetrics,
                     growing, newest, computer, round>>
      /\ cancelled' \in BOOLEAN /\ crashed' \in BOOLEAN
    BY DEF FatalError, WorkerStop, Cancel, channel, working, computing, Inv, Types
<1>2. /\ worker' \in WorkerState
      /\ worker'.pc # worker.pc => worker'.pc # "store" /\ worker.pc # "store"
      /\ worker'.pc = "store" => worker' = worker
  <2>1. CASE WorkerStop
      BY <2>1 DEF WorkerStop, Inv, Types, WorkerState
  <2>2. CASE FatalError \/ Cancel
      BY <2>2 DEF FatalError, Cancel, working, Inv, Types
  <2>3. QED BY <2>1, <2>2
<1>3. Hand' = Hand /\ Queued' = Queued /\ Written' = Written /\ Listed' = Listed
    BY <1>1, <1>2 DEF Hand, Queued, Written, Listed
<1>4. Types'
    BY <1>1, <1>2 DEF Inv, Types
<1>5. Places' /\ Idle' /\ Round'
    BY <1>1, <1>3 DEF Inv, Places, Idle, Round, Ranging, Start, Fresh, KnownNodes
<1>6. Filing' /\ Times'
    BY <1>1, <1>2, <1>3 DEF Inv, Filing, Times
<1>7. QED BY <1>4, <1>5, <1>6 DEF Inv

-----------------------------------------------------------------------------
(* computeMetricsLoop.                                                     *)

(* What the loop's steps keep besides the round.                           *)
LEMMA ComputerKeepsRest ==
    ASSUME Inv, UNCHANGED <<channel, working, cancelled, crashed>>,
           computer' \in ComputerState, round' \in RoundState, Round', Idle'
    PROVE  Inv'
<1>1. Types'
    BY DEF Inv, Types, channel, working
<1>2. Hand' = Hand /\ Queued' = Queued /\ Written' = Written /\ Listed' = Listed
    BY DEF Hand, Queued, Written, Listed, channel, working
<1>3. Places' /\ Filing' /\ Times'
    BY <1>2 DEF Inv, Places, Filing, Times, channel, working
<1>4. QED BY <1>1, <1>3 DEF Inv

LEMMA TickKeepsInv ==
    ASSUME Inv, ComputeTick
    PROVE  Inv'
<1>1. /\ computer.pc = "select" /\ round' = [start |-> nodeMetrics, moved |-> FALSE]
      /\ computer' = [computer EXCEPT !.pc = "iterate", !.left = KnownNodes]
      /\ UNCHANGED <<channel, working, cancelled, crashed>>
      /\ computer.used = {} /\ computer.at = None
    BY DEF ComputeTick, Inv, Idle, Ranging
<1>2. KnownNodes \subseteq Node /\ KnownNodes' = KnownNodes
    BY <1>1 DEF KnownNodes, working
<1>3. /\ computer' \in ComputerState /\ round' \in RoundState
      /\ computer'.used = {} /\ computer'.at = None /\ computer'.left = KnownNodes
      /\ computer'.pc = "iterate" /\ round'.start = nodeMetrics /\ nodeMetrics' = nodeMetrics
    BY <1>1, <1>2 DEF Inv, Types, ComputerState, RoundState, working
<1>4. \A x \in Node : nodeMetrics[x] \in Metric => nodeMetrics[x].n \in Int
    BY DEF Metric
<1>5. Start'
    BY <1>2, <1>3, <1>4, NoneIsNoValue DEF Start, KnownNodes
<1>6. Round' /\ Idle'
    BY <1>2, <1>3, <1>5 DEF Round, Idle, Ranging
<1>7. QED BY <1>1, <1>3, <1>6, ComputerKeepsRest

(* The range begins a copy of a node it has left.                          *)
LEMMA VisitKeepsInv ==
    ASSUME Inv, VisitNode
    PROVE  Inv'
<1> DEFINE stored(x) == {v \in {worker.m} : worker.pc = "store" /\ v.node = x}
<1>1. PICK x \in computer.left :
          computer' = [computer EXCEPT !.pc = "copy", !.at = x, !.left = @ \ {x},
                                       !.from = {nodeMetrics[x]} \cup stored(x)]
    BY DEF VisitNode
<1>2. /\ computer.pc = "iterate" /\ Ranging /\ round' = round
      /\ UNCHANGED <<channel, working, round, cancelled, crashed>>
    BY DEF VisitNode, Ranging
<1>3. x \in Node /\ x \in KnownNodes /\ nodeMetrics[x] # None
    BY <1>2 DEF Inv, Round, KnownNodes
<1>4. worker.pc = "store" => worker.m \in Metric
    BY DEF Inv, Types, Filing, WorkerState
<1>5. {nodeMetrics[x]} \cup stored(x) \subseteq Metric \cup {Zero}
    BY <1>3, <1>4 DEF Inv, Types
<1>6. /\ computer' \in ComputerState /\ computer'.pc = "copy" /\ computer'.at = x
      /\ computer'.left = computer.left \ {x} /\ computer'.used = computer.used
      /\ computer'.from = {nodeMetrics[x]} \cup stored(x)
    BY <1>1, <1>3, <1>5 DEF Inv, Types, ComputerState
<1>7. ASSUME NEW v \in ({nodeMetrics[x]} \cup stored(x)) \ {Zero}
      PROVE  /\ v.node = x
             /\ round.start[x] \in Metric => v.n >= round.start[x].n
  <2>1. round.start[x] \in Metric => nodeMetrics[x] \in Metric /\ nodeMetrics[x].n >= round.start[x].n
      BY <1>2, <1>3 DEF Inv, Round, Start
  <2>2. CASE v = nodeMetrics[x]
    <3>1. v \in Metric
        BY <1>3, <1>7, <2>2 DEF Inv, Types
    <3>2. QED BY <1>3, <2>1, <2>2, <3>1 DEF Inv, Filing
  <2>3. CASE v \in stored(x)
    <3>1. v = worker.m /\ worker.pc = "store" /\ v.node = x /\ v \in Metric
        BY <1>4, <2>3
    <3>2. ASSUME round.start[x] \in Metric PROVE v.n >= round.start[x].n
      <4>1. nodeMetrics[x] \in Metric /\ nodeMetrics[x].n >= round.start[x].n
          BY <2>1, <3>2
      <4>2. nodeMetrics[x].n < v.n
          BY <3>1, <4>1 DEF Inv, Filing
      <4>3. nodeMetrics[x].n \in Int /\ round.start[x].n \in Int /\ v.n \in Int
          BY <3>1, <3>2, <4>1 DEF Metric
      <4>4. QED BY <4>1, <4>2, <4>3
    <3>3. QED BY <3>1, <3>2
  <2>4. QED BY <1>7, <2>2, <2>3
<1>8. Zero \in {nodeMetrics[x]} \cup stored(x) => round.moved \/ round.start[x] = Zero
  <2> SUFFICES ASSUME Zero \in {nodeMetrics[x]} \cup stored(x)
               PROVE  round.moved \/ round.start[x] = Zero
      OBVIOUS
  <2>1. nodeMetrics[x] = Zero
      BY <1>4, ZeroIsNoMetric
  <2>2. round.start[x] \notin Metric
      BY <1>2, <1>3, <2>1, ZeroIsNoMetric DEF Inv, Round, Start
  <2>3. round.start[x] \in {None, Zero}
      BY <1>3, <2>2 DEF Inv, Types, RoundState
  <2>4. QED BY <1>2, <1>3, <2>3 DEF Inv, Round, Start
<1>9. /\ KnownNodes' = KnownNodes /\ nodeMetrics' = nodeMetrics
    BY <1>2 DEF KnownNodes, working
<1> HIDE DEF stored
<1>10. Round' /\ Idle'
  <2>1. Fresh(computer.at, computer.from)'
      BY <1>2, <1>6, <1>7, <1>8 DEF Fresh
  <2>2. Start'
      BY <1>2, <1>9 DEF Inv, Round, Start
  <2>3. computer.at = None /\ None \notin KnownNodes
      BY <1>2, NoneIsNoValue DEF Inv, Round, KnownNodes
  <2>4. \A y : y \in computer'.left \cup {computer'.at} <=> y \in computer.left
      BY <1>6
  <2>5. \A c \in computer'.used :
             /\ c.node \in KnownNodes' \ (computer'.left \cup {computer'.at})
             /\ Fresh(c.node, c.from)'
             /\ \A v \in c.from \ {Zero} : c.from = {v} => c.tenant = v.tenant
      BY <1>2, <1>6, <1>9, <2>4 DEF Inv, Round, Fresh
  <2>6. \A y \in KnownNodes' \ (computer'.left \cup {computer'.at}) :
             round'.moved \/ \E c \in computer'.used : c.node = y
      BY <1>2, <1>6, <1>9, <2>3, <2>4 DEF Inv, Round
  <2>7. computer'.left \subseteq KnownNodes' /\ x \in KnownNodes' \ computer'.left
      BY <1>2, <1>3, <1>6, <1>9 DEF Inv, Round
  <2>8. \A c, d \in computer'.used : c.node = d.node => c = d
      BY <1>2, <1>6 DEF Inv, Round
  <2>9. QED BY <1>6, <2>1, <2>2, <2>5, <2>6, <2>7, <2>8 DEF Round, Idle, Ranging
<1>11. QED BY <1>2, <1>6, <1>10, ComputerKeepsRest DEF Inv, Types

(* A copy that has words of one metric only states that metric's tenant.   *)
LEMMA WholeCopies ==
    ASSUME NEW v \in Metric
    PROVE  \A t \in TenantsOf({v}) : t = v.tenant
<1>1. v # Zero /\ {v} \ {Zero} = {v}
    BY ZeroIsNoMetric
<1>2. {u.tenant : u \in {v} \ {Zero}} = {v.tenant}
    BY <1>1
<1>3. Cardinality({v.tenant}) = 1
    BY FS_Singleton
<1>4. QED BY <1>1, <1>2, <1>3 DEF TenantsOf

(* The copy is made.                                                       *)
LEMMA CopyKeepsInv ==
    ASSUME Inv, CopyNode
    PROVE  Inv'
<1>1. PICK t \in TenantsOf(computer.from) :
          computer' = [computer EXCEPT
                          !.pc = "iterate", !.at = None, !.from = {},
                          !.used = AddToGroup(@, [node |-> computer.at, tenant |-> t,
                                                  from |-> computer.from])]
    BY DEF CopyNode
<1>2. /\ computer.pc = "copy" /\ Ranging /\ round' = round
      /\ UNCHANGED <<channel, working, round, cancelled, crashed>>
    BY DEF CopyNode, Ranging
<1> DEFINE e == [node |-> computer.at, tenant |-> t, from |-> computer.from]
<1>3. /\ computer.at \in KnownNodes \ computer.left /\ computer.at \in Node
      /\ Fresh(computer.at, computer.from) /\ computer.from \in SUBSET (Metric \cup {Zero})
    BY <1>2 DEF Inv, Types, ComputerState, Round, KnownNodes
<1>4. t \in Tenant \cup {None}
  <2>1. \A v \in computer.from \ {Zero} : v.tenant \in Tenant
      BY <1>3 DEF Metric
  <2>2. QED BY <1>1, <2>1 DEF TenantsOf
<1>5. e \in Copy
    BY <1>3, <1>4 DEF Copy
<1>6. \A v \in e.from \ {Zero} : e.from = {v} => e.tenant = v.tenant
    BY <1>1, <1>3, WholeCopies
<1>7. e.node = computer.at /\ e.from = computer.from
    OBVIOUS
<1>8. computer' = [computer EXCEPT !.pc = "iterate", !.at = None, !.from = {},
                                   !.used = @ \cup {e}]
    BY <1>1 DEF AddToGroup
<1> HIDE DEF e
<1>9. /\ computer' \in ComputerState /\ computer'.pc = "iterate" /\ computer'.at = None
      /\ computer'.left = computer.left /\ computer'.used = computer.used \cup {e}
    BY <1>5, <1>8 DEF Inv, Types, ComputerState
<1>10. KnownNodes' = KnownNodes /\ nodeMetrics' = nodeMetrics /\ None \notin KnownNodes
    BY <1>2, NoneIsNoValue DEF KnownNodes, working
<1>11. Round' /\ Idle'
  <2>1. Start'
      BY <1>2, <1>10 DEF Inv, Round, Start
  <2>2. ASSUME NEW c \in computer.used \cup {e}
        PROVE  /\ c.node \in KnownNodes' \ (computer'.left \cup {computer'.at})
               /\ Fresh(c.node, c.from)'
               /\ \A v \in c.from \ {Zero} : c.from = {v} => c.tenant = v.tenant
    <3>1. CASE c \in computer.used
        BY <1>2, <1>9, <1>10, <3>1 DEF Inv, Round, Fresh
    <3>2. CASE c = e
        BY <1>2, <1>3, <1>6, <1>7, <1>9, <1>10, <3>2 DEF Fresh
    <3>3. QED BY <2>2, <3>1, <3>2
  <2>3. \A c \in computer.used : c.node # e.node
      BY <1>2, <1>7 DEF Inv, Round
  <2>4. \A c, d \in computer'.used : c.node = d.node => c = d
      BY <1>2, <1>9, <2>3 DEF Inv, Round
  <2>5. \A y \in KnownNodes' \ (computer'.left \cup {computer'.at}) :
             round'.moved \/ \E c \in computer'.used : c.node = y
      BY <1>2, <1>7, <1>9, <1>10 DEF Inv, Round
  <2>6. computer'.left \subseteq KnownNodes'
      BY <1>2, <1>9, <1>10 DEF Inv, Round
  <2>7. QED BY <1>9, <2>1, <2>2, <2>4, <2>5, <2>6 DEF Round, Idle, Ranging
<1>12. QED BY <1>2, <1>9, <1>11, ComputerKeepsRest DEF Inv, Types

LEMMA OtherComputerStepsKeepInv ==
    ASSUME Inv, EndRound \/ ComputerStop
    PROVE  Inv'
<1>1. /\ computer' \in ComputerState /\ ~Ranging' /\ round' \in RoundState
      /\ computer'.used = {} /\ computer'.at = None
      /\ UNCHANGED <<channel, working, cancelled, crashed>>
  <2>1. CASE EndRound
    <3>1. computer.at = None
        BY <2>1 DEF EndRound, Inv, Round, Ranging
    <3>2. QED BY <2>1, <3>1 DEF EndRound, NoRound, Inv, Types, ComputerState, RoundState, Ranging
  <2>2. CASE ComputerStop
      BY <2>2 DEF ComputerStop, Inv, Types, Idle, ComputerState, Ranging
  <2>3. QED BY <2>1, <2>2
<1>2. Round' /\ Idle'
    BY <1>1 DEF Round, Idle
<1>3. QED BY <1>1, <1>2, ComputerKeepsRest

-----------------------------------------------------------------------------
LEMMA NextKeepsInv == Inv /\ [Next]_vars => Inv'
<1> SUFFICES ASSUME Inv, [Next]_vars PROVE Inv'
    OBVIOUS
<1>1. CASE Arrive
    BY <1>1, ArrivalKeepsInv DEF Arrive
<1>2. CASE Worker
    BY <1>2, DequeueKeepsInv, StoreKeepsInv, WorkerRestKeepsInv, WritePendingKeepsInv DEF Worker
<1>3. CASE Computer
    BY <1>3, TickKeepsInv, VisitKeepsInv, CopyKeepsInv, OtherComputerStepsKeepInv DEF Computer
<1>4. CASE Stop \/ Cancel
    BY <1>4, WorkerRestKeepsInv, OtherComputerStepsKeepInv DEF Stop
<1>5. CASE UNCHANGED vars
  <2>1. UNCHANGED <<channel, working, computer, round, cancelled, crashed>>
      BY <1>5 DEF vars, computing
  <2>2. Round' /\ Idle'
      BY <2>1 DEF Inv, Round, Idle, Ranging, Start, Fresh, KnownNodes, working
  <2>3. QED BY <2>1, <2>2, ComputerKeepsRest DEF Inv, Types
<1>6. QED BY <1>1, <1>2, <1>3, <1>4, <1>5 DEF Next

(* What the theorems rest on: processMetrics and computeMetricsLoop, in    *)
(* any order, keep the inductive invariant.                                *)
THEOREM InvHolds == Spec => []Inv
BY InitInv, NextKeepsInv, PTL DEF Spec

(* The types of the module: the channel stays within its capacity, and the *)
(* list holds metrics that have arrived.                                   *)
THEOREM MetricPathTypes == Spec => []TypeOK
<1>1. Inv => TypeOK
  <2> SUFFICES ASSUME Inv PROVE TypeOK
      OBVIOUS
  <2>1. /\ ToSet(pending) \subseteq 1 .. received /\ dropped \subseteq 1 .. received
        /\ failed \subseteq 1 .. received
      BY DEF Inv, Places, Listed
  <2>2. pending \in Seq(1 .. received)
      BY <2>1, ElementFacts DEF Inv, Types
  <2>3. QED BY <2>1, <2>2 DEF Inv, Types, TypeOK, WorkerState, ComputerState, RoundState, Copy
<1>2. QED BY <1>1, InvHolds, PTL

(* A metric is in exactly one place, and in one write at most: never       *)
(* written again, also when its write has failed.                          *)
THEOREM MetricsCorrect == Spec => []WrittenAtMostOnce
<1>1. Inv => WrittenAtMostOnce
  <2> SUFFICES ASSUME Inv, NEW n \in 1 .. received
               PROVE  \E p : Place(n) = {p}
      BY FS_Singleton DEF Inv, Places, WrittenAtMostOnce
  <2>1. /\ n \in 1 .. MaxMetrics
        /\ n \in Queued \cup Hand \cup Listed \cup Written \cup dropped
    <3>1. received \in Nat /\ received <= MaxMetrics
        BY ArrivalsAreBounded DEF Inv, Types
    <3>2. QED BY <3>1, ArrivalsAreBounded DEF Inv, Places
  <2>2. Place(n) = {p \in {"dropped", "queued", "hand", "pending", "written", "failed"} :
                       \/ p = "dropped" /\ n \in dropped
                       \/ p = "queued" /\ n \in Queued
                       \/ p = "hand" /\ n \in Hand
                       \/ p = "pending" /\ n \in Listed
                       \/ p = "written" /\ n \in Written \ failed
                       \/ p = "failed" /\ n \in failed}
      BY <2>1 DEF Place, Queued, Numbers, Hand, Listed, Written
  <2>3. CASE n \in dropped
    <3>1. n \notin Queued \cup Hand \cup Listed \cup Written \cup failed
        BY <2>3 DEF Inv, Places
    <3>2. QED BY <2>2, <2>3, <3>1
  <2>4. CASE n \in Queued
    <3>1. n \notin dropped \cup Hand \cup Listed \cup Written \cup failed
        BY <2>4 DEF Inv, Places
    <3>2. QED BY <2>2, <2>4, <3>1
  <2>5. CASE n \in Hand
    <3>1. n \notin dropped \cup Queued \cup Listed \cup Written \cup failed
        BY <2>5 DEF Inv, Places
    <3>2. QED BY <2>2, <2>5, <3>1
  <2>6. CASE n \in Listed
    <3>1. n \notin dropped \cup Queued \cup Hand \cup Written \cup failed
        BY <2>6 DEF Inv, Places
    <3>2. QED BY <2>2, <2>6, <3>1
  <2>7. CASE n \in Written
    <3>1. n \notin dropped \cup Queued \cup Hand \cup Listed
        BY <2>7 DEF Inv, Places
    <3>2. CASE n \in failed
        BY <2>2, <3>1, <3>2
    <3>3. CASE n \notin failed
        BY <2>2, <2>7, <3>1, <3>3
    <3>4. QED BY <3>2, <3>3
  <2>8. QED BY <2>1, <2>3, <2>4, <2>5, <2>6, <2>7
<1>2. QED BY <1>1, InvHolds, PTL

(* The map holds the last metric taken for each node, and no metric waits  *)
(* that is older than it, by its Timestamp, unless the requests of the     *)
(* node have overtaken each other.                                         *)
THEOREM NodesCorrect == Spec => []NodesFollowArrivals
<1>1. Inv => NodesFollowArrivals
  <2> SUFFICES ASSUME Inv, NEW m \in ToSet(metricCh),
                      m.node \notin overtaken, newest[m.node] # None
               PROVE  newest[m.node].at <= m.at
      BY DEF Inv, Filing, NodesFollowArrivals
  <2>1. PICK i \in 1 .. Len(metricCh) : m = metricCh[i]
      BY LenProperties DEF Inv, Types, ToSet
  <2>2. QED BY <2>1 DEF Inv, Times
<1>2. QED BY <1>1, InvHolds, PTL

(* A round that the process survives uses no node twice and no word from   *)
(* before it, takes whole metrics where no assignment overlaps its copies, *)
(* and misses a node only if entries of the map have moved under it.       *)
THEOREM RoundsCorrect == Spec => []RoundsContainTheRace
<1>1. Inv => RoundsContainTheRace
    BY DEF Inv, Round, Fresh, RoundsContainTheRace
<1>2. QED BY <1>1, InvHolds, PTL

=============================================================================
