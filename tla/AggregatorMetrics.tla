-------------------------- MODULE AggregatorMetrics --------------------------
(***************************************************************************)
(* The metric path of pkg/aggregator/aggregator.go: HTTP handlers put node *)
(* metrics into metricCh, processMetrics files them in the map nodeMetrics *)
(* and in a list it writes to ClickHouse every five seconds, and           *)
(* computeMetricsLoop ranges over the same map, groups it by tenant and    *)
(* writes one training row for each tenant.                                *)
(*                                                                         *)
(* No lock guards nodeMetrics.  Go does not define what an assignment to a *)
(* map does while another goroutine ranges over it.  What the runtime the  *)
(* Dockerfiles build with (Go 1.22) can do is a choice here:               *)
(*   - it notices, and ends the process ("concurrent map iteration and map *)
(*     write");                                                            *)
(*   - the assignment puts the key in the map and then the value in its    *)
(*     place, several words long, so that a copy the range makes at the    *)
(*     same time has words of either, and of the zero value where the key  *)
(*     is new;                                                             *)
(*   - a key that is new is visited or not, and may start the growth of    *)
(*     the map, which the next assignments go on with: while entries move, *)
(*     the range may miss them, or copy words not yet moved.               *)
(***************************************************************************)
EXTENDS Integers, FiniteSets, Sequences, SequencesExt

CONSTANTS Node, Tenant,
          Reports,        \* what is reported: a node, the tenant it states, its Timestamp
          MetricChCap,    \* capacity of metricCh (1024 in New)
          MaxMetrics,     \* bound: how many metrics arrive in a behaviour
          Zero,           \* the zero value of model.NodeMetrics
          None

ASSUME ReportsAreTyped == Reports \subseteq [node : Node, tenant : Tenant, at : Nat]
ASSUME MetricChHasRoom == MetricChCap \in Nat \ {0}
ASSUME ArrivalsAreBounded == MaxMetrics \in Nat

\* A metric is the report it came with and its arrival number.
Metric == [n : 1 .. MaxMetrics, at : Nat, node : Node, tenant : Tenant]

ASSUME NoneIsNoValue == None \notin Metric \cup Node \cup Tenant \cup {Zero}
ASSUME ZeroIsNoMetric == Zero \notin Metric

VARIABLES
    metricCh,     \* the metrics in the channel, oldest first
    received,     \* how many metrics the handlers have answered with 202
    dropped,      \* the numbers of those that found metricCh full
    worker,       \* processMetrics: where it is, and the metric in its hands
    pending,      \* pendingMetrics: the numbers of those not yet written
    attempts,     \* how often each metric has been in a write to ClickHouse
    failed,       \* the numbers of those in a write that returned an error
    nodeMetrics,  \* the value of each node in the map, None where there is no key
    growing,      \* the map is moving its entries to a larger array
    computer,     \* computeMetricsLoop: where it is, the nodes it has still to
                  \* visit, the node it copies with the values that copy may have
                  \* words of, and the copies it has made
    cancelled,    \* the context of Run
    crashed,      \* the runtime has ended the process
    newest,       \* history: the last metric of each node taken from the channel
    overtaken,    \* history: the nodes of which a metric came after a later one
    round         \* history: nodeMetrics when the range under way began, and
                  \* whether entries have moved under it since

channel == <<metricCh, received, dropped, overtaken>>
working == <<worker, pending, attempts, failed, nodeMetrics, growing, newest>>
computing == <<computer, round>>
vars == <<channel, working, computing, cancelled, crashed>>

NoRound == [start |-> [x \in Node |-> None], moved |-> FALSE]

KnownNodes == {x \in Node : nodeMetrics[x] # None}

Init ==
    /\ metricCh = << >> /\ received = 0 /\ dropped = {} /\ overtaken = {}
    /\ worker = [pc |-> "select", m |-> None]
    /\ pending = << >> /\ failed = {}
    /\ attempts = [n \in 1 .. MaxMetrics |-> 0]
    /\ nodeMetrics = [x \in Node |-> None] /\ newest = nodeMetrics
    /\ growing = FALSE
    /\ computer = [pc |-> "select", left |-> {}, at |-> None, from |-> {}, used |-> {}]
    /\ round = NoRound
    /\ cancelled = FALSE /\ crashed = FALSE

-----------------------------------------------------------------------------
\* A later metric of the node has come before m: the agent gave up waiting
\* for the answer to m's request, and the request arrived all the same.
Overtaken(m) ==
    \/ newest[m.node] # None /\ newest[m.node].at > m.at
    \/ \E o \in ToSet(metricCh) : o.node = m.node /\ o.at > m.at

IngestNodeMetrics(r) ==
    LET m == [n |-> received + 1, at |-> r.at, node |-> r.node, tenant |-> r.tenant] IN
    /\ received < MaxMetrics
    /\ received' = m.n
    /\ \/ /\ Len(metricCh) < MetricChCap
          /\ metricCh' = Append(metricCh, m)
          /\ overtaken' = IF Overtaken(m) THEN overtaken \cup {m.node} ELSE overtaken
          /\ UNCHANGED dropped
       \/ /\ Len(metricCh) >= MetricChCap
          /\ dropped' = dropped \cup {m.n}
          /\ UNCHANGED <<metricCh, overtaken>>
    /\ UNCHANGED <<working, computing, cancelled, crashed>>

-----------------------------------------------------------------------------
(* processMetrics.                                                         *)

Ranging == computer.pc \in {"iterate", "copy"}

\* Entries move when a key is new, and on any assignment while the map grows,
\* which an empty map does not begin to do.
Moves(m) == growing \/ m.node \notin KnownNodes

\* What the range may still visit once m's key has been put in the map.
Remaining(m) ==
    IF Moves(m) THEN {left \cup new : left \in SUBSET computer.left,
                                      new \in SUBSET ({m.node} \ KnownNodes)}
    ELSE {computer.left}

\* The values that the copy under way may have words of because of m.
Mixed(m) ==
    IF computer.pc # "copy" THEN {}
    ELSE {v \in {m, Zero} : \/ v = m /\ computer.at = m.node
                            \/ v = Zero /\ Moves(m)}

\* A metric m is taken from the channel, and nodeMetrics[m.NodeID] = m begins:
\* its key is in the map.
Dequeue ==
    /\ worker.pc = "select"
    /\ metricCh # << >>
    /\ LET m == Head(metricCh) IN
       /\ worker' = [pc |-> "store", m |-> m]
       /\ newest' = [newest EXCEPT ![m.node] = m]
       /\ nodeMetrics' = [nodeMetrics EXCEPT ![m.node] = IF @ = None THEN Zero ELSE @]
       /\ growing' \in IF Moves(m) /\ KnownNodes # {} THEN BOOLEAN ELSE {FALSE}
       /\ \/ ~Ranging /\ UNCHANGED computing
          \/ /\ Ranging
             /\ round' = [round EXCEPT !.moved = @ \/ Moves(m)]
             /\ \E left \in Remaining(m) :
                   computer' = [computer EXCEPT !.left = left, !.from = @ \cup Mixed(m)]
    /\ metricCh' = Tail(metricCh)
    /\ UNCHANGED <<received, dropped, overtaken, pending, attempts, failed, cancelled,
                   crashed>>

\* The runtime notices the assignment under the range, and ends the process.
FatalError ==
    /\ worker.pc = "select"
    /\ metricCh # << >>
    /\ Ranging
    /\ crashed' = TRUE
    /\ UNCHANGED <<channel, working, computing, cancelled>>

\* Mutant: only the first metric of a node is filed.
FileFirst(map, m) == IF map[m.node] = Zero THEN [map EXCEPT ![m.node] = m] ELSE map

File(map, m) == [map EXCEPT ![m.node] = m]

\* The assignment ends: the last word of the value is in its place.  Then the
\* append to pendingMetrics, and the publish, whose error is only logged.
Store ==
    /\ worker.pc = "store"
    /\ nodeMetrics' = File(nodeMetrics, worker.m)
    /\ pending' = Append(pending, worker.m.n)
    /\ worker' = [pc |-> "select", m |-> None]
    /\ UNCHANGED <<channel, attempts, failed, growing, newest, computing, cancelled, crashed>>

Attempted == [n \in DOMAIN attempts |->
                 attempts[n] + IF n \in ToSet(pending) THEN 1 ELSE 0]

\* Mutant: the list is kept when the write fails.
WritePendingKeptOnError ==
    /\ worker.pc = "select"
    /\ pending # << >>
    /\ attempts' = Attempted
    /\ \/ pending' = << >> /\ UNCHANGED failed
       \/ failed' = failed \cup ToSet(pending) /\ UNCHANGED pending
    /\ UNCHANGED <<channel, worker, nodeMetrics, growing, newest, computing, cancelled,
                   crashed>>

\* Mutant: a single metric is not worth a write.
WritePendingFromTwo ==
    /\ worker.pc = "select"
    /\ Len(pending) > 1
    /\ attempts' = Attempted
    /\ failed' \in {failed, failed \cup ToSet(pending)}
    /\ pending' = << >>
    /\ UNCHANGED <<channel, worker, nodeMetrics, growing, newest, computing, cancelled,
                   crashed>>

\* The flush ticker: one write of everything pending, which succeeds or
\* returns an error.  The list is emptied in either case.
WritePending ==
    /\ worker.pc = "select"
    /\ pending # << >>
    /\ attempts' = Attempted
    /\ failed' \in {failed, failed \cup ToSet(pending)}
    /\ pending' = << >>
    /\ UNCHANGED <<channel, worker, nodeMetrics, growing, newest, computing, cancelled,
                   crashed>>

WorkerStop ==
    /\ worker.pc = "select"
    /\ cancelled
    /\ worker' = [worker EXCEPT !.pc = "stopped"]
    /\ UNCHANGED <<channel, pending, attempts, failed, nodeMetrics, growing, newest,
                   computing, cancelled, crashed>>

-----------------------------------------------------------------------------
(* computeMetricsLoop.                                                     *)

ComputeTick ==
    /\ computer.pc = "select"
    /\ KnownNodes # {}
    /\ computer' = [computer EXCEPT !.pc = "iterate", !.left = KnownNodes]
    /\ round' = [start |-> nodeMetrics, moved |-> FALSE]
    /\ UNCHANGED <<channel, working, cancelled, crashed>>

\* The range begins to copy an entry, in an order Go leaves open.  A value
\* that is being stored at the time may be in part in its place.
VisitNode ==
    /\ computer.pc = "iterate"
    /\ \E x \in computer.left :
          computer' = [computer EXCEPT
                          !.pc = "copy", !.at = x, !.left = @ \ {x},
                          !.from = {nodeMetrics[x]} \cup
                              {v \in {worker.m} : worker.pc = "store" /\ v.node = x}]
    /\ UNCHANGED <<channel, working, round, cancelled, crashed>>

\* The tenant of a copy: None is the empty string, and a string made of the
\* parts of two.
TenantsOf(from) ==
    LET stated == {v.tenant : v \in from \ {Zero}} IN
    IF Zero \notin from /\ Cardinality(stated) = 1 THEN stated ELSE stated \cup {None}

\* Mutant: a tenant's list is assigned and not appended to.
AddToGroupAlone(used, copy) == {c \in used : c.tenant # copy.tenant} \cup {copy}

AddToGroup(used, copy) == used \cup {copy}

\* The copy is made, and goes to the group of the tenant it states.
CopyNode ==
    /\ computer.pc = "copy"
    /\ \E t \in TenantsOf(computer.from) :
          computer' = [computer EXCEPT
                          !.pc = "iterate", !.at = None, !.from = {},
                          !.used = AddToGroup(@, [node |-> computer.at, tenant |-> t,
                                                  from |-> computer.from])]
    /\ UNCHANGED <<channel, working, round, cancelled, crashed>>

\* The range has ended.  The correlator is drained, and what it returns goes
\* to every tenant alike; each tenant's row is computed from its group,
\* written and published, and errors are logged.
EndRound ==
    /\ computer.pc = "iterate"
    /\ computer.left = {}
    /\ computer' = [computer EXCEPT !.pc = "select", !.used = {}]
    /\ round' = NoRound
    /\ UNCHANGED <<channel, working, cancelled, crashed>>

ComputerStop ==
    /\ computer.pc = "select"
    /\ cancelled
    /\ computer' = [computer EXCEPT !.pc = "stopped"]
    /\ UNCHANGED <<channel, working, round, cancelled, crashed>>

Cancel ==
    /\ ~cancelled
    /\ cancelled' = TRUE
    /\ UNCHANGED <<channel, working, computing, crashed>>

-----------------------------------------------------------------------------
Arrive == \E r \in Reports : IngestNodeMetrics(r)
Worker == Dequeue \/ FatalError \/ Store \/ WritePending
Computer == ComputeTick \/ VisitNode \/ CopyNode \/ EndRound
Stop == WorkerStop \/ ComputerStop

Next == ~crashed /\ (Arrive \/ Worker \/ Computer \/ Cancel \/ Stop)

Spec == Init /\ [][Next]_vars

\* Goroutines run, tickers fire, calls return.
Fairness == WF_vars(~crashed /\ Worker)

FairSpec == Spec /\ Fairness

-----------------------------------------------------------------------------
(* The type invariant.  metricCh never holds more than its capacity.       *)
TypeOK ==
    /\ metricCh \in Seq(Metric) /\ Len(metricCh) <= MetricChCap
    /\ received \in 0 .. MaxMetrics
    /\ dropped \subseteq 1 .. received /\ overtaken \subseteq Node
    /\ worker \in [pc : {"select", "store", "stopped"},
                   m : Metric \cup {None}]
    /\ pending \in Seq(1 .. received)
    /\ attempts \in [1 .. MaxMetrics -> Nat] /\ failed \subseteq 1 .. received
    /\ nodeMetrics \in [Node -> Metric \cup {None, Zero}]
    /\ newest \in [Node -> Metric \cup {None}]
    /\ computer \in [pc : {"select", "iterate", "copy", "stopped"},
                     left : SUBSET Node, at : Node \cup {None},
                     from : SUBSET (Metric \cup {Zero}),
                     used : SUBSET [node : Node, tenant : Tenant \cup {None},
                                    from : SUBSET (Metric \cup {Zero})]]
    /\ round \in [start : [Node -> Metric \cup {None, Zero}], moved : BOOLEAN]
    /\ growing \in BOOLEAN /\ cancelled \in BOOLEAN /\ crashed \in BOOLEAN

(* A metric answered with 202 is in one place at a time: dropped, in the   *)
(* channel, on its way to the list, in the list, in a write that succeeded *)
(* or in one that failed.  None is in two writes, so ClickHouse never      *)
(* counts it twice; and a metric whose write has failed is nowhere else.   *)
Place(n) == {p \in {"dropped", "queued", "hand", "pending", "written", "failed"} :
                \/ p = "dropped" /\ n \in dropped
                \/ p = "queued" /\ \E i \in DOMAIN metricCh : metricCh[i].n = n
                \/ p = "hand" /\ worker.pc = "store" /\ worker.m.n = n
                \/ p = "pending" /\ n \in ToSet(pending)
                \/ p = "written" /\ attempts[n] > 0 /\ n \notin failed
                \/ p = "failed" /\ n \in failed}

WrittenAtMostOnce ==
    /\ \A n \in 1 .. received : Cardinality(Place(n)) = 1
    /\ \A n \in 1 .. MaxMetrics : attempts[n] <= 1
    /\ IsInjective(pending)

(* Between its assignments the map holds the last metric taken from the    *)
(* channel for each node.  The assignment does not compare Timestamps      *)
(* (aggregator.go:253), so that is the latest one of the node only if its  *)
(* requests have not overtaken each other on their way in: then no metric  *)
(* that still waits is older than the one in the map, and the node does    *)
(* not go back in time.                                                    *)
NodesFollowArrivals ==
    /\ worker.pc # "store" => nodeMetrics = newest
    /\ \A m \in ToSet(metricCh) :
           m.node \notin overtaken /\ newest[m.node] # None => newest[m.node].at <= m.at

(* What the race over nodeMetrics can do to a round of training metrics    *)
(* that the process survives.  No node is used twice.  A copy has no word  *)
(* from before the round, and a copy that no assignment overlapped is one  *)
(* whole metric of its node, in the group of the tenant it states.  Zeros  *)
(* are in a copy only if its node had no value yet when the round began,   *)
(* or if entries of the map have moved under the range; and only in the    *)
(* second case is a node missing that the map holds.                       *)
RoundsContainTheRace ==
    Ranging =>
        /\ \A c, d \in computer.used : c.node = d.node => c = d
        /\ \A c \in computer.used :
               /\ \A v \in c.from \ {Zero} :
                      /\ v.node = c.node
                      /\ round.start[c.node] \in Metric => v.n >= round.start[c.node].n
                      /\ c.from = {v} => c.tenant = v.tenant
               /\ Zero \in c.from => round.moved \/ round.start[c.node] = Zero
        /\ \A x \in KnownNodes \ (computer.left \cup {computer.at}) :
               round.moved \/ \E c \in computer.used : c.node = x

(* A metric taken into the channel gets its one write in the end, even the *)
(* last one to arrive, unless the process is cancelled or ends first.  The *)
(* write may fail, and then the metric is not written again.               *)
MetricsGetTheirWrite ==
    \A n \in 1 .. MaxMetrics :
        n \in 1 .. received \ dropped ~> attempts[n] > 0 \/ cancelled \/ crashed

-----------------------------------------------------------------------------
(* "Component failure should reduce fidelity, not cause outages"           *)
(* (docs/PRD-and-Functional-Spec.md:185): the arrival of a metric does not *)
(* end the aggregator.                                                     *)
NeverCrashes == ~crashed
=============================================================================
