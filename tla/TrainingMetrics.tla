-------------------------- MODULE TrainingMetrics --------------------------
(***************************************************************************)
(* The figures that a round computes from the last metrics of each node    *)
(* and the correlated flows: MetricsComputer of pkg/aggregator/training_   *)
(* metrics.go and, called by nobody yet, the StragglerDetector beside it.  *)
(* Floating-point quotients are taken in tenths of a percent, rounded      *)
(* down, and a node has one CPU.  Nodes come in the order of a Go map, and *)
(* sort.Slice may put ties in any order.                                   *)
(*                                                                         *)
(* The comment of DetectStragglers (straggler_detector.go:27-31) names     *)
(* four signals.  The third, "Context switch rate anomalies", is nowhere   *)
(* computed: the detector has the other three, and so has this module.     *)
(***************************************************************************)
EXTENDS Integers, Sequences, SequencesExt, FiniteSets, FiniteSetsExt, Functions

CONSTANTS
    Node,
    Sample,     \* a node's metrics: [ib |-> BOOLEAN, util, kernel, softirq, user, active],
                \* where util may exceed 100, as it is taken from counters of all times
    NoSample,
    Flows,      \* sets of flows a round may see: [id, node, forward, rdma, retransmits, bytes]
    Capacity,   \* bytes that a link can carry in the window
    MaxListed   \* 10 for the computer, 20 for the detector

\* There are finitely many nodes, and a utilization is a number.
ConfigAssumption ==
    /\ IsFiniteSet(Node) /\ MaxListed \in Nat
    /\ NoSample \notin Sample /\ \A s \in Sample : s.util \in Nat

VARIABLES
    sample,  \* the last metrics of each node
    result   \* of the round, until the next metrics arrive

vars == <<sample, result>>

NoResult == [score |-> -1]

Reporting == {n \in Node : sample[n] # NoSample}
WithIB == {n \in Reporting : sample[n].ib}

Abs(x) == IF x < 0 THEN -x ELSE x
Ratio(a, b) == IF b = 0 THEN 0 ELSE (a * 1000) \div b

\* The value at place i of the values of F in order.
Place(F, i) ==
    CHOOSE v \in Range(F) : /\ Cardinality({n \in DOMAIN F : F[n] < v}) < i
                            /\ Cardinality({n \in DOMAIN F : F[n] <= v}) >= i

\* Mutant: the list is cut before it is sorted.
WorstFirstCut(S, F) ==
    UNION {{o \in SetToSeqs(c) : IsSorted(o, LAMBDA a, b : F[a] >= F[b])} :
              c \in {d \in SUBSET S : Cardinality(d) = Min({MaxListed, Cardinality(S)})}}

\* The first of every descending arrangement of S by F.
WorstFirst(S, F) ==
    {SubSeq(o, 1, Min({MaxListed, Len(o)})) :
        o \in {q \in SetToSeqs(S) : IsSorted(q, LAMBDA a, b : F[a] >= F[b])}}

-----------------------------------------------------------------------------
(* MetricsComputer.                                                        *)

Utils == [n \in WithIB |-> sample[n].util]

\* Mutant: the place is one too low.
UpperMedianLow(F) == Place(F, Max({1, Cardinality(DOMAIN F) \div 2}))

\* Of an even number of utilizations the computer takes the upper middle one.
UpperMedian(F) == Place(F, Cardinality(DOMAIN F) \div 2 + 1)

DeviationFrom(F, m) == [n \in DOMAIN F |-> Abs(F[n] - m)]

StragglerScore ==
    IF WithIB = {} THEN 0
    ELSE LET m == UpperMedian(Utils) IN Ratio(Max(Range(DeviationFrom(Utils, m))), m)

Deviating(dev) == {n \in DOMAIN dev : dev[n] > 20}

StragglerLists ==
    IF WithIB = {} THEN {<< >>}
    ELSE LET dev == DeviationFrom(Utils, UpperMedian(Utils))
         IN  WorstFirst(Deviating(dev), dev)

\* Agents do not send the user time, and so the ratio is 0 or 100 percent.
BubbleRatio ==
    LET softirq == MapThenSumSet(LAMBDA n : sample[n].softirq, Reporting)
        user == MapThenSumSet(LAMBDA n : sample[n].user, Reporting)
    IN  Ratio(softirq, softirq + user)

GradSyncOverhead ==
    Ratio(MapThenSumSet(LAMBDA n : sample[n].kernel, Reporting),
          MapThenSumSet(LAMBDA n : sample[n].active, Reporting))

Bytes(flows) == MapThenSumSet(LAMBDA f : f.bytes, flows)

NetworkSaturation(flows) == Ratio(Bytes(flows), Capacity)

\* The square of the coefficient of variation.
Imbalance(flows) ==
    IF Cardinality(flows) < 2 \/ Bytes(flows) = 0 THEN 0
    ELSE Ratio(Cardinality(flows) * MapThenSumSet(LAMBDA f : f.bytes * f.bytes, flows)
                   - Bytes(flows) * Bytes(flows),
               Bytes(flows) * Bytes(flows))

-----------------------------------------------------------------------------
(* StragglerDetector, whose median is the mean of the two middle values.   *)

Median(F) ==
    LET k == Cardinality(DOMAIN F)
    IN  IF k = 0 THEN 0
        ELSE IF k % 2 = 1 THEN Place(F, k \div 2 + 1)
        ELSE (Place(F, k \div 2) + Place(F, k \div 2 + 1)) \div 2

\* The deviation of a node in one signal, relative to the median.
Relative(F, n) == IF n \in DOMAIN F THEN Ratio(Abs(F[n] - Median(F)), Median(F)) ELSE 0

Retransmits(flows) ==
    LET counted == {f \in flows : f.rdma /\ f.forward}
    IN  [n \in {f.node : f \in counted} |->
            MapThenSumSet(LAMBDA f : f.retransmits, {f \in counted : f.node = n})]

Kernels == [n \in Reporting |-> sample[n].kernel]

\* The weights are 0.4, 0.2 and 0.4.
DetectorScore(flows, n) ==
    (4 * Relative(Utils, n)
       + (IF n \in Reporting THEN 20 * Abs(Kernels[n] - Median(Kernels)) ELSE 0)
       + 4 * Relative(Retransmits(flows), n)) \div 10

\* A node that is known only by its flows can be listed, too.  The detector
\* looks up its name among the nodes with InfiniBand and lists "" otherwise.
Suspects(flows) == IF Cardinality(Reporting) < 3 THEN {}
                   ELSE Reporting \cup DOMAIN Retransmits(flows)

DetectorLists(flows) ==
    LET score == [n \in Suspects(flows) |-> DetectorScore(flows, n)]
    IN  WorstFirst({n \in DOMAIN score : score[n] >= 150}, score)

-----------------------------------------------------------------------------
Init == sample = [n \in Node |-> NoSample] /\ result = NoResult

IngestNodeMetrics ==
    \E n \in Node, s \in Sample :
        /\ sample' = [sample EXCEPT ![n] = s]
        /\ result' = NoResult

ComputeTrainingMetrics ==
    /\ result = NoResult /\ Reporting # {}
    /\ \E flows \in Flows : \E listed \in StragglerLists, detected \in DetectorLists(flows) :
          result' = [score |-> StragglerScore, stragglers |-> listed, detected |-> detected,
                     bubble |-> BubbleRatio, gradSync |-> GradSyncOverhead,
                     saturation |-> NetworkSaturation(flows), imbalance |-> Imbalance(flows),
                     flows |-> flows]
    /\ UNCHANGED sample

Next == IngestNodeMetrics \/ ComputeTrainingMetrics

Spec == Init /\ [][Next]_vars

-----------------------------------------------------------------------------
(* The type invariant.                                                     *)
TypeOK ==
    /\ sample \in [Node -> Sample \cup {NoSample}]
    /\ result = NoResult \/
          /\ {result.score, result.gradSync, result.saturation} \subseteq Nat
          /\ result.bubble \in 0 .. 1000
          /\ result.imbalance \in 0 .. 1000 * Cardinality(result.flows)
          /\ \A q \in {result.stragglers, result.detected} :
                IsInjective(q) /\ Len(q) <= MaxListed /\ ToSet(q) \subseteq Node

(* The stragglers of a round are nodes with InfiniBand metrics that differ *)
(* from at least half of them by more than 20 points, no node that was     *)
(* left out differs more from the median, none that differs more than 20   *)
(* points is left out below the maximal length, and the score is at least  *)
(* that of a deviation of 20 points.  Not all nodes are stragglers.        *)
StragglersAreWorst ==
    result # NoResult =>
        LET listed == ToSet(result.stragglers)
            far(n) == {o \in WithIB : Abs(Utils[n] - Utils[o]) > 20}
            dev == DeviationFrom(Utils, UpperMedian(Utils))
        IN  /\ listed \subseteq WithIB
            /\ \A n \in listed : 2 * Cardinality(far(n)) >= Cardinality(WithIB)
            /\ \A n \in listed, o \in WithIB \ listed : dev[n] >= dev[o]
            /\ Len(result.stragglers) < MaxListed => \A o \in WithIB \ listed : dev[o] <= 20
            /\ WithIB # {} => listed # WithIB
            /\ listed # {} => result.score >= Ratio(20, UpperMedian(Utils))

(* The two parts judge alike where they can be compared, on an odd number  *)
(* of nodes, all with InfiniBand metrics, in the three signals that the    *)
(* code computes: a node that the detector lists although its kernel time  *)
(* and its retransmissions are the median ones deviates in utilization as  *)
(* far as the threshold says, so that the score shows it; and nobody is    *)
(* listed who is in the middle of all three.  A node that stands out by    *)
(* its context switches only is such a node: contrary to the comment in    *)
(* the code, it is never listed.                                           *)
DetectorsAgree ==
    result # NoResult /\ WithIB = Reporting /\ Cardinality(WithIB) % 2 = 1 =>
        LET retransmits == Retransmits(result.flows)
            elsewhereMedian(n) ==
                /\ n \in Reporting
                /\ Kernels[n] = Median(Kernels)
                /\ n \in DOMAIN retransmits => retransmits[n] = Median(retransmits)
        IN  \A n \in ToSet(result.detected) :
                elsewhereMedian(n) => /\ Utils[n] # UpperMedian(Utils)
                                      /\ 4 * result.score >= 1500
=============================================================================
