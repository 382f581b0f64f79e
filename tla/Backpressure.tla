---------------------------- MODULE Backpressure ----------------------------
(***************************************************************************)
(* The controller of pkg/transport/backpressure.go.  Producers ask         *)
(* ShouldSend and, if told so, Enqueue; drainers Dequeue after a send.     *)
(* Every field is an atomic of its own and nothing joins the accesses of a *)
(* call, so each load and each store is a step.  No program calls the      *)
(* controller yet: who calls it, and in which order, is taken from the     *)
(* comments on its methods.                                                *)
(***************************************************************************)
EXTENDS Integers, FiniteSets

CONSTANTS Producer, Drainer,
          MaxQueueDepth, MinRate, MaxRate,  \* arguments of the constructor
          RampUpStep,      \* 100
          RampDownFactor   \* 2

\* What a sensible configuration is.  A queue shorter than four messages has
\* a ramp-up threshold of zero, below which the depth never falls.
ConfigAssumption ==
    /\ IsFiniteSet(Producer) /\ Producer \cap Drainer = {}
    /\ MaxQueueDepth \in Nat /\ MaxQueueDepth >= 4
    /\ MinRate \in Nat /\ MaxRate \in Nat /\ MinRate <= MaxRate
    /\ RampUpStep \in Nat /\ RampDownFactor \in Nat \ {0}

VARIABLES
    queueDepth, sendRate,
    dropped,        \* the counter of dropped messages, as far as Monitor looks: none or some
    backpressured,
    pc,             \* where each producer and each drainer is in its call
    rate            \* the rate that each has computed and not stored yet

shared == <<queueDepth, sendRate, dropped, backpressured>>
vars == <<shared, pc, rate>>

Goroutine == Producer \cup Drainer

Init ==
    /\ queueDepth = 0 /\ sendRate = MaxRate /\ dropped = 0 /\ backpressured = FALSE
    /\ pc = [c \in Goroutine |-> "idle"]
    /\ rate = [c \in Goroutine |-> MaxRate]

Go(c, from, to) == pc[c] = from /\ pc' = [pc EXCEPT ![c] = to]

-----------------------------------------------------------------------------
(* ShouldSend and Enqueue.                                                 *)

SlowDownAbove == (MaxQueueDepth * 3) \div 4
SpeedUpBelow == MaxQueueDepth \div 4

\* Mutant: a full queue is only full above its double.
AdmitDoubled(p) ==
    /\ queueDepth \in SlowDownAbove + 1 .. 2 * MaxQueueDepth
    /\ Go(p, "idle", "load") /\ UNCHANGED <<shared, rate>>

\* The load of the depth decides the call.
Refuse(p) ==
    /\ queueDepth > MaxQueueDepth
    /\ Go(p, "idle", "refuse") /\ UNCHANGED <<shared, rate>>

AdmitSlowing(p) ==
    /\ queueDepth \in SlowDownAbove + 1 .. MaxQueueDepth
    /\ Go(p, "idle", "load") /\ UNCHANGED <<shared, rate>>

Admit(p) ==
    /\ queueDepth <= SlowDownAbove
    /\ Go(p, "idle", "enqueue") /\ UNCHANGED <<shared, rate>>

RefuseFlags(p) ==
    /\ Go(p, "refuse", "count")
    /\ backpressured' = TRUE
    /\ UNCHANGED <<queueDepth, sendRate, dropped, rate>>

RefuseCounts(p) ==
    /\ Go(p, "count", "idle")
    /\ dropped' = 1
    /\ UNCHANGED <<queueDepth, sendRate, backpressured, rate>>

Slowed(r) == LET s == r \div RampDownFactor IN IF s < MinRate THEN MinRate ELSE s

LoadRate(p) ==
    /\ Go(p, "load", "slow")
    /\ rate' = [rate EXCEPT ![p] = Slowed(sendRate)]
    /\ UNCHANGED shared

StoreSlowed(p) ==
    /\ Go(p, "slow", "flag")
    /\ sendRate' = rate[p] /\ rate' = [rate EXCEPT ![p] = MaxRate]
    /\ UNCHANGED <<queueDepth, dropped, backpressured>>

SlowFlags(p) ==
    /\ Go(p, "flag", "enqueue")
    /\ backpressured' = TRUE
    /\ UNCHANGED <<queueDepth, sendRate, dropped, rate>>

Enqueue(p) ==
    /\ Go(p, "enqueue", "idle")
    /\ queueDepth' = queueDepth + 1
    /\ UNCHANGED <<sendRate, dropped, backpressured, rate>>

-----------------------------------------------------------------------------
(* Dequeue, called for a message that is in the queue.                     *)

DequeueSubtract(d) ==
    /\ queueDepth > 0
    /\ Go(d, "idle", "subtracted")
    /\ queueDepth' = queueDepth - 1
    /\ UNCHANGED <<sendRate, dropped, backpressured, rate>>

DequeueStays(d) ==
    /\ queueDepth >= SpeedUpBelow
    /\ Go(d, "subtracted", "idle") /\ UNCHANGED <<shared, rate>>

DequeueDrains(d) ==
    /\ queueDepth < SpeedUpBelow
    /\ Go(d, "subtracted", "loadUp") /\ UNCHANGED <<shared, rate>>

RaisedTo(r) == IF r + RampUpStep > MaxRate THEN MaxRate ELSE r + RampUpStep

LoadForRaise(d) ==
    /\ Go(d, "loadUp", "raise")
    /\ rate' = [rate EXCEPT ![d] = RaisedTo(sendRate)]
    /\ UNCHANGED shared

StoreRaised(d) ==
    /\ Go(d, "raise", "release")
    /\ sendRate' = rate[d] /\ rate' = [rate EXCEPT ![d] = MaxRate]
    /\ UNCHANGED <<queueDepth, dropped, backpressured>>

\* Mutant: the flag is left to the next call.
ReleaseNot(d) == Go(d, "release", "idle") /\ UNCHANGED <<shared, rate>>

Release(d) ==
    /\ Go(d, "release", "idle")
    /\ backpressured' = FALSE
    /\ UNCHANGED <<queueDepth, sendRate, dropped, rate>>

-----------------------------------------------------------------------------
ShouldSend(p) == \/ Refuse(p) \/ AdmitSlowing(p) \/ Admit(p)
                 \/ RefuseFlags(p) \/ RefuseCounts(p)
                 \/ LoadRate(p) \/ StoreSlowed(p) \/ SlowFlags(p)

Dequeue(d) == \/ DequeueSubtract(d) \/ DequeueStays(d) \/ DequeueDrains(d)
              \/ LoadForRaise(d) \/ StoreRaised(d) \/ Release(d)

Next == \/ \E p \in Producer : ShouldSend(p) \/ Enqueue(p)
        \/ \E d \in Drainer : Dequeue(d)

\* A call that has begun returns, as no call waits for anything.  Whether
\* anybody calls again is up to the callers.
Fairness == /\ \A p \in Producer : WF_vars(pc[p] # "idle" /\ (ShouldSend(p) \/ Enqueue(p)))
            /\ \A d \in Drainer : WF_vars(pc[d] # "idle" /\ Dequeue(d))

Spec == Init /\ [][Next]_vars /\ Fairness

-----------------------------------------------------------------------------
(* The type invariant.                                                     *)
TypeOK ==
    /\ queueDepth \in Nat
    /\ sendRate \in Nat
    /\ dropped \in {0, 1}
    /\ backpressured \in BOOLEAN
    /\ pc \in [Goroutine -> {"idle", "refuse", "count", "load", "slow", "flag", "enqueue",
                          "subtracted", "loadUp", "raise", "release"}]
    /\ \A p \in Producer : pc[p] \notin {"subtracted", "loadUp", "raise", "release"}
    /\ rate \in [Goroutine -> Nat]

(* The check of the depth and its increment are apart, so the queue can    *)
(* pass its maximum, but only by as many messages as there are producers;  *)
(* and however loads and stores of the rate interleave, updates are lost   *)
(* but the rate stays between its limits.                                  *)
Admitted == {p \in Producer : pc[p] \in {"load", "slow", "flag", "enqueue"}}

QueueBounded ==
    /\ queueDepth + Cardinality(Admitted) <= MaxQueueDepth + Cardinality(Producer)
    /\ sendRate \in MinRate .. MaxRate

(* A refusal that is decided on a full queue may set the flag after the    *)
(* queue has been emptied, and then only a later Dequeue clears it: if     *)
(* none comes, it stays set on an empty queue.  Provided that messages     *)
(* keep being dequeued, a queue that stays short is not under backpressure *)
(* for ever, however refusals and releases interleave.                     *)
Dequeuing == \E d \in Drainer : pc[d] = "subtracted"

PressureReleased ==
    []<>Dequeuing /\ <>[](queueDepth < SpeedUpBelow) => []<>(~backpressured)
=============================================================================
