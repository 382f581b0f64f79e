----------------------- MODULE AggregatorFlowsProofs -----------------------
(***************************************************************************)
(* Proofs about the flow path of the aggregator, for any batches, any      *)
(* capacity of the channel and any number of arrivals: what becomes of     *)
(* batches, and that the goroutines together implement the correlator, and *)
(* with it the ledger.                                                     *)
(***************************************************************************)
EXTENDS AggregatorFlows, QueueLemmas

\* The flows that may be ingested, and the batches as they are in the channel.
Reported == UNION {ToSet(b) : b \in Batches}
Posted == [n : 1 .. MaxBatches, flows : Batches]

\* The correlator's map as FlowCorrelator sees it.
View == IF LockHeld THEN [flows EXCEPT ![CurrentKey] = before] ELSE flows

-----------------------------------------------------------------------------
(* Lemmas about flows and entries.                                         *)

(* What is reported are flows, batch by batch.                             *)
LEMMA ReportedAreFlows ==
    /\ Reported \subseteq Flow
    /\ \A b \in Batches : b \in Seq(Reported) /\ b # << >> /\ b \in Seq(Flow)
<1>1. ASSUME NEW b \in Batches
      PROVE  ToSet(b) \subseteq Flow /\ b \in Seq(Reported) /\ b # << >> /\ b \in Seq(Flow)
    BY BatchesAreFlows, ElementFacts DEF Reported
<1>2. QED BY <1>1 DEF Reported

(* The key of a flow is a key.                                             *)
LEMMA KeyIsKey ==
    ASSUME NEW f \in Flow
    PROVE  MakeCorrelationKey(f.key) \in CorrelationKey
BY DEF Flow, FlowKey, CorrelationKey, MakeCorrelationKey, ReverseKey, LowerFirst

(* A new entry is an entry, and the steps of Ingest make entries of them.  *)
LEMMA NewEntryIsEntry ==
    ASSUME NEW f \in Flow
    PROVE  NewEntry(f) \in CorrelatedFlow
BY DEF NewEntry, CorrelatedFlow, Flow

LEMMA StepsKeepType ==
    ASSUME NEW cf \in CorrelatedFlow, NEW f \in Flow
    PROVE  /\ StoreHalf(cf, f) \in CorrelatedFlow
           /\ AddForward(cf) \in CorrelatedFlow
           /\ AddReverse(cf) \in CorrelatedFlow
           /\ BytesOf(cf.fwd) \in Nat
<1>1. ASSUME NEW h \in Flow \cup {None} PROVE AddHalf(cf, h) \in CorrelatedFlow
  <2>1. CASE h = None
      BY <2>1 DEF AddHalf
  <2>2. CASE h \in Flow
    <3>1. /\ cf.total + h.bytes \in Nat
          /\ Earlier(cf.first, h.first) \in Time /\ Later(cf.last, h.last) \in Time
        BY <2>2 DEF Flow, CorrelatedFlow, Earlier, Later
    <3>2. QED BY <2>2, <3>1 DEF AddHalf, CorrelatedFlow
  <2>3. QED BY <2>1, <2>2
<1>2. cf.fwd \in Flow \cup {None} /\ cf.rev \in Flow \cup {None}
    BY DEF CorrelatedFlow
<1>3. AddForward(cf) \in CorrelatedFlow
  <2>1. CASE cf.fwd # None /\ cf.fwd.rdma # None
    <3>1. cf.fwd.rdma \in RDMAInfo \cup {None}
        BY <1>2, <2>1 DEF Flow
    <3>2. QED BY <1>1, <1>2, <2>1, <3>1 DEF AddForward, CorrelatedFlow
  <2>2. QED BY <1>1, <1>2, <2>1 DEF AddForward
<1>4. AddReverse(cf) \in CorrelatedFlow
    BY <1>1, <1>2 DEF AddReverse
<1>5. StoreHalf(cf, f) \in CorrelatedFlow
    BY DEF StoreHalf, CorrelatedFlow, Flow
<1>6. BytesOf(cf.fwd) \in Nat
    BY <1>2 DEF BytesOf, Flow
<1>7. QED BY <1>3, <1>4, <1>5, <1>6

-----------------------------------------------------------------------------
(* The inductive invariant, in five parts.                                 *)

Pcs == {"select", "ingest", "addForward", "addReverse", "stopped"}

Types ==
    /\ flowCh \in Seq(Posted) /\ Len(flowCh) <= FlowChCap
    /\ received \in 0 .. MaxBatches
    /\ worker \in [pc : Pcs, batch : Posted \cup {None}, todo : Seq(Reported)]
    /\ flows \in [CorrelationKey -> CorrelatedFlow \cup {None}]
    /\ known \in [CorrelationKey -> Row \cup {None}]
    /\ before \in CorrelatedFlow \cup {None}
    /\ published \in Seq(Posted)

\* Where a batch is in hand, and what the lock protects.
Handling ==
    /\ worker.batch = None <=> worker.pc \in {"select", "stopped"}
    /\ LockHeld => worker.todo # << >>

\* Batches are taken, finished and published in the order of arrival.
Numbering ==
    /\ BatchesAccounted
    /\ \A m \in finished : \A n \in InHand \cup Queued : m < n
    /\ \A n \in InHand : \A q \in Queued : n < q
    /\ \A i \in DOMAIN published : published[i].n \in finished
    /\ \A i, j \in DOMAIN published : i < j => published[i].n < published[j].n

IsKnown(f) == known[MakeCorrelationKey(f.key)] # None

\* A flow of the batch in hand is still to be ingested or is known.
Merged ==
    /\ worker.batch # None =>
           \A f \in ToSet(worker.batch.flows) : f \in ToSet(worker.todo) \/ IsKnown(f)
    /\ \A p \in ToSet(published) : \A f \in ToSet(p.flows) : IsKnown(f)

\* Under the lock, the entry is as far as the steps of Ingest have come.
Stored == StoreHalf(IF before = None THEN NewEntry(Current) ELSE before, Current)

Locked ==
    /\ worker.pc = "addForward" => flows[CurrentKey] = Stored
    /\ worker.pc = "addReverse" => flows[CurrentKey] = AddForward(Stored)

Inv == Types /\ Handling /\ Numbering /\ Merged /\ Locked

\* What the other goroutines leave alone.
quiet == <<channel, finished, worker, correlator, published>>

-----------------------------------------------------------------------------
(* Initially nothing has arrived.                                          *)
LEMMA InitInv == Init => Inv
<1> SUFFICES ASSUME Init PROVE Inv
    OBVIOUS
<1> USE DEF Init
<1>1. Types
    BY EmptyFacts, FlowChHasRoom, ArrivalsAreBounded DEF Types, Pcs
<1>2. Handling
    BY DEF Handling, LockHeld
<1>3. Numbering
    BY EmptyFacts DEF Numbering, BatchesAccounted, Queued, InHand
<1>4. Merged /\ Locked
    BY EmptyFacts DEF Merged, Locked
<1>5. QED BY <1>1, <1>2, <1>3, <1>4 DEF Inv

(* The loops that drain the correlator, and cancellation, touch nothing of *)
(* what the invariant speaks of.                                           *)
LEMMA OthersAreQuiet ==
    ASSUME \/ Flusher \/ Computer \/ Cancel \/ FlusherStop \/ ComputerStop
           \/ UNCHANGED vars
    PROVE  UNCHANGED quiet
BY DEF Flusher, FlushTick, ReadForward, ReadTotals, SendOK, SendFails, FlushEnds,
       Flushing, Computer, ComputeDrain, ComputeDone, Cancel, FlusherStop,
       ComputerStop, DrainAll, quiet, channel, correlator, vars

LEMMA QuietKeepsInv ==
    ASSUME Inv, UNCHANGED quiet
    PROVE  Inv'
BY DEF Inv, quiet, channel, correlator, Types, Handling, Numbering, Merged, Locked,
       LockHeld, Current, CurrentKey, Stored, IsKnown, BatchesAccounted, Queued, InHand

(* The channel is a queue of numbered batches, in order.                   *)
LEMMA ChannelInOrder ==
    /\ Queued = Numbers(flowCh)
    /\ Inv => InOrder(flowCh)
BY DEF Queued, Numbers, Inv, Numbering, BatchesAccounted, InOrder

(* A batch that arrives has the greatest number so far, wherever it goes.  *)
LEMMA ArrivalKeepsInv ==
    ASSUME Inv, NEW b \in Batches, IngestFlowBatch(b)
    PROVE  Inv'
<1>1. UNCHANGED <<finished, worker, flows, known, before, published>>
    BY DEF IngestFlowBatch, correlator
<1> DEFINE e == [n |-> received', flows |-> b]
<1>2. /\ received' = received + 1 /\ received \in Nat /\ received' \in 1 .. MaxBatches
      /\ e \in Posted /\ e.n = received'
    BY ArrivalsAreBounded DEF Inv, Types, IngestFlowBatch, Posted
<1>3. /\ flowCh \in Seq(Posted) /\ DOMAIN flowCh = 1 .. Len(flowCh) /\ Len(flowCh) \in Nat
      /\ Queued \subseteq 1 .. received /\ InHand \subseteq 1 .. received
      /\ finished \subseteq 1 .. received /\ dropped \subseteq 1 .. received
    BY LenProperties DEF Inv, Types, Numbering, BatchesAccounted
<1>4. Types'
  <2>1. flowCh' \in Seq(Posted) /\ Len(flowCh') <= FlowChCap
    <3>1. CASE flowCh' = Append(flowCh, e) /\ Len(flowCh) < FlowChCap
        BY <1>2, <1>3, <3>1, AppendFacts, FlowChHasRoom
    <3>2. CASE flowCh' = flowCh
        BY <3>2 DEF Inv, Types
    <3>3. QED BY <3>1, <3>2 DEF IngestFlowBatch
  <2>2. QED BY <1>1, <1>2, <2>1 DEF Inv, Types
<1>5. Handling' /\ Merged' /\ Locked'
    BY <1>1 DEF Inv, Handling, Merged, Locked, LockHeld, Current, CurrentKey, Stored, IsKnown
<1>6. InHand' = InHand
    BY <1>1 DEF InHand
<1>7. CASE Len(flowCh) < FlowChCap
  <2>1. flowCh' = Append(flowCh, e) /\ dropped' = dropped
      BY <1>3, <1>7, FlowChHasRoom DEF IngestFlowBatch
  <2>2. \A k \in Numbers(flowCh) : k < e.n
      BY <1>2, <1>3, ChannelInOrder
  <2>3. Queued' = Queued \cup {received'} /\ InOrder(flowCh')
    <3>1. Queued' = Numbers(flowCh')
        BY DEF Queued, Numbers
    <3>2. QED BY <1>2, <1>3, <2>1, <2>2, <3>1, ChannelInOrder, AppendInOrder
  <2>4. 1 .. received' = (1 .. received) \cup {received'} /\ received' \notin 1 .. received
      BY <1>2
  <2>5. BatchesAccounted'
      BY <1>1, <1>3, <1>6, <2>1, <2>3, <2>4 DEF Inv, Numbering, BatchesAccounted, InOrder
  <2>6. Numbering'
    <3>1. \A m \in finished \cup InHand : m < received'
        BY <1>2, <1>3
    <3>2. QED BY <1>1, <1>6, <2>3, <2>5, <3>1 DEF Inv, Numbering
  <2>7. QED BY <1>4, <1>5, <2>6 DEF Inv
<1>8. CASE ~ (Len(flowCh) < FlowChCap)
  <2>1. flowCh' = flowCh /\ dropped' = dropped \cup {received'}
      BY <1>8 DEF IngestFlowBatch
  <2>2. Queued' = Queued
      BY <2>1 DEF Queued
  <2>3. 1 .. received' = (1 .. received) \cup {received'} /\ received' \notin 1 .. received
      BY <1>2
  <2>4. BatchesAccounted'
      BY <1>1, <1>3, <1>6, <2>1, <2>2, <2>3 DEF Inv, Numbering, BatchesAccounted
  <2>5. Numbering'
      BY <1>1, <1>6, <2>2, <2>4 DEF Inv, Numbering
  <2>6. QED BY <1>4, <1>5, <2>5 DEF Inv
<1>9. QED BY <1>7, <1>8

(* The batch that is taken is the first that arrived of those queued.      *)
LEMMA DequeueKeepsInv ==
    ASSUME Inv, Dequeue
    PROVE  Inv'
<1>1. /\ UNCHANGED <<received, dropped, finished, flows, known, before, published>>
      /\ worker.pc = "select" /\ flowCh # << >> /\ flowCh' = Tail(flowCh)
      /\ worker' = [pc |-> "ingest", batch |-> Head(flowCh), todo |-> Head(flowCh).flows]
    BY DEF Dequeue, correlator
<1>2. /\ flowCh \in Seq(Posted) /\ Len(flowCh) <= FlowChCap
      /\ worker.batch = None
    BY <1>1 DEF Inv, Types, Handling
<1>3. /\ Head(flowCh) \in Posted /\ flowCh' \in Seq(Posted)
      /\ DOMAIN flowCh = 1 .. Len(flowCh) /\ Len(flowCh) \in Nat \ {0}
      /\ Len(flowCh') = Len(flowCh) - 1 /\ DOMAIN flowCh' = 1 .. Len(flowCh) - 1
      /\ \A i \in 1 .. Len(flowCh) - 1 : flowCh'[i] = flowCh[i + 1]
      /\ Head(flowCh) = flowCh[1]
    BY <1>1, <1>2, TailFacts
<1>4. Head(flowCh).n \in 1 .. MaxBatches /\ Head(flowCh).flows \in Batches
    BY <1>3 DEF Posted
<1>5. Head(flowCh) # None /\ Head(flowCh).flows \in Seq(Reported)
  <2>1. Posted \subseteq Numbered
      BY ReportedAreFlows DEF Posted, Numbered
  <2>2. QED BY <1>3, <1>4, <2>1, NoneIsNoRecord, ReportedAreFlows
<1>6. Types'
    BY <1>1, <1>2, <1>3, <1>5, FlowChHasRoom DEF Inv, Types, Pcs
<1>7. Handling' /\ Merged' /\ Locked'
    BY <1>1, <1>5 DEF Inv, Handling, Merged, Locked, LockHeld, IsKnown
<1> DEFINE h == Head(flowCh).n
<1>8. InHand = {} /\ InHand' = {h}
    BY <1>1, <1>2, <1>5 DEF InHand
<1>9. Queued = Queued' \cup {h} /\ (\A q \in Queued' : h < q) /\ InOrder(flowCh')
  <2>1. Queued' = Numbers(flowCh')
      BY DEF Queued, Numbers
  <2>2. QED BY <1>1, <1>2, <2>1, ChannelInOrder, TailInOrder
<1>10. h \notin Queued'
    BY <1>4, <1>9
<1>11. BatchesAccounted'
    BY <1>1, <1>8, <1>9, <1>10 DEF Inv, Numbering, BatchesAccounted, InOrder
<1>12. Numbering'
    BY <1>1, <1>8, <1>9, <1>11 DEF Inv, Numbering
<1>13. QED BY <1>6, <1>7, <1>12 DEF Inv

(* A step of processFlows inside a batch: the queue and the numbers do not *)
(* change, and no conversation is forgotten.                               *)
LEMMA InsideBatch ==
    ASSUME Inv, UNCHANGED <<channel, finished, published, worker.batch>>
    PROVE  Numbering'
<1>1. UNCHANGED <<flowCh, received, dropped, finished, published>> /\ InHand' = InHand
      /\ Queued' = Queued
    BY DEF channel, InHand, Queued
<1>2. QED BY <1>1 DEF Inv, Numbering, BatchesAccounted

LEMMA CurrentIsFlow ==
    ASSUME Inv, worker.todo # << >>
    PROVE  /\ worker.todo \in Seq(Reported)
           /\ Current \in Reported /\ Current \in Flow /\ CurrentKey \in CorrelationKey
BY TailFacts, ReportedAreFlows, KeyIsKey DEF Inv, Types, Current, CurrentKey

LEMMA StoredIsEntry ==
    ASSUME Inv, worker.todo # << >>
    PROVE  Stored \in CorrelatedFlow
<1>1. Current \in Flow /\ before \in CorrelatedFlow \cup {None}
    BY CurrentIsFlow DEF Inv, Types
<1>2. QED BY <1>1, NewEntryIsEntry, StepsKeepType DEF Stored

LEMMA StoreKeepsInv ==
    ASSUME Inv, IngestStore
    PROVE  Inv'
<1>1. /\ worker.pc = "ingest" /\ worker.todo # << >>
      /\ worker' = [worker EXCEPT !.pc = "addForward"]
      /\ flows' = [flows EXCEPT ![CurrentKey] = StoreHalf(EntryFor(flows, Current), Current)]
      /\ before' = flows[CurrentKey] /\ known' = known
      /\ UNCHANGED <<channel, finished, published>>
    BY DEF IngestStore, Ingesting
<1>2. Current \in Flow /\ CurrentKey \in CorrelationKey
    BY <1>1, CurrentIsFlow
<1>3. /\ worker' \in [pc : Pcs, batch : Posted \cup {None}, todo : Seq(Reported)]
      /\ worker'.pc = "addForward" /\ worker'.batch = worker.batch /\ worker'.todo = worker.todo
    BY <1>1 DEF Inv, Types, Pcs
<1>4. before' \in CorrelatedFlow \cup {None}
    BY <1>1, <1>2 DEF Inv, Types
<1>5. EntryFor(flows, Current) = IF before' = None THEN NewEntry(Current) ELSE before'
    BY <1>1 DEF EntryFor, CurrentKey
<1>6. EntryFor(flows, Current) \in CorrelatedFlow
    BY <1>2, <1>4, <1>5, NewEntryIsEntry
<1>7. StoreHalf(EntryFor(flows, Current), Current) \in CorrelatedFlow
    BY <1>2, <1>6, StepsKeepType
<1>8. Types'
    BY <1>1, <1>2, <1>3, <1>4, <1>7 DEF Inv, Types, channel
<1>9. Current' = Current /\ CurrentKey' = CurrentKey
    BY <1>3 DEF Current, CurrentKey
<1>10. flows'[CurrentKey] = Stored'
    BY <1>1, <1>2, <1>5, <1>9 DEF Inv, Types, Stored
<1>11. Handling' /\ Locked'
    BY <1>1, <1>3, <1>9, <1>10 DEF Inv, Handling, Locked, LockHeld
<1>12. Merged'
    BY <1>1, <1>3 DEF Inv, Merged, IsKnown
<1>13. QED BY <1>1, <1>3, <1>8, <1>11, <1>12, InsideBatch DEF Inv

LEMMA AddForwardKeepsInv ==
    ASSUME Inv, IngestAddForward
    PROVE  Inv'
<1>1. /\ worker.pc = "addForward"
      /\ worker' = [worker EXCEPT !.pc = "addReverse"]
      /\ flows' = [flows EXCEPT ![CurrentKey] = AddForward(@)]
      /\ before' = before /\ known' = known
      /\ UNCHANGED <<channel, finished, published>>
    BY DEF IngestAddForward, Ingesting
<1>2. worker.todo # << >>
    BY <1>1 DEF Inv, Handling, LockHeld
<1>3. Current \in Flow /\ CurrentKey \in CorrelationKey
    BY <1>2, CurrentIsFlow
<1>4. /\ worker' \in [pc : Pcs, batch : Posted \cup {None}, todo : Seq(Reported)]
      /\ worker'.pc = "addReverse" /\ worker'.batch = worker.batch /\ worker'.todo = worker.todo
    BY <1>1 DEF Inv, Types, Pcs
<1>5. Stored \in CorrelatedFlow
    BY <1>2, StoredIsEntry
<1>6. /\ flows' = [flows EXCEPT ![CurrentKey] = AddForward(Stored)]
      /\ AddForward(Stored) \in CorrelatedFlow
    BY <1>1, <1>3, <1>5, StepsKeepType DEF Inv, Types, Locked
<1>7. Types'
    BY <1>1, <1>3, <1>4, <1>6 DEF Inv, Types, channel
<1>8. Current' = Current /\ CurrentKey' = CurrentKey /\ Stored' = Stored
    BY <1>1, <1>4 DEF Current, CurrentKey, Stored
<1>9. Handling' /\ Locked'
    BY <1>1, <1>2, <1>3, <1>4, <1>6, <1>8 DEF Inv, Types, Handling, Locked, LockHeld
<1>10. Merged'
    BY <1>1, <1>4 DEF Inv, Merged, IsKnown
<1>11. QED BY <1>1, <1>4, <1>7, <1>9, <1>10, InsideBatch DEF Inv

(* The last step of Ingest makes the flow known.                           *)
LEMMA AddReverseKeepsInv ==
    ASSUME Inv, IngestAddReverse
    PROVE  Inv'
<1>1. /\ worker.pc = "addReverse"
      /\ worker' = [worker EXCEPT !.pc = "ingest", !.todo = Tail(@)]
      /\ flows' = [flows EXCEPT ![CurrentKey] = AddReverse(@)]
      /\ known' = [known EXCEPT ![CurrentKey] = RowOf(CurrentKey, flows'[CurrentKey])]
      /\ before' = None
      /\ UNCHANGED <<channel, finished, published>>
    BY DEF IngestAddReverse, Ingesting
<1>2. worker.todo # << >> /\ worker.batch # None
    BY <1>1 DEF Inv, Handling, LockHeld
<1>3. Current \in Flow /\ CurrentKey \in CorrelationKey /\ worker.todo \in Seq(Reported)
    BY <1>2, CurrentIsFlow
<1>4. /\ worker' \in [pc : Pcs, batch : Posted \cup {None}, todo : Seq(Reported)]
      /\ worker'.pc = "ingest" /\ worker'.batch = worker.batch
      /\ worker'.todo = Tail(worker.todo)
      /\ ToSet(worker.todo) = ToSet(worker'.todo) \cup {Current}
    BY <1>1, <1>2, <1>3, TailFacts DEF Inv, Types, Pcs, Current
<1>5. AddForward(Stored) \in CorrelatedFlow
    BY <1>2, <1>3, StoredIsEntry, StepsKeepType
<1>6. /\ flows' \in [CorrelationKey -> CorrelatedFlow \cup {None}]
      /\ flows'[CurrentKey] \in CorrelatedFlow
    BY <1>1, <1>3, <1>5, StepsKeepType DEF Inv, Types, Locked
<1> DEFINE row == RowOf(CurrentKey, flows'[CurrentKey])
<1>7. row \in Row /\ row # None
  <2>1. BytesOf(flows'[CurrentKey].fwd) \in Nat /\ flows'[CurrentKey].total \in Nat
      BY <1>3, <1>6, StepsKeepType DEF CorrelatedFlow
  <2>2. row \in Row
      BY <1>3, <2>1 DEF RowOf, Row
  <2>3. QED BY <2>2, NoneIsNoRecord
<1>8. known' \in [CorrelationKey -> Row \cup {None}]
    BY <1>1, <1>3, <1>7 DEF Inv, Types
<1>9. Types'
    BY <1>1, <1>4, <1>6, <1>8 DEF Inv, Types, channel
<1>10. Handling' /\ Locked'
    BY <1>2, <1>4 DEF Handling, Locked, LockHeld
<1>11. known'[CurrentKey] # None
    BY <1>1, <1>3, <1>7 DEF Inv, Types
<1>12. ASSUME NEW f \in Flow, IsKnown(f) PROVE IsKnown(f)'
    BY <1>1, <1>3, <1>7, <1>12, KeyIsKey DEF Inv, Types, IsKnown
<1>13. Merged'
  <2>1. \A p \in Posted : ToSet(p.flows) \subseteq Flow
      BY ReportedAreFlows, ElementFacts DEF Posted
  <2>2. ToSet(worker.batch.flows) \subseteq Flow
      BY <1>2, <2>1 DEF Inv, Types
  <2>3. ASSUME NEW f \in ToSet(worker.batch.flows)
        PROVE  f \in ToSet(worker'.todo) \/ IsKnown(f)'
    <3>1. CASE f = Current
        BY <1>11, <3>1 DEF IsKnown, CurrentKey
    <3>2. CASE f # Current /\ f \in ToSet(worker.todo)
        BY <1>4, <3>2
    <3>3. CASE IsKnown(f)
        BY <1>12, <2>2, <3>3
    <3>4. QED BY <1>2, <2>3, <3>1, <3>2, <3>3 DEF Inv, Merged
  <2>4. ASSUME NEW p \in ToSet(published), NEW f \in ToSet(p.flows) PROVE IsKnown(f)'
    <3>1. p \in Posted
        BY ElementFacts DEF Inv, Types
    <3>2. QED BY <1>12, <2>1, <3>1 DEF Inv, Merged
  <2>5. QED BY <1>1, <1>4, <2>3, <2>4 DEF Merged, IsKnown
<1>14. QED BY <1>1, <1>4, <1>9, <1>10, <1>13, InsideBatch DEF Inv

(* A batch is published when all its flows are known.                      *)
LEMMA PublishKeepsInv ==
    ASSUME Inv, Publish
    PROVE  Inv'
<1>1. /\ worker.pc = "ingest" /\ worker.todo = << >>
      /\ worker' = [worker EXCEPT !.pc = "select", !.batch = None]
      /\ finished' = finished \cup {worker.batch.n}
      /\ published' = Append(published, worker.batch) \/ published' = published
      /\ UNCHANGED <<flowCh, received, dropped, flows, known, before>>
    BY DEF Publish, channel, correlator
<1>2. /\ worker' \in [pc : Pcs, batch : Posted \cup {None}, todo : Seq(Reported)]
      /\ worker'.pc = "select" /\ worker'.batch = None
      /\ worker.batch # None /\ worker.batch \in Posted /\ published \in Seq(Posted)
    BY <1>1 DEF Inv, Types, Handling, Pcs
<1>3. /\ DOMAIN published = 1 .. Len(published) /\ Len(published) \in Nat
      /\ \A p \in ToSet(published) : p \in Posted
    BY <1>2, LenProperties, ElementFacts
<1>4. published' = Append(published, worker.batch) =>
        /\ published' \in Seq(Posted)
        /\ DOMAIN published' = 1 .. Len(published) + 1
        /\ \A i \in 1 .. Len(published) : published'[i] = published[i]
        /\ published'[Len(published) + 1] = worker.batch
        /\ ToSet(published') = ToSet(published) \cup {worker.batch}
    BY <1>2, AppendFacts
<1>5. Types'
    BY <1>1, <1>2, <1>4 DEF Inv, Types
<1>6. Handling' /\ Locked'
    BY <1>2 DEF Handling, Locked, LockHeld
<1>7. Merged'
  <2>1. \A f \in ToSet(worker.batch.flows) : IsKnown(f)
      BY <1>1, <1>2, EmptyFacts DEF Inv, Merged
  <2>2. ASSUME NEW p \in ToSet(published'), NEW f \in ToSet(p.flows) PROVE IsKnown(f)
    <3>1. p \in ToSet(published) \cup {worker.batch}
        BY <1>1, <1>4
    <3>2. QED BY <2>1, <3>1 DEF Inv, Merged
  <2>3. QED BY <1>1, <1>2, <2>2 DEF Merged, IsKnown
<1> DEFINE n == worker.batch.n
<1>8. InHand = {n} /\ InHand' = {} /\ Queued' = Queued /\ n \in Nat
    BY <1>1, <1>2 DEF InHand, Queued, Posted
<1>9. BatchesAccounted'
    BY <1>1, <1>8 DEF Inv, Numbering, BatchesAccounted
<1>10. Numbering'
  <2>1. \A m \in finished' : \A q \in InHand' \cup Queued' : m < q
      BY <1>1, <1>8 DEF Inv, Numbering
  <2>2. Numbers(published) \subseteq finished /\ (\A k \in Numbers(published) : k < n)
        /\ InOrder(published)
      BY <1>8 DEF Inv, Numbering, Numbers, InOrder
  <2>3. Numbers(published') \subseteq finished' /\ InOrder(published')
    <3>1. CASE published' = Append(published, worker.batch)
        BY <1>1, <1>2, <2>2, <3>1, AppendInOrder
    <3>2. QED BY <1>1, <2>2, <3>1
  <2>4. QED BY <1>8, <1>9, <2>1, <2>3 DEF Numbering, Numbers, InOrder
<1>11. QED BY <1>5, <1>6, <1>7, <1>10 DEF Inv

LEMMA StopKeepsInv ==
    ASSUME Inv, WorkerStop
    PROVE  Inv'
<1>1. /\ worker.pc = "select" /\ worker' = [worker EXCEPT !.pc = "stopped"]
      /\ UNCHANGED <<channel, finished, correlator, published>>
    BY DEF WorkerStop
<1>2. /\ worker' \in [pc : Pcs, batch : Posted \cup {None}, todo : Seq(Reported)]
      /\ worker'.pc = "stopped" /\ worker'.batch = worker.batch /\ worker'.todo = worker.todo
    BY <1>1 DEF Inv, Types, Pcs
<1>3. Types' /\ Merged'
    BY <1>1, <1>2 DEF Inv, Types, Merged, IsKnown, channel, correlator
<1>4. Handling' /\ Locked'
    BY <1>1, <1>2 DEF Inv, Handling, Locked, LockHeld
<1>5. QED BY <1>1, <1>2, <1>3, <1>4, InsideBatch DEF Inv

LEMMA NextKeepsInv == Inv /\ [Next]_vars => Inv'
<1> SUFFICES ASSUME Inv, [Next]_vars PROVE Inv'
    OBVIOUS
<1>1. CASE Arrive
    BY <1>1, ArrivalKeepsInv DEF Arrive
<1>2. CASE Worker
    BY <1>2, DequeueKeepsInv, StoreKeepsInv, AddForwardKeepsInv, AddReverseKeepsInv,
       PublishKeepsInv DEF Worker
<1>3. CASE WorkerStop
    BY <1>3, StopKeepsInv
<1>4. CASE \/ Flusher \/ Computer \/ Cancel \/ FlusherStop \/ ComputerStop
           \/ UNCHANGED vars
    BY <1>4, OthersAreQuiet, QuietKeepsInv
<1>5. QED BY <1>1, <1>2, <1>3, <1>4 DEF Next, Stop

(* What the theorems rest on: the handlers, processFlows, the two drains   *)
(* and the cancellation, in any order, keep the inductive invariant.       *)
THEOREM InvHolds == Spec => []Inv
BY InitInv, NextKeepsInv, PTL DEF Spec

-----------------------------------------------------------------------------
(* What becomes of a batch.                                                *)

(* Every accepted batch is in exactly one place, and the channel keeps     *)
(* their order.                                                            *)
THEOREM BatchesCorrect == Spec => []BatchesAccounted
<1>1. Inv => BatchesAccounted
    BY DEF Inv, Numbering
<1>2. QED BY <1>1, InvHolds, PTL

(* A published batch is in the correlator, flow by flow, and batches are   *)
(* published at most once and in their order.                              *)
THEOREM PublishedCorrect == Spec => []PublishedIsCorrelated
<1>1. Inv => PublishedIsCorrelated
    BY DEF Inv, Numbering, Merged, IsKnown, PublishedIsCorrelated
<1>2. QED BY <1>1, InvHolds, PTL

-----------------------------------------------------------------------------
(* What the writers hold.  An entry is never taken out of the map, so that *)
(* flushLoop finds the entries it was given whenever it reads them.        *)

Held ==
    /\ flusher \in [pc : {"select", "rows", "stopped"}, todo : SUBSET Entries,
                    row : Row \cup {None}, rows : SUBSET Row]
    /\ flusher.row # None => flusher.row.ck \in Entries
    /\ computer \in {"select", "compute", "stopped"}
    /\ stored \subseteq Row
    /\ cancelled \in BOOLEAN

LEMMA EntriesStay ==
    ASSUME Inv, [Next]_vars
    PROVE  Entries \subseteq Entries'
<1>1. CASE IngestStore
  <2>1. worker.todo # << >>
      BY <1>1 DEF IngestStore
  <2>2. /\ flows' = [flows EXCEPT ![CurrentKey] = StoreHalf(EntryFor(flows, Current), Current)]
        /\ EntryFor(flows, Current) = IF flows[CurrentKey] = None THEN NewEntry(Current)
                                      ELSE flows[CurrentKey]
      BY <1>1 DEF IngestStore, EntryFor, CurrentKey
  <2>3. Current \in Flow /\ CurrentKey \in CorrelationKey
      BY <2>1, CurrentIsFlow
  <2>4. EntryFor(flows, Current) \in CorrelatedFlow
      BY <2>2, <2>3, NewEntryIsEntry DEF Inv, Types
  <2>5. StoreHalf(EntryFor(flows, Current), Current) # None
      BY <2>3, <2>4, StepsKeepType, NoneIsNoValue
  <2>6. QED BY <2>2, <2>5 DEF Inv, Types, Entries
<1>2. CASE IngestAddForward \/ IngestAddReverse
  <2>1. worker.todo # << >>
      BY <1>2 DEF IngestAddForward, IngestAddReverse, Inv, Handling, LockHeld
  <2>2. CurrentKey \in CorrelationKey /\ Current \in Flow /\ Stored \in CorrelatedFlow
      BY <2>1, CurrentIsFlow, StoredIsEntry
  <2>3. /\ AddForward(Stored) \in CorrelatedFlow /\ AddReverse(AddForward(Stored)) \in CorrelatedFlow
      BY <2>2, StepsKeepType
  <2>4. \E cf \in CorrelatedFlow : flows' = [flows EXCEPT ![CurrentKey] = cf]
      BY <1>2, <2>2, <2>3 DEF IngestAddForward, IngestAddReverse, Inv, Types, Locked
  <2>5. QED BY <2>2, <2>4, NoneIsNoValue DEF Inv, Types, Entries
<1>3. CASE Arrive \/ Dequeue \/ Publish \/ WorkerStop
    BY <1>3 DEF Arrive, IngestFlowBatch, Dequeue, Publish, WorkerStop, correlator, Entries
<1>4. CASE Flusher \/ Computer \/ Cancel \/ FlusherStop \/ ComputerStop \/ UNCHANGED vars
    BY <1>4, OthersAreQuiet DEF quiet, correlator, Entries
<1>5. QED BY <1>1, <1>2, <1>3, <1>4 DEF Next, Worker, Stop

LEMMA HeldStep == Inv /\ Held /\ [Next]_vars => Held'
<1> SUFFICES ASSUME Inv, Held, [Next]_vars PROVE Held'
    OBVIOUS
<1>1. Entries \subseteq Entries'
    BY EntriesStay
<1>2. ASSUME NEW ck \in Entries
      PROVE  RowOf(ck, flows[ck]) \in Row /\ flows[ck].total \in Nat
  <2>1. ck \in CorrelationKey /\ flows[ck] \in CorrelatedFlow
      BY DEF Entries, Inv, Types
  <2>2. BytesOf(flows[ck].fwd) \in Nat
      BY <2>1 DEF BytesOf, CorrelatedFlow, Flow
  <2>3. QED BY <2>1, <2>2 DEF RowOf, Row, CorrelatedFlow
<1>3. CASE UNCHANGED <<flusher, computer, stored, cancelled>>
    BY <1>1, <1>3 DEF Held
<1>4. CASE FlushTick
    BY <1>1, <1>4 DEF Held, FlushTick
<1>5. CASE ReadForward
  <2>1. PICK ck \in flusher.todo :
            flusher' = [flusher EXCEPT !.todo = @ \ {ck}, !.row = RowOf(ck, flows[ck])]
      BY <1>5 DEF ReadForward
  <2>2. RowOf(ck, flows[ck]) \in Row /\ RowOf(ck, flows[ck]).ck \in Entries
      BY <1>2 DEF Held, RowOf
  <2>3. UNCHANGED <<computer, stored, cancelled>>
      BY <1>5 DEF ReadForward, Flushing
  <2>4. QED BY <1>1, <2>1, <2>2, <2>3 DEF Held
<1>6. CASE ReadTotals
  <2> DEFINE row == [flusher.row EXCEPT !.total = flows[flusher.row.ck].total]
  <2>1. /\ flusher.row # None /\ UNCHANGED <<computer, stored, cancelled>>
        /\ flusher' = [flusher EXCEPT !.row = None, !.rows = @ \cup {row}]
      BY <1>6 DEF ReadTotals, Flushing
  <2>2. row \in Row
      BY <1>2, <2>1 DEF Held, Row
  <2> HIDE DEF row
  <2>3. QED BY <1>1, <2>1, <2>2 DEF Held
<1>7. CASE SendOK \/ SendFails
    BY <1>1, <1>7 DEF Held, SendOK, SendFails, FlushEnds, Flushing
<1>8. CASE FlusherStop
    BY <1>1, <1>8 DEF Held, FlusherStop, Flushing
<1>9. CASE Computer \/ ComputerStop \/ Cancel
    BY <1>1, <1>9 DEF Held, Computer, ComputeDrain, ComputeDone, ComputerStop, Cancel
<1>10. CASE Arrive \/ Worker \/ WorkerStop
    BY <1>3, <1>10 DEF Arrive, IngestFlowBatch, Worker, Dequeue, IngestStore,
       IngestAddForward, IngestAddReverse, Ingesting, Publish, WorkerStop
<1>11. QED BY <1>3, <1>4, <1>5, <1>6, <1>7, <1>8, <1>9, <1>10
           DEF Next, Flusher, Stop, vars

(* The types of the module: the channel stays within its capacity, and     *)
(* every row that is read, kept or stored is a whole one.                  *)
THEOREM FlowPathTypes == Spec => []TypeOK
<1>1. Init => Held
  <2> SUFFICES ASSUME Init PROVE Held
      OBVIOUS
  <2>1. flusher = [pc |-> "select", todo |-> {}, row |-> None, rows |-> {}]
      BY DEF Init
  <2>2. {} \in SUBSET Entries /\ {} \in SUBSET Row
      OBVIOUS
  <2>3. computer = "select" /\ stored = {} /\ cancelled \in BOOLEAN
      BY DEF Init
  <2>4. QED BY <2>1, <2>2, <2>3 DEF Held
<1>2. Inv /\ Held => TypeOK
  <2> SUFFICES ASSUME Inv, Held PROVE TypeOK
      OBVIOUS
  <2>1. Posted \subseteq Numbered /\ Reported \subseteq Flow
      BY ReportedAreFlows DEF Posted, Numbered
  <2>2. flowCh \in Seq(Numbered) /\ published \in Seq(Numbered) /\ worker.todo \in Seq(Flow)
    <3>1. ToSet(flowCh) \subseteq Posted /\ ToSet(published) \subseteq Posted
          /\ ToSet(worker.todo) \subseteq Reported
        BY ElementFacts DEF Inv, Types
    <3>2. QED BY <2>1, <3>1, ElementFacts DEF Inv, Types
  <2>3. dropped \subseteq 1 .. received /\ finished \subseteq 1 .. received
      BY DEF Inv, Numbering, BatchesAccounted
  <2>4. QED BY <2>1, <2>2, <2>3 DEF Inv, Types, Held, TypeOK, Entries, Pcs
<1>3. QED BY <1>1, <1>2, HeldStep, InvHolds, PTL DEF Spec

-----------------------------------------------------------------------------
(* Ingest is atomic.                                                       *)

\* The component with its proofs, over the same view of the map.
Component ==
    INSTANCE FlowCorrelatorProofs
        WITH flows <- IF LockHeld THEN [flows EXCEPT ![CurrentKey] = before]
                      ELSE flows,
             Observed <- UNION {ToSet(b) : b \in Batches},
             Cutoffs <- {}

(* The names of the instances mean what they mean here.                    *)
LEMMA SameNames ==
    /\ Correlator!CorrelationKey = CorrelationKey /\ Component!CorrelationKey = CorrelationKey
    /\ \A cf, f : Correlator!Merge(cf, f) = Merge(cf, f) /\ Component!Merge(cf, f) = Merge(cf, f)
    /\ \A m, f : /\ Correlator!EntryFor(m, f) = EntryFor(m, f)
                 /\ Component!EntryFor(m, f) = EntryFor(m, f)
    /\ \A k : /\ Correlator!MakeCorrelationKey(k) = MakeCorrelationKey(k)
              /\ Component!MakeCorrelationKey(k) = MakeCorrelationKey(k)
<1>1. Correlator!CorrelationKey = CorrelationKey /\ Component!CorrelationKey = CorrelationKey
    BY DEF Correlator!CorrelationKey, Component!CorrelationKey, CorrelationKey
<1>2. ASSUME NEW k
      PROVE  /\ Correlator!MakeCorrelationKey(k) = MakeCorrelationKey(k)
             /\ Component!MakeCorrelationKey(k) = MakeCorrelationKey(k)
    BY Zenon DEF Correlator!MakeCorrelationKey, Component!MakeCorrelationKey,
       MakeCorrelationKey, Correlator!ReverseKey, Component!ReverseKey, ReverseKey,
       Correlator!LowerFirst, Component!LowerFirst, LowerFirst
<1>3. ASSUME NEW m, NEW f
      PROVE  /\ Correlator!EntryFor(m, f) = EntryFor(m, f)
             /\ Component!EntryFor(m, f) = EntryFor(m, f)
    BY <1>2, Zenon DEF Correlator!EntryFor, Component!EntryFor, EntryFor,
       Correlator!NewEntry, Component!NewEntry, NewEntry
<1>4. ASSUME NEW cf, NEW h
      PROVE  /\ Correlator!AddHalf(cf, h) = AddHalf(cf, h)
             /\ Component!AddHalf(cf, h) = AddHalf(cf, h)
    BY Zenon DEF Correlator!AddHalf, Component!AddHalf, AddHalf,
       Correlator!Earlier, Component!Earlier, Earlier, Correlator!Later,
       Component!Later, Later
<1>5. ASSUME NEW cf, NEW f
      PROVE  /\ Correlator!StoreHalf(cf, f) = StoreHalf(cf, f)
             /\ Component!StoreHalf(cf, f) = StoreHalf(cf, f)
    BY <1>2, Zenon DEF Correlator!StoreHalf, Component!StoreHalf, StoreHalf,
       Correlator!IsForward, Component!IsForward, IsForward
<1>6. ASSUME NEW cf
      PROVE  /\ Correlator!AddForward(cf) = AddForward(cf)
             /\ Component!AddForward(cf) = AddForward(cf)
    BY <1>4, Zenon DEF Correlator!AddForward, Component!AddForward, AddForward
<1>7. ASSUME NEW cf
      PROVE  /\ Correlator!AddReverse(cf) = AddReverse(cf)
             /\ Component!AddReverse(cf) = AddReverse(cf)
    BY <1>4, Zenon DEF Correlator!AddReverse, Component!AddReverse, AddReverse
<1>8. ASSUME NEW cf, NEW f
      PROVE  /\ Correlator!Merge(cf, f) = Merge(cf, f)
             /\ Component!Merge(cf, f) = Merge(cf, f)
    BY <1>5, <1>6, <1>7, Zenon DEF Correlator!Merge, Component!Merge, Merge
<1>9. QED BY <1>1, <1>2, <1>3, <1>8

(* Under the lock, the entry before the merge stands for it.               *)
LEMMA MergeIsOneStep ==
    ASSUME Inv, IngestAddReverse
    PROVE  /\ Current \in Reported
           /\ View' = [View EXCEPT ![CurrentKey] = Merge(EntryFor(View, Current), Current)]
<1>1. /\ worker.pc = "addReverse" /\ worker'.pc = "ingest"
      /\ flows' = [flows EXCEPT ![CurrentKey] = AddReverse(@)]
      /\ worker.todo # << >>
    BY DEF IngestAddReverse, Inv, Types, Handling, LockHeld
<1>2. Current \in Reported /\ CurrentKey \in CorrelationKey
    BY <1>1, CurrentIsFlow
<1>3. View = [flows EXCEPT ![CurrentKey] = before] /\ View' = flows'
    BY <1>1 DEF View, LockHeld
<1>4. EntryFor(View, Current) = IF before = None THEN NewEntry(Current) ELSE before
    BY <1>2, <1>3 DEF Inv, Types, EntryFor, CurrentKey
<1>5. flows[CurrentKey] = AddForward(Stored)
    BY <1>1 DEF Inv, Locked
<1>6. Merge(EntryFor(View, Current), Current) = AddReverse(flows[CurrentKey])
    BY <1>4, <1>5 DEF Merge, Stored
<1>7. flows' = [View EXCEPT ![CurrentKey] = AddReverse(flows[CurrentKey])]
    BY <1>1, <1>2, <1>3 DEF Inv, Types
<1>8. QED BY <1>2, <1>3, <1>6, <1>7

(* No other step is seen from outside the lock.                            *)
LEMMA OthersKeepView ==
    ASSUME Inv, [Next]_vars, ~ IngestAddReverse
    PROVE  View' = View
<1>1. CASE IngestStore
  <2>1. /\ worker.pc = "ingest" /\ worker.todo # << >>
        /\ worker'.pc = "addForward" /\ worker'.todo = worker.todo
        /\ flows' = [flows EXCEPT ![CurrentKey] = StoreHalf(EntryFor(flows, Current), Current)]
        /\ before' = flows[CurrentKey]
      BY <1>1 DEF IngestStore, Inv, Types
  <2>2. CurrentKey' = CurrentKey /\ CurrentKey \in CorrelationKey
      BY <2>1, CurrentIsFlow DEF CurrentKey, Current
  <2>3. View = flows /\ View' = [flows' EXCEPT ![CurrentKey] = before']
      BY <2>1, <2>2 DEF View, LockHeld
  <2>4. QED BY <2>1, <2>2, <2>3 DEF Inv, Types
<1>2. CASE IngestAddForward
  <2>1. /\ worker.pc = "addForward" /\ worker'.pc = "addReverse" /\ worker'.todo = worker.todo
        /\ flows' = [flows EXCEPT ![CurrentKey] = AddForward(@)] /\ before' = before
      BY <1>2 DEF IngestAddForward, Inv, Types
  <2>2. CurrentKey' = CurrentKey
      BY <2>1 DEF CurrentKey, Current
  <2>3. /\ View = [flows EXCEPT ![CurrentKey] = before]
        /\ View' = [flows' EXCEPT ![CurrentKey] = before]
      BY <2>1, <2>2 DEF View, LockHeld
  <2>4. QED BY <2>1, <2>3 DEF Inv, Types
<1>3. CASE Dequeue \/ Publish \/ WorkerStop
  <2>1. worker.pc \notin {"addForward", "addReverse"} /\ flows' = flows
      BY <1>3 DEF Dequeue, Publish, WorkerStop, correlator
  <2>2. worker'.pc \in {"ingest", "select", "stopped"}
    <3>1. CASE Dequeue
        BY <3>1 DEF Dequeue
    <3>2. CASE Publish
        BY <3>2 DEF Publish, Inv, Types
    <3>3. CASE WorkerStop
        BY <3>3 DEF WorkerStop, Inv, Types
    <3>4. QED BY <1>3, <3>1, <3>2, <3>3
  <2>3. ~ LockHeld /\ ~ LockHeld'
      BY <2>1, <2>2 DEF LockHeld
  <2>4. QED BY <2>1, <2>3 DEF View
<1>4. CASE Arrive
    BY <1>4 DEF Arrive, IngestFlowBatch, correlator, View, LockHeld, CurrentKey, Current
<1>5. CASE Flusher \/ Computer \/ Cancel \/ FlusherStop \/ ComputerStop \/ UNCHANGED vars
    BY <1>5, OthersAreQuiet DEF quiet, correlator, View, LockHeld, CurrentKey, Current
<1>6. QED BY <1>1, <1>2, <1>3, <1>4, <1>5 DEF Next, Worker, Stop

(* The goroutines implement the correlator: what holds of the component,   *)
(* whose operations are atomic, holds of the program as others see it.     *)
THEOREM IngestIsAtomic == Spec => ImplementsCorrelator
<1>1. Init => Correlator!Init
    BY SameNames DEF Init, Correlator!Init, LockHeld
<1>2. Inv /\ [Next]_vars => [Correlator!Next]_View
  <2> SUFFICES ASSUME Inv, [Next]_vars, View' # View PROVE Correlator!Next
      OBVIOUS
  <2>1. IngestAddReverse
      BY OthersKeepView
  <2>2. Current \in Reported /\ Correlator!Ingest(Current)
      BY <2>1, MergeIsOneStep, SameNames DEF Correlator!Ingest, View, CurrentKey
  <2>3. QED BY <2>2 DEF Correlator!Next, Reported
<1>3. QED BY <1>1, <1>2, InvHolds, PTL DEF ImplementsCorrelator, Correlator!Spec, Spec, View

-----------------------------------------------------------------------------
(* And with it the ledger.                                                 *)

LEMMA SameSpecification ==
    /\ Correlator!Init <=> Component!Init
    /\ Correlator!Next => Component!Next
<1>1. Correlator!Init <=> Component!Init
    BY SameNames DEF Correlator!Init, Component!Init
<1>2. ASSUME NEW f PROVE Correlator!Ingest(f) => Component!Ingest(f)
    BY SameNames, Zenon DEF Correlator!Ingest, Component!Ingest
<1>3. QED BY <1>1, <1>2 DEF Correlator!Next, Component!Next

LEMMA ComponentRuns ==
    Spec => Component!Spec
<1>1. ImplementsCorrelator => Component!Spec
    BY SameSpecification, PTL DEF ImplementsCorrelator, Correlator!Spec, Component!Spec
<1>2. QED BY <1>1, IngestIsAtomic, PTL

\* What the theorems of the component assume of its parameters.
LEMMA ComponentAssumptions ==
    /\ Component!Flow = Flow /\ Component!CorrelatedFlow = CorrelatedFlow
    /\ Component!FlowKey = FlowKey
    /\ UNION {ToSet(b) : b \in Batches} \subseteq Flow
BY ReportedAreFlows DEF Reported, Flow, Component!Flow, CorrelatedFlow,
   Component!CorrelatedFlow, FlowKey, Component!FlowKey

(* The goroutines implement the ledger: whatever they interleave, the slot *)
(* of a directed flow holds its latest observation and no other operation  *)
(* touches it.                                                             *)
THEOREM GoroutinesKeepLedger == Spec => Component!ImplementsLedger
<1>1. Component!Spec => Component!ImplementsLedger
    BY ComponentAssumptions, Component!Refinement, AddressesAreOrdered, TimeIsOrdered,
       NoneIsNoValue
<1>2. QED BY <1>1, ComponentRuns, PTL

(* What is left for those who read without the lock.                       *)

\* The entry is the merge of the halves that it holds.
Whole(cf) ==
    LET halves == {cf.fwd, cf.rev} \ {None}
    IN  /\ cf.total = BytesOf(cf.fwd) + BytesOf(cf.rev)
        /\ \A h \in halves : cf.first <= h.first /\ h.last <= cf.last
        /\ \E h \in halves : h.first = cf.first
        /\ \E h \in halves : h.last = cf.last

(* Where DrainAll's lock is held by a loop, every live entry is whole.     *)
(* The pointers that it returns outlive the lock, and WriteFlows, which    *)
(* reads them during an Ingest, may find an entry half merged (that is     *)
(* what RowsCoverForward is refuted by); but it is only the one entry of   *)
(* the flow that is being ingested, never another one of the same batch.   *)
THEOREM ConversationsWhole ==
    Spec => [](\A ck \in Entries : Whole(flows[ck]) \/ (LockHeld /\ ck = CurrentKey))
<1>1. Component!Spec => []Component!TotalsAreSums
    BY ComponentAssumptions, Component!TotalsCorrect, AddressesAreOrdered, TimeIsOrdered,
       NoneIsNoValue
<1>2. Component!Spec => []Component!SeenSpansHalves
    BY ComponentAssumptions, Component!SpansCorrect, AddressesAreOrdered, TimeIsOrdered,
       NoneIsNoValue
<1>3. ASSUME Types, Component!TotalsAreSums, Component!SeenSpansHalves,
             NEW ck \in Entries, ~ (LockHeld /\ ck = CurrentKey)
      PROVE  Whole(flows[ck])
  <2>1. View[ck] = flows[ck] /\ ck \in CorrelationKey /\ flows[ck] # None
      BY <1>3 DEF View, Types, Entries
  <2>2. ck \in Component!Entries
      BY <2>1, SameNames DEF Component!Entries, View
  <2>3. \A h : Component!BytesOf(h) = BytesOf(h)
      BY DEF Component!BytesOf, BytesOf
  <2>4. flows[ck].total = BytesOf(flows[ck].fwd) + BytesOf(flows[ck].rev)
      BY <1>3, <2>1, <2>2, <2>3 DEF Component!TotalsAreSums, View
  <2>5. LET halves == {flows[ck].fwd, flows[ck].rev} \ {None}
        IN  /\ \A h \in halves : flows[ck].first <= h.first /\ h.last <= flows[ck].last
            /\ \E h \in halves : h.first = flows[ck].first
            /\ \E h \in halves : h.last = flows[ck].last
      BY <1>3, <2>1, <2>2 DEF Component!SeenSpansHalves, View
  <2>6. QED BY <2>4, <2>5 DEF Whole
<1>4. Types /\ Component!TotalsAreSums /\ Component!SeenSpansHalves
          => \A ck \in Entries : Whole(flows[ck]) \/ (LockHeld /\ ck = CurrentKey)
    BY <1>3
<1>5. Inv => Types
    BY DEF Inv
<1>6. QED BY <1>1, <1>2, <1>4, <1>5, InvHolds, ComponentRuns, PTL

=============================================================================
