--------------------------- MODULE AggregatorFlows ---------------------------
(***************************************************************************)
(* The flow path of pkg/aggregator/aggregator.go: HTTP handlers put        *)
(* batches into the channel flowCh, processFlows merges them into the      *)
(* correlator and publishes them, and two loops drain the correlator:      *)
(* flushLoop, which writes the conversations to ClickHouse, and            *)
(* computeMetricsLoop, which computes training metrics from them.          *)
(*                                                                         *)
(* Ingest runs under fc.mu but in several writes.  DrainAll takes fc.mu    *)
(* too, and returns pointers to the live entries, which WriteFlows reads   *)
(* afterwards without the lock, between any two of those writes.           *)
(***************************************************************************)
EXTENDS Correlation, Sequences, SequencesExt

CONSTANTS Batches,        \* what an agent may post: non-empty sequences of flows
          FlowChCap,      \* capacity of flowCh (4096 in New)
          MaxBatches      \* bound: how many batches arrive in a behaviour

ASSUME BatchesAreFlows == Batches \subseteq Seq(Flow) \ {<< >>}
ASSUME FlowChHasRoom == FlowChCap \in Nat \ {0}
ASSUME ArrivalsAreBounded == MaxBatches \in Nat

\* A batch with its arrival number, and a row of ClickHouse's flows table.
Numbered == [n : 1 .. MaxBatches, flows : Seq(Flow)]
Row == [ck : CorrelationKey, bytes : Nat, total : Nat]

ASSUME NoneIsNoRecord == None \notin Numbered \cup Row

VARIABLES
    flowCh,       \* the batches in the channel, oldest first, each with its arrival number
    received,     \* how many batches the handlers have answered with 202
    dropped,      \* the numbers of those that found flowCh full
    finished,     \* the numbers of those processFlows is done with
    worker,       \* processFlows: where it is, its batch, the flows still to ingest
    flows,        \* the correlator's map
    flusher,      \* flushLoop: where it is, the entries it holds, its row, its rows
    computer,     \* computeMetricsLoop: where it is
    published,    \* the batches NATS has taken, in order
    stored,       \* the rows of ClickHouse's flows table
    cancelled,    \* the context of Run
    known,        \* history: the row of each conversation after its last Ingest
    before        \* history: the entry as it was before the Ingest under way

channel == <<flowCh, received, dropped>>
correlator == <<flows, known, before>>
vars == <<channel, finished, worker, correlator, flusher, computer, published,
          stored, cancelled>>

\* The columns WriteFlows reads of a conversation; zero where Forward is nil.
RowOf(ck, cf) == [ck |-> ck, bytes |-> BytesOf(cf.fwd), total |-> cf.total]

Entries == {ck \in CorrelationKey : flows[ck] # None}

Init ==
    /\ flowCh = << >>
    /\ received = 0
    /\ dropped = {}
    /\ finished = {}
    /\ worker = [pc |-> "select", batch |-> None, todo |-> << >>]
    /\ flows = [ck \in CorrelationKey |-> None]
    /\ flusher = [pc |-> "select", todo |-> {}, row |-> None, rows |-> {}]
    /\ computer = "select"
    /\ published = << >>
    /\ stored = {}
    /\ cancelled = FALSE
    /\ known = [ck \in CorrelationKey |-> None]
    /\ before = None

-----------------------------------------------------------------------------
(* The HTTP handlers.  A handler answers 202 whether or not the batch went *)
(* into the channel.  Shutdown lets handlers finish, so a batch may arrive *)
(* after the context has been cancelled.                                   *)

\* Mutant: a full channel gives up its oldest batch.
IngestFlowBatchDroppingOldest(b) ==
    /\ received < MaxBatches
    /\ received' = received + 1
    /\ flowCh' = Append(IF Len(flowCh) < FlowChCap THEN flowCh ELSE Tail(flowCh),
                        [n |-> received', flows |-> b])
    /\ UNCHANGED <<dropped, finished, worker, correlator, flusher, computer,
                   published, stored, cancelled>>

IngestFlowBatch(b) ==
    /\ received < MaxBatches
    /\ received' = received + 1
    /\ \/ /\ Len(flowCh) < FlowChCap
          /\ flowCh' = Append(flowCh, [n |-> received', flows |-> b])
          /\ UNCHANGED dropped
       \/ /\ Len(flowCh) >= FlowChCap
          /\ dropped' = dropped \cup {received'}
          /\ UNCHANGED flowCh
    /\ UNCHANGED <<finished, worker, correlator, flusher, computer, published,
                   stored, cancelled>>

-----------------------------------------------------------------------------
(* processFlows.  A batch is merged flow by flow and then published.       *)

LockHeld == worker.pc \in {"addForward", "addReverse"}

\* Mutant: the first flow of every batch is skipped.
DequeueSkippingOne ==
    /\ worker.pc = "select"
    /\ flowCh # << >>
    /\ flowCh' = Tail(flowCh)
    /\ worker' = [pc |-> "ingest", batch |-> Head(flowCh),
                  todo |-> Tail(Head(flowCh).flows)]
    /\ UNCHANGED <<received, dropped, finished, correlator, flusher, computer,
                   published, stored, cancelled>>

Dequeue ==
    /\ worker.pc = "select"
    /\ flowCh # << >>
    /\ flowCh' = Tail(flowCh)
    /\ worker' = [pc |-> "ingest", batch |-> Head(flowCh),
                  todo |-> Head(flowCh).flows]
    /\ UNCHANGED <<received, dropped, finished, correlator, flusher, computer,
                   published, stored, cancelled>>

Current == Head(worker.todo)
CurrentKey == MakeCorrelationKey(Current.key)

Ingesting == UNCHANGED <<channel, finished, flusher, computer, published,
                         stored, cancelled>>

\* Takes the lock, finds or makes the entry, stores the half.
IngestStore ==
    /\ worker.pc = "ingest"
    /\ worker.todo # << >>
    /\ worker' = [worker EXCEPT !.pc = "addForward"]
    /\ flows' = [flows EXCEPT ![CurrentKey] =
                    StoreHalf(EntryFor(flows, Current), Current)]
    /\ before' = flows[CurrentKey]
    /\ UNCHANGED known
    /\ Ingesting

IngestAddForward ==
    /\ worker.pc = "addForward"
    /\ worker' = [worker EXCEPT !.pc = "addReverse"]
    /\ flows' = [flows EXCEPT ![CurrentKey] = AddForward(@)]
    /\ UNCHANGED <<known, before>>
    /\ Ingesting

\* The last sums, and the deferred unlock.
IngestAddReverse ==
    /\ worker.pc = "addReverse"
    /\ worker' = [worker EXCEPT !.pc = "ingest", !.todo = Tail(@)]
    /\ flows' = [flows EXCEPT ![CurrentKey] = AddReverse(@)]
    /\ known' = [known EXCEPT ![CurrentKey] = RowOf(CurrentKey, flows'[CurrentKey])]
    /\ before' = None
    /\ Ingesting

\* The publish waits for NATS; an error is logged and the batch is done with.
Publish ==
    /\ worker.pc = "ingest"
    /\ worker.todo = << >>
    /\ worker' = [worker EXCEPT !.pc = "select", !.batch = None]
    /\ finished' = finished \cup {worker.batch.n}
    /\ \/ published' = Append(published, worker.batch)
       \/ UNCHANGED published
    /\ UNCHANGED <<channel, correlator, flusher, computer, stored, cancelled>>

WorkerStop ==
    /\ worker.pc = "select"
    /\ cancelled
    /\ worker' = [worker EXCEPT !.pc = "stopped"]
    /\ UNCHANGED <<channel, finished, correlator, flusher, computer, published,
                   stored, cancelled>>

-----------------------------------------------------------------------------
(* flushLoop and computeMetricsLoop.                                       *)

\* Mutant: DrainAll clears the map of what no writer holds.
DrainAllClears ==
    /\ ~LockHeld
    /\ flows' = [ck \in CorrelationKey |->
                    IF ck \in flusher'.todo \cup {r.ck : r \in {flusher'.row} \ {None}}
                    THEN flows[ck] ELSE None]
    /\ UNCHANGED <<known, before>>

\* What DrainAll does to the map: it waits for the lock and changes nothing.
DrainAll == ~LockHeld /\ UNCHANGED correlator

FlushTick ==
    /\ flusher.pc = "select"
    /\ Entries # {}
    /\ flusher' = [flusher EXCEPT !.pc = "rows", !.todo = Entries]
    /\ DrainAll
    /\ UNCHANGED <<channel, finished, worker, computer, published, stored,
                   cancelled>>

Flushing == UNCHANGED <<channel, finished, worker, correlator, computer,
                        published, cancelled>>

\* WriteFlows reads the columns of the forward half of an entry it holds ...
ReadForward ==
    /\ flusher.pc = "rows"
    /\ flusher.row = None
    /\ \E ck \in flusher.todo :
          flusher' = [flusher EXCEPT !.todo = @ \ {ck}, !.row = RowOf(ck, flows[ck])]
    /\ UNCHANGED stored
    /\ Flushing

\* ... and later the totals of the entry, with which it appends the row.
ReadTotals ==
    /\ flusher.pc = "rows"
    /\ flusher.row # None
    /\ LET row == [flusher.row EXCEPT !.total = flows[flusher.row.ck].total]
       IN  flusher' = [flusher EXCEPT !.row = None, !.rows = @ \cup {row}]
    /\ UNCHANGED stored
    /\ Flushing

FlushEnds ==
    /\ flusher.pc = "rows"
    /\ flusher.todo = {} /\ flusher.row = None
    /\ flusher' = [flusher EXCEPT !.pc = "select", !.rows = {}]
    /\ Flushing

\* The driver gets the context, so no write succeeds under a cancelled one.
SendOK == FlushEnds /\ ~cancelled /\ stored' = stored \cup flusher.rows

\* Mutant: a failed write is tried again until it succeeds.
SendFailsAndRetries ==
    /\ flusher.pc = "rows"
    /\ flusher.todo = {} /\ flusher.row = None
    /\ UNCHANGED <<flusher, stored>>
    /\ Flushing

\* Any error WriteFlows returns: logged, and the rows are given up.  After a
\* timeout they may have been stored all the same.
SendFails == FlushEnds /\ stored' \in {stored, stored \cup flusher.rows}

FlusherStop ==
    /\ flusher.pc = "select"
    /\ cancelled
    /\ flusher' = [flusher EXCEPT !.pc = "stopped"]
    /\ UNCHANGED stored
    /\ Flushing

\* The other loop drains the same correlator on a ticker of its own.
ComputeDrain ==
    /\ computer = "select"
    /\ computer' = "compute"
    /\ UNCHANGED <<channel, finished, worker, flusher, published, stored, cancelled>>
    /\ DrainAll

ComputeDone ==
    /\ computer = "compute"
    /\ computer' = "select"
    /\ UNCHANGED <<channel, finished, worker, correlator, flusher, published,
                   stored, cancelled>>

ComputerStop ==
    /\ computer = "select"
    /\ cancelled
    /\ computer' = "stopped"
    /\ UNCHANGED <<channel, finished, worker, correlator, flusher, published,
                   stored, cancelled>>

\* A signal, or a goroutine of the group that returns an error.
Cancel ==
    /\ ~cancelled
    /\ cancelled' = TRUE
    /\ UNCHANGED <<channel, finished, worker, correlator, flusher, computer,
                   published, stored>>

-----------------------------------------------------------------------------
Arrive == \E b \in Batches : IngestFlowBatch(b)
Worker == Dequeue \/ IngestStore \/ IngestAddForward \/ IngestAddReverse \/ Publish
Flusher == FlushTick \/ ReadForward \/ ReadTotals \/ SendOK \/ SendFails
Computer == ComputeDrain \/ ComputeDone

Stop == WorkerStop \/ FlusherStop \/ ComputerStop

Next == Arrive \/ Worker \/ Flusher \/ Computer \/ Cancel \/ Stop

Spec == Init /\ [][Next]_vars

(* Each goroutine is scheduled, its ticker fires and its calls return.  A  *)
(* select takes one of its ready cases at random, so a loop that returns   *)
(* to it for ever does not pass over ctx.Done() for ever: SF for Stop.     *)
(* ClickHouse may fail any number of times in a row, but not every time.   *)
Fairness ==
    /\ WF_vars(Worker) /\ WF_vars(Flusher) /\ WF_vars(ComputeDone)
    /\ SF_vars(SendOK)
    /\ SF_vars(Stop)

FairSpec == Spec /\ Fairness

-----------------------------------------------------------------------------
(* The type invariant.  flowCh never holds more than its capacity.         *)
TypeOK ==
    /\ flowCh \in Seq(Numbered) /\ Len(flowCh) <= FlowChCap
    /\ received \in 0 .. MaxBatches
    /\ dropped \subseteq 1 .. received
    /\ finished \subseteq 1 .. received
    /\ worker.pc \in {"select", "ingest", "addForward", "addReverse", "stopped"}
    /\ worker.batch \in Numbered \cup {None}
    /\ worker.todo \in Seq(Flow)
    /\ flows \in [CorrelationKey -> CorrelatedFlow \cup {None}]
    /\ flusher.pc \in {"select", "rows", "stopped"}
    /\ flusher.todo \subseteq CorrelationKey
    /\ flusher.row \in Row \cup {None}
    /\ flusher.rows \subseteq Row
    /\ computer \in {"select", "compute", "stopped"}
    /\ published \in Seq(Numbered)
    /\ stored \subseteq Row
    /\ cancelled \in BOOLEAN
    /\ known \in [CorrelationKey -> Row \cup {None}]
    /\ before \in CorrelatedFlow \cup {None}

(* Every batch that was answered with 202 is in exactly one place: in the  *)
(* channel, in the hands of processFlows, done with, or dropped because    *)
(* the channel was full.  The channel keeps their order.                   *)
Queued == {flowCh[i].n : i \in DOMAIN flowCh}
InHand == IF worker.batch = None THEN {} ELSE {worker.batch.n}

BatchesAccounted ==
    /\ Queued \cup InHand \cup finished \cup dropped = 1 .. received
    /\ Queued \cap (InHand \cup finished \cup dropped) = {}
    /\ InHand \cap (finished \cup dropped) = {}
    /\ finished \cap dropped = {}
    /\ \A i, j \in DOMAIN flowCh : i < j => flowCh[i].n < flowCh[j].n

(* A batch that dashboards have been told about is in the correlator, flow *)
(* by flow, so that what was shown live also reaches the store; and each   *)
(* batch is published at most once, in the order of arrival.               *)
PublishedIsCorrelated ==
    /\ \A p \in ToSet(published) : \A f \in ToSet(p.flows) :
           known[MakeCorrelationKey(f.key)] # None
    /\ \A i, j \in DOMAIN published : i < j => published[i].n < published[j].n

(* Seen from outside the lock, Ingest is one atomic step of the correlator *)
(* and nothing else ever changes the map: the two loops that drain it take *)
(* nothing away from each other.                                           *)
Correlator ==
    INSTANCE FlowCorrelator
        WITH flows <- IF LockHeld THEN [flows EXCEPT ![CurrentKey] = before]
                      ELSE flows,
             Observed <- UNION {ToSet(b) : b \in Batches},
             Cutoffs <- {}

ImplementsCorrelator == Correlator!Spec

(* Once no more batches arrive, ClickHouse comes to hold the current state *)
(* of every conversation ever ingested, whatever writes have failed and    *)
(* whichever of the two loops drained the correlator first: an entry that  *)
(* could not be written is written by a later flush, because it is still   *)
(* there.                                                                  *)
CatchesUp ==
    <>[](cancelled \/ \A ck \in CorrelationKey :
                          known[ck] # None => known[ck] \in stored)

(* After cancellation Run returns: every loop comes back to its select,    *)
(* even though every write then fails and the channel may not be empty.    *)
Stopped == /\ worker.pc = "stopped"
           /\ flusher.pc = "stopped"
           /\ computer = "stopped"

CancelStops == cancelled ~> Stopped

-----------------------------------------------------------------------------
(* "Aggregate total bytes and packets across both directions"              *)
(* (docs/PRD-and-Functional-Spec.md, FR-4.3): the total of a stored row is *)
(* not below the bytes of one direction in the same row.  It can be: the   *)
(* totals are read while Ingest, which has reset them, is adding them up.  *)
RowsCoverForward == \A row \in stored : row.bytes <= row.total

(* "Drain in-flight batches (flush remaining flows)", "Final ClickHouse    *)
(* batch.Send()" (docs/PRD-and-Functional-Spec.md:888-889): when Run has   *)
(* returned, no accepted batch is left in the channel and every            *)
(* conversation is stored.                                                 *)
ShutdownFlushes ==
    Stopped => /\ flowCh = << >>
               /\ \A ck \in CorrelationKey : known[ck] # None => known[ck] \in stored
=============================================================================
