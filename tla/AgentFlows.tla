------------------------------ MODULE AgentFlows ------------------------------
(***************************************************************************)
(* The flow path of pkg/agent: pollFlowMaps copies the kernel's flow_table *)
(* into the agent's FlowTable, flushLoop sends what the FlowTable holds to *)
(* the aggregator in batches, one HTTP request at a time, and evictionLoop *)
(* deletes flows from the FlowTable.  The operations of FlowTable are      *)
(* atomic, under ft.mu.                                                    *)
(*                                                                         *)
(* The kernel's side is KernelFlows, with an age for each entry.  Of the   *)
(* aggregator there is what it has made of the requests: the last report   *)
(* of each flow.  A request that the client has given up may still be in   *)
(* the aggregator's hands.                                                 *)
(***************************************************************************)
EXTENDS Integers, FiniteSets, Sequences, FiniteSetsExt, SequencesExt

CONSTANTS Key,
          BatchSize,      \* cfg.Aggregator.BatchSize (1000 by default)
          FlowTimeout,    \* cfg.EBPF.FlowTimeout
          BootTime,       \* the wall-clock time of the boot
          MaxTime,        \* bound: the time since boot at the end
          MaxPackets,     \* bound: the packets counted by the kernel's map
          MaxDrops,       \* bound: how many entries the kernel's map drops
          MaxGivenUp,     \* bound: how many requests may be given up and still under way
          None

ASSUME BatchesHaveRoom == BatchSize \in Nat \ {0}
ASSUME TimesAreTimes == {FlowTimeout, BootTime, MaxTime} \subseteq Nat
ASSUME BoundsAreBounds == {MaxPackets, MaxDrops, MaxGivenUp} \subseteq Nat
ASSUME KeysAreFinite == IsFiniteSet(Key)
ASSUME NoneIsNoEntry == None \notin [packets : Nat, last : Nat]

VARIABLES
    kernel, now,  \* the kernel's map, and the time since boot: KernelFlows
    drops,        \* how many entries the kernel's map has dropped
    cache,        \* FlowTable.flows: key -> the flow, None where absent
    poller,       \* readFlowTable: where it is, the keys to come, the value it has read
    flusher,      \* flushFlows: where it is, the flows drained, the index of the batch
    awaited,      \* the body of the request whose answer the flusher waits for
    givenUp,      \* the bodies of requests given up but still under way
    latest,       \* the aggregator: key -> its last report, None where there is none
    unposted,     \* history: the flows drained in this flush and not yet posted
    timedOut      \* history: a request has been given up

kernelVars == <<kernel, now, drops>>
sending == <<flusher, awaited, givenUp, unposted, timedOut>>
vars == <<kernelVars, cache, poller, sending, latest>>

Kernel == INSTANCE KernelFlows
Tracked == Kernel!Tracked
Cached == {k \in Key : cache[k] # None}

\* A report of a flow; age numbers its entries in the kernel's map.
Report == [key : Key, age : 0 .. MaxDrops, packets : 1 .. MaxPackets]

\* A flow as the agent has it, with the time of its last packet.
Flow == [report : Report, last : 0 .. MaxTime]

Init ==
    /\ Kernel!Init
    /\ drops = [k \in Key |-> 0]
    /\ cache = [k \in Key |-> None]
    /\ poller = [pc |-> "select", left |-> {}, read |-> None]
    /\ flusher = [flows |-> << >>, i |-> 0]
    /\ awaited = << >> /\ givenUp = {} /\ unposted = {} /\ timedOut = FALSE
    /\ latest = [k \in Key |-> None]

-----------------------------------------------------------------------------
(* The kernel.  An iteration of the map visits a key inserted under way or *)
(* not; when a key is dropped it may go on, begin again or be given up.    *)

PacketsIn(map) == MapThenSumSet(LAMBDA k : IF map[k] = None THEN 0 ELSE map[k].packets, Key)

KernelInsert(k) ==
    /\ Kernel!Insert(k)
    /\ PacketsIn(kernel') <= MaxPackets
    /\ \/ poller.pc # "select" /\ poller' = [poller EXCEPT !.left = @ \cup {k}]
       \/ UNCHANGED poller
    /\ UNCHANGED <<drops, cache, sending, latest>>

KernelCount(k) ==
    /\ Kernel!CountPacket(k) \/ Kernel!Touch(k)
    /\ PacketsIn(kernel') <= MaxPackets
    /\ UNCHANGED <<drops, cache, poller, sending, latest>>

KernelDrop(k) ==
    /\ \A j \in Key : drops[j] < MaxDrops
    /\ Kernel!Evict(k)
    /\ drops' = [drops EXCEPT ![k] = @ + 1]
    /\ poller' \in IF poller.pc = "select" THEN {poller}
                   ELSE {[poller EXCEPT !.left = l] :
                            l \in {poller.left \ {k}, Tracked \ {k}, {}}}
    /\ UNCHANGED <<cache, sending, latest>>

-----------------------------------------------------------------------------
(* pollFlowMaps.                                                           *)

Polling == UNCHANGED <<kernelVars, sending, latest>>

PollTick ==
    /\ poller.pc = "select"
    /\ poller' = [poller EXCEPT !.pc = "iterate", !.left = Tracked]
    /\ UNCHANGED cache /\ Polling

\* iter.Next copies an entry ...
PollNext ==
    /\ poller.pc = "iterate"
    /\ \E k \in poller.left :
          poller' = [pc |-> "update", left |-> poller.left \ {k},
                     read |-> [report |-> [key |-> k, age |-> drops[k],
                                           packets |-> kernel[k].packets],
                               last |-> kernel[k].last]]
    /\ UNCHANGED cache /\ Polling

\* Mutant: what has been counted is added to what is there.
UpdateAdding(map, f) ==
    [map EXCEPT ![f.report.key] =
        IF @ = None THEN f
        ELSE [f EXCEPT !.report.packets = @ + map[f.report.key].report.packets]]

\* Mutant: a flow that is there already is left alone.
UpdateOnce(map, f) == IF map[f.report.key] = None THEN [map EXCEPT ![f.report.key] = f] ELSE map

Update(map, f) == [map EXCEPT ![f.report.key] = f]

\* ... and Update files it, whatever has become of the flow meanwhile.
PollUpdate ==
    /\ poller.pc = "update"
    /\ poller' = [poller EXCEPT !.pc = "iterate", !.read = None]
    /\ cache' = Update(cache, poller.read)
    /\ Polling

PollEnd ==
    /\ poller.pc = "iterate"
    /\ poller.left = {}
    /\ poller' = [poller EXCEPT !.pc = "select"]
    /\ UNCHANGED cache /\ Polling

-----------------------------------------------------------------------------
(* flushFlows.                                                             *)

FlushTick ==
    /\ flusher.flows = << >>
    /\ Cached # {}
    /\ \E s \in SetToSeqs({cache[k].report : k \in Cached}) : flusher' = [flows |-> s, i |-> 0]
    /\ unposted' = Cached
    /\ UNCHANGED <<kernelVars, cache, poller, awaited, givenUp, timedOut, latest>>

Smaller(m, n) == IF m < n THEN m ELSE n
KeysOf(b) == {r.key : r \in ToSet(b)}

Batch(i) == SubSeq(flusher.flows, i + 1, Smaller(i + BatchSize, Len(flusher.flows)))

Post ==
    /\ flusher.flows # << >>
    /\ awaited = << >>
    /\ awaited' = Batch(flusher.i)
    /\ unposted' = unposted \ KeysOf(awaited')
    /\ UNCHANGED <<kernelVars, cache, poller, flusher, givenUp, timedOut, latest>>

\* Mutant: the next batch begins with the last flow of this one.
NextBatchOverlapping(i) ==
    LET j == i + BatchSize - 1
    IN  flusher' = IF j < Len(flusher.flows) - 1 THEN [flusher EXCEPT !.i = j]
                   ELSE [flows |-> << >>, i |-> 0]

\* The loop goes on whether or not SendFlows has returned an error.
NextBatch(i) ==
    LET j == i + BatchSize
    IN  flusher' = IF j < Len(flusher.flows) THEN [flusher EXCEPT !.i = j]
                   ELSE [flows |-> << >>, i |-> 0]

Answered ==
    /\ awaited # << >>
    /\ awaited' = << >>
    /\ NextBatch(flusher.i)
    /\ UNCHANGED <<kernelVars, cache, poller, unposted>>

\* The aggregator, given the body of a request.
Observe(b) ==
    latest' = [k \in Key |-> IF k \in KeysOf(b)
                             THEN CHOOSE r \in ToSet(b) : r.key = k
                             ELSE latest[k]]

\* The batch has been taken; its answer comes or is lost.
SendTaken == Answered /\ Observe(awaited) /\ UNCHANGED <<givenUp, timedOut>>

\* No connection, an answer other than 202, or a 202 for a dropped batch.
SendLost == Answered /\ UNCHANGED <<givenUp, timedOut, latest>>

\* Mutant: the post is made in a goroutine of its own.
SendTimesOutUnnoticed ==
    /\ Answered
    /\ Cardinality(givenUp) < MaxGivenUp
    /\ givenUp' = givenUp \cup {awaited}
    /\ UNCHANGED <<timedOut, latest>>

\* The client's timeout, while the aggregator has the request in hand.
SendTimesOut ==
    /\ Answered
    /\ Cardinality(givenUp) < MaxGivenUp
    /\ givenUp' = givenUp \cup {awaited}
    /\ timedOut' = TRUE
    /\ UNCHANGED latest

\* The aggregator comes to a request that the client has given up, or never does.
LateArrival(b) ==
    /\ b \in givenUp
    /\ givenUp' = givenUp \ {b}
    /\ Observe(b) \/ UNCHANGED latest
    /\ UNCHANGED <<kernelVars, cache, poller, flusher, awaited, unposted, timedOut>>

-----------------------------------------------------------------------------
(* evictionLoop.  LastSeen is the time since boot, taken as a Unix time;   *)
(* the cutoff comes from the wall clock.  The model's clock goes on when   *)
(* this loop reads it.                                                     *)
Stale(f, t) == f.last < BootTime + t - FlowTimeout

EvictStale ==
    \E t \in now .. MaxTime :
        /\ now' = t
        /\ cache' = [k \in Key |-> IF k \in Cached /\ Stale(cache[k], t) THEN None
                                   ELSE cache[k]]
        /\ UNCHANGED <<kernel, drops, poller, sending, latest>>

-----------------------------------------------------------------------------
KernelStep == \E k \in Key : KernelInsert(k) \/ KernelCount(k) \/ KernelDrop(k)
Poll == PollTick \/ PollNext \/ PollUpdate \/ PollEnd
Send == Post \/ SendTaken \/ SendLost \/ SendTimesOut

Next == \/ KernelStep \/ Poll \/ FlushTick \/ Send \/ EvictStale
        \/ \E b \in givenUp : LateArrival(b)

Spec == Init /\ [][Next]_vars

(* The goroutines run and their calls return, and not every request with a *)
(* given flow is lost.  Evictions are rarer than polls and flushes (every  *)
(* FlowTimeout / 2, 15 seconds by default, against one second), so no flow *)
(* is missing from the FlowTable each time that flushLoop is at its select.*)
Fairness ==
    /\ WF_vars(Poll) /\ WF_vars(Send)
    /\ \A k \in Key : /\ SF_vars(k \in Cached /\ FlushTick)
                      /\ SF_vars(k \in KeysOf(awaited) /\ SendTaken)

EvictionsAreRare ==
    \A k \in Key : []<>(k \in Tracked => k \in Cached /\ flusher.flows = << >>)

FairSpec == Spec /\ Fairness /\ EvictionsAreRare

-----------------------------------------------------------------------------
(* The type invariant.  No request has more than BatchSize flows.          *)
TypeOK ==
    /\ kernel \in [Key -> [packets : 1 .. MaxPackets, last : 0 .. MaxTime] \cup {None}]
    /\ now \in 0 .. MaxTime
    /\ drops \in [Key -> 0 .. MaxDrops]
    /\ cache \in [Key -> Flow \cup {None}]
    /\ poller \in [pc : {"select", "iterate", "update"}, left : SUBSET Key,
                   read : Flow \cup {None}]
    /\ flusher \in [flows : Seq(Report), i : Nat]
    /\ \A b \in {awaited} \cup givenUp : b \in Seq(Report) /\ Len(b) <= BatchSize
    /\ unposted \subseteq Key
    /\ timedOut \in BOOLEAN
    /\ latest \in [Key -> Report \cup {None}]

(* Nothing that is anywhere on its way claims more of a flow than the      *)
(* kernel has counted in the entry it was read from: neither reports that  *)
(* are sent again and again nor deleted and filed anew ever add up.        *)
OnItsWay ==
    {f.report : f \in ({cache[k] : k \in Key} \cup {poller.read}) \ {None}}
    \cup ({latest[k] : k \in Key} \ {None})
    \cup UNION {ToSet(b) : b \in {flusher.flows, awaited} \cup givenUp}

NothingAhead ==
    \A r \in OnItsWay :
        \/ r.age < drops[r.key]
        \/ /\ r.age = drops[r.key]
           /\ r.key \in Tracked
           /\ r.packets <= kernel[r.key].packets

(* The batches of a flush are cut so that each flow drained is posted once *)
(* and only once: what has not been posted is what follows the batch.      *)
PostsEachFlowOnce ==
    unposted = {flusher.flows[j].key :
                   j \in flusher.i + Len(awaited) + 1 .. Len(flusher.flows)}

(* Batches are sent one after another: unless a request has timed out, the *)
(* aggregator never gets an older report of a flow after a newer one.      *)
Older(r, s) == r.age < s.age \/ (r.age = s.age /\ r.packets < s.packets)

InOrderUnlessTimedOut ==
    [][\A k \in Key : latest[k] # None /\ Older(latest'[k], latest[k]) => timedOut]_vars

(* Whatever is lost, given up, late or evicted, the aggregator comes to    *)
(* hold the kernel's count of every flow in the map again and again, once  *)
(* no more packets arrive: reports are cumulative and are always repeated. *)
UpToDate ==
    \A k \in Tracked : /\ latest[k] # None
                       /\ latest[k].age = drops[k]
                       /\ latest[k].packets = kernel[k].packets

ReportsCatchUp == []<>UpToDate

-----------------------------------------------------------------------------
(* "EvictStale removes flows older than the configured timeout"            *)
(* (pkg/agent/flow_table.go:82): a flow that leaves the FlowTable has had  *)
(* no packet for FlowTimeout.                                              *)
EvictsOldFlowsOnly ==
    [][\A k \in Cached : cache'[k] = None => now' - cache[k].last > FlowTimeout]_vars
=============================================================================
