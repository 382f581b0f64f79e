--------------------------- MODULE FlowCorrelator ---------------------------
(***************************************************************************)
(* pkg/aggregator/flow_correlator.go as a component: its map and the two   *)
(* operations that change it, each atomic because it holds fc.mu.          *)
(* DrainAll changes nothing: it returns what Entries holds.                *)
(***************************************************************************)
EXTENDS Correlation

CONSTANTS Observed,       \* the flows that agents may report
          Cutoffs         \* the times that may be given to EvictStale

ASSUME ObservedAreFlows == Observed \subseteq Flow
ASSUME CutoffsAreTimes == Cutoffs \subseteq Time

VARIABLE flows            \* correlation key -> entry, None where there is none

Entries == {ck \in CorrelationKey : flows[ck] # None}

Init == flows = [ck \in CorrelationKey |-> None]

Ingest(f) ==
    flows' = [flows EXCEPT ![MakeCorrelationKey(f.key)] = Merge(EntryFor(flows, f), f)]

\* Mutant: the age of a conversation counts from its first packet.
StaleByFirstSeen(ck, cutoff) == flows[ck] # None /\ flows[ck].first < cutoff

Stale(ck, cutoff) == flows[ck] # None /\ flows[ck].last < cutoff

\* Mutant: a stale entry is zeroed in place and stays in the map.
EvictStaleInPlace(cutoff) ==
    flows' = [ck \in CorrelationKey |->
                 IF Stale(ck, cutoff) THEN [flows[ck] EXCEPT !.id = None]
                 ELSE flows[ck]]

EvictStale(cutoff) ==
    flows' = [ck \in CorrelationKey |->
                 IF Stale(ck, cutoff) THEN None ELSE flows[ck]]

Next == \/ \E f \in Observed : Ingest(f)
        \/ \E c \in Cutoffs : EvictStale(c)

Spec == Init /\ [][Next]_flows

-----------------------------------------------------------------------------
(* The type invariant: the map holds whole entries under correlation keys. *)
TypeOK == flows \in [CorrelationKey -> CorrelatedFlow \cup {None}]

(* Every entry has a half, and the slots hold exactly the two directions   *)
(* of the key's conversation: flows of other conversations, of other ports *)
(* of the same two hosts or of a host with itself never meet               *)
(* (makeCorrelationKey and isForward must agree for every address order).  *)
ForwardKey(ck) == [srcIP |-> ck.ipA, dstIP |-> ck.ipB,
                   srcPort |-> ck.portA, dstPort |-> ck.portB,
                   protocol |-> ck.protocol]

SlotsMatchKey ==
    \A ck \in Entries :
        LET cf == flows[ck] IN
        /\ cf.fwd # None \/ cf.rev # None
        /\ cf.fwd # None => cf.fwd.key = ForwardKey(ck)
        /\ cf.rev # None => /\ cf.rev.key = ReverseKey(ForwardKey(ck))
                            /\ cf.rev.key # ForwardKey(ck)

(* The total of a conversation counts each direction's last report once,   *)
(* however often either direction has been reported before: the counters   *)
(* of a flow are cumulative, and adding them up would count them twice.    *)
TotalsAreSums ==
    \A ck \in Entries :
        flows[ck].total = BytesOf(flows[ck].fwd) + BytesOf(flows[ck].rev)

(* FirstSeen and LastSeen are the extremes of the two halves now held, so  *)
(* that a conversation is as recent as its most recent half: EvictStale    *)
(* decides on this field alone.                                            *)
SeenSpansHalves ==
    \A ck \in Entries :
        LET cf == flows[ck]
            halves == {cf.fwd, cf.rev} \ {None}
        IN  /\ \A h \in halves : cf.first <= h.first /\ h.last <= cf.last
            /\ \E h \in halves : h.first = cf.first
            /\ \E h \in halves : h.last = cf.last

(* The RDMA counters of a conversation are those of a forward half: they   *)
(* follow the one now held whenever it has any, and never come from a      *)
(* conversation without one.                                               *)
RDMAFollowsForward ==
    \A ck \in Entries :
        LET cf == flows[ck] IN
        /\ cf.rdma # None => cf.fwd # None
        /\ cf.fwd # None /\ cf.fwd.rdma # None => cf.rdma = cf.fwd.rdma

(* While an entry lives it keeps the identity of the flow that created it, *)
(* although agents give a flow a new FlowID whenever they have evicted it, *)
(* and it never loses a half: writers test Forward for nil and dereference *)
(* it afterwards without the lock.                                         *)
IdentityAndHalvesKept ==
    [][\A ck \in CorrelationKey :
          flows[ck] # None /\ flows'[ck] # None =>
              /\ flows'[ck].id = flows[ck].id
              /\ flows'[ck].tenant = flows[ck].tenant
              /\ flows[ck].fwd # None => flows'[ck].fwd # None
              /\ flows[ck].rev # None => flows'[ck].rev # None]_flows

(* The correlator implements the ledger: the slot a directed flow maps to  *)
(* holds its latest observation, and no other operation touches it.        *)
LatestOf(k) ==
    LET cf == flows[MakeCorrelationKey(k)]
    IN  IF cf = None THEN None
        ELSE IF IsForward(k) THEN cf.fwd ELSE cf.rev

Ledger == INSTANCE ConversationLedger
              WITH latest <- [k \in FlowKey |-> LatestOf(k)]

ImplementsLedger == Ledger!Spec

(* A conversation belongs to one tenant, and both of its halves with it:   *)
(* "every data path must be tenant-scoped" (docs/PRD-and-Functional-       *)
(* Spec.md:184).  The key has no tenant, so this does not hold when nodes  *)
(* of two tenants report the two ends of a connection, or the same private *)
(* addresses.                                                              *)
TenantScoped ==
    \A ck \in Entries :
        \A h \in {flows[ck].fwd, flows[ck].rev} \ {None} :
            h.tenant = flows[ck].tenant
=============================================================================
