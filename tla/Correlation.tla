---------------------------- MODULE Correlation ----------------------------
(***************************************************************************)
(* The values the flow correlator works on and the steps of its Ingest,    *)
(* as operators: pkg/model/flow.go and pkg/aggregator/flow_correlator.go.  *)
(*                                                                         *)
(* A pointer to a Flow or to an RDMAInfo that may be nil is the value or   *)
(* None.  A Flow is never written after it has been stored in a            *)
(* CorrelatedFlow (Ingest stores the address of its own copy), so a        *)
(* pointer to one and its value are the same thing.  Packets are treated   *)
(* by the code line for line as Bytes are, and stand for them here.        *)
(***************************************************************************)
EXTENDS Integers

CONSTANTS IP, Port, Protocol, FlowID, TenantID, RDMAInfo, Time,
          None            \* the nil pointer, and the missing entry of a map

FlowKey == [srcIP : IP, dstIP : IP, srcPort : Port, dstPort : Port,
            protocol : Protocol]

Flow == [key : FlowKey, id : FlowID, tenant : TenantID, bytes : Nat,
         first : Time, last : Time, rdma : RDMAInfo \cup {None}]

CorrelationKey == [ipA : IP, ipB : IP, portA : Port, portB : Port,
                   protocol : Protocol]

CorrelatedFlow == [id : FlowID, tenant : TenantID,
                   fwd : Flow \cup {None}, rev : Flow \cup {None},
                   total : Nat, first : Time, last : Time,
                   rdma : RDMAInfo \cup {None}]

ASSUME AddressesAreOrdered == IP \subseteq Int /\ Port \subseteq Int
ASSUME TimeIsOrdered == Time \subseteq Int
ASSUME NoneIsNoValue == None \notin Flow \cup CorrelatedFlow \cup RDMAInfo

-----------------------------------------------------------------------------
(* Keys.                                                                   *)

ReverseKey(k) == [srcIP |-> k.dstIP, dstIP |-> k.srcIP,
                  srcPort |-> k.dstPort, dstPort |-> k.srcPort,
                  protocol |-> k.protocol]

LowerFirst(k) == \/ k.srcIP < k.dstIP
                 \/ k.srcIP = k.dstIP /\ k.srcPort < k.dstPort

\* Mutant: the ports are sorted by themselves, as in docs/PRD-and-Functional-Spec.md:425.
SortedPortsKey(k) ==
    LET lo == IF LowerFirst(k) THEN k ELSE ReverseKey(k)
    IN  [ipA |-> lo.srcIP, ipB |-> lo.dstIP,
         portA |-> IF k.srcPort < k.dstPort THEN k.srcPort ELSE k.dstPort,
         portB |-> IF k.srcPort < k.dstPort THEN k.dstPort ELSE k.srcPort,
         protocol |-> k.protocol]

\* The addresses and the ports swap together: the port stays with its host.
MakeCorrelationKey(k) ==
    LET lo == IF LowerFirst(k) THEN k ELSE ReverseKey(k)
    IN  [ipA |-> lo.srcIP, ipB |-> lo.dstIP,
         portA |-> lo.srcPort, portB |-> lo.dstPort, protocol |-> k.protocol]

IsForward(k) == LET ck == MakeCorrelationKey(k)
                IN  k.srcIP = ck.ipA /\ k.srcPort = ck.portA

-----------------------------------------------------------------------------
(* The steps of Ingest, in the order in which it writes to the entry.      *)

NewEntry(f) == [id |-> f.id, tenant |-> f.tenant, fwd |-> None, rev |-> None,
                total |-> 0, first |-> f.first, last |-> f.last, rdma |-> None]

\* Mutant: a flow with a new FlowID starts its conversation anew.
EntryForSameID(map, f) ==
    LET ck == MakeCorrelationKey(f.key)
    IN  IF map[ck] = None \/ map[ck].id # f.id THEN NewEntry(f) ELSE map[ck]

EntryFor(map, f) ==
    LET ck == MakeCorrelationKey(f.key)
    IN  IF map[ck] = None THEN NewEntry(f) ELSE map[ck]

\* Mutant: the sums of the last Ingest are not reset.
StoreHalfOnTop(cf, f) ==
    [cf EXCEPT !.fwd = IF IsForward(f.key) THEN f ELSE @,
               !.rev = IF IsForward(f.key) THEN @ ELSE f,
               !.first = f.first, !.last = f.last]

\* Mutant: the times of the last Ingest are not reset.
StoreHalfKeepingSpan(cf, f) ==
    [cf EXCEPT !.fwd = IF IsForward(f.key) THEN f ELSE @,
               !.rev = IF IsForward(f.key) THEN @ ELSE f,
               !.total = 0]

\* The slot of the flow's direction is replaced, the sums start again.
StoreHalf(cf, f) ==
    [cf EXCEPT !.fwd = IF IsForward(f.key) THEN f ELSE @,
               !.rev = IF IsForward(f.key) THEN @ ELSE f,
               !.total = 0, !.first = f.first, !.last = f.last]

Earlier(t, u) == IF u < t THEN u ELSE t
Later(t, u) == IF u > t THEN u ELSE t

AddHalf(cf, h) ==
    IF h = None THEN cf
    ELSE [cf EXCEPT !.total = @ + h.bytes,
                    !.first = Earlier(@, h.first),
                    !.last = Later(@, h.last)]

\* Mutant: the first RDMA counters seen are never replaced.
AddForwardRDMAOnce(cf) ==
    LET sum == AddHalf(cf, cf.fwd)
    IN  IF cf.fwd # None /\ cf.fwd.rdma # None /\ cf.rdma = None
        THEN [sum EXCEPT !.rdma = cf.fwd.rdma]
        ELSE sum

AddForward(cf) ==
    LET sum == AddHalf(cf, cf.fwd)
    IN  IF cf.fwd # None /\ cf.fwd.rdma # None
        THEN [sum EXCEPT !.rdma = cf.fwd.rdma]
        ELSE sum

AddReverse(cf) == AddHalf(cf, cf.rev)

BytesOf(h) == IF h = None THEN 0 ELSE h.bytes

Merge(cf, f) == AddReverse(AddForward(StoreHalf(cf, f)))
=============================================================================
