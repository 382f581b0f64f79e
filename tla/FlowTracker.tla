----------------------------- MODULE FlowTracker -----------------------------
(***************************************************************************)
(* bpf/flow_tracker.c: the TC hooks of all CPUs at work on one LRU hash    *)
(* map.  A hook is not interrupted by another one on its CPU, but every    *)
(* memory access interleaves with those of the other CPUs.                 *)
(*                                                                         *)
(* The map is the kernel's.  Its elements are preallocated: a hook that    *)
(* has looked an element up goes on writing to it although the LRU has     *)
(* dropped it or has given it to another flow.                             *)
(***************************************************************************)
EXTENDS Integers, FiniteSets, FiniteSetsExt

CONSTANTS Key,            \* the 5-tuples of packets
          RoCE,           \* those whose packets are RoCEv2 (UDP port 4791)
          CPU, Slot,      \* Slot: the elements of the map
          MaxPackets,     \* bound: how many packets arrive in a behaviour
          None

ASSUME RoCEAreFlows == RoCE \subseteq Key
ASSUME FiniteMachine == IsFiniteSet(CPU) /\ CPU # {} /\ IsFiniteSet(Key)
ASSUME PacketsAreBounded == MaxPackets \in Nat
ASSUME NoneIsNoElement ==
    None \notin Key \cup Slot \cup [packets : Nat, last : Nat]
                 \cup [key : Key, packets : Nat, bytes : Nat, last : Nat, rdma : Nat]

VARIABLES
    flow_table,    \* element -> struct flow_value with its key, None where free
    hook,          \* CPU -> where its hook is, and its local variables
    pkt_counter,   \* the packets counted, over all CPUs
    flow_events,   \* keys of the events in the ring buffer
    now,           \* the clock: every packet has a time of its own
    seen,          \* history: how many packets of each flow have come in
    evicted        \* history: the flows the map has dropped or refused

vars == <<flow_table, hook, pkt_counter, flow_events, now, seen, evicted>>

Used == {s \in Slot : flow_table[s] # None}
SlotsOf(k) == {s \in Used : flow_table[s].key = k}

Idle == [pc |-> "idle", key |-> None, slot |-> None, now |-> 0, rdma |-> 0]

Init ==
    /\ flow_table = [s \in Slot |-> None]
    /\ hook = [c \in CPU |-> Idle]
    /\ pkt_counter = 0
    /\ flow_events = {}
    /\ now = 0
    /\ seen = [k \in Key |-> 0]
    /\ evicted = {}

Goto(c, pc) == hook' = [hook EXCEPT ![c].pc = pc]
Local == UNCHANGED <<pkt_counter, flow_events, now, seen, evicted>>

\* The element that c's hook has looked up; nobody sees writes to a free one.
Element(c) == flow_table[hook[c].slot]
InUse(c) == hook[c].slot \in Used
WriteElement(c, v) ==
    flow_table' = IF InUse(c) THEN [flow_table EXCEPT ![hook[c].slot] = v] ELSE flow_table

-----------------------------------------------------------------------------
\* A packet, and the hook reads the clock before anything else.
Receive(c, k) ==
    /\ hook[c].pc = "idle"
    /\ now < MaxPackets
    /\ now' = now + 1
    /\ seen' = [seen EXCEPT ![k] = @ + 1]
    /\ hook' = [hook EXCEPT ![c] = [Idle EXCEPT !.pc = "lookup", !.key = k, !.now = now']]
    /\ UNCHANGED <<flow_table, pkt_counter, flow_events, evicted>>

Lookup(c) ==
    /\ hook[c].pc = "lookup"
    /\ \/ \E s \in SlotsOf(hook[c].key) :
             hook' = [hook EXCEPT ![c].pc = "packets", ![c].slot = s]
       \/ SlotsOf(hook[c].key) = {} /\ Goto(c, "insert")
    /\ UNCHANGED flow_table /\ Local

\* Mutant: the addition is not atomic, it uses what the lookup has seen.
AddPacketToOld(c) ==
    /\ hook[c].pc \in {"packets", "add"}
    /\ \/ /\ hook[c].pc = "packets"
          /\ hook' = [hook EXCEPT ![c].pc = "add",
                                  ![c].rdma = IF InUse(c) THEN Element(c).packets ELSE 0]
          /\ UNCHANGED flow_table
       \/ /\ hook[c].pc = "add"
          /\ Goto(c, "bytes")
          /\ WriteElement(c, [Element(c) EXCEPT !.packets = hook[c].rdma + 1])
    /\ Local

AddPacket(c) ==
    /\ hook[c].pc = "packets"
    /\ Goto(c, "bytes")
    /\ WriteElement(c, [Element(c) EXCEPT !.packets = @ + 1])
    /\ Local

\* Every packet is taken to be of length one.
AddBytes(c) ==
    /\ hook[c].pc = "bytes"
    /\ Goto(c, "last")
    /\ WriteElement(c, [Element(c) EXCEPT !.bytes = @ + 1])
    /\ Local

\* How many messages try_parse_rdma counts of a packet: none if its base
\* transport header is cut off.
RDMAMessages(k) == IF k \in RoCE THEN {0, 1} ELSE {0}

SetLastSeen(c) ==
    /\ hook[c].pc = "last"
    /\ \E r \in RDMAMessages(hook[c].key) : Goto(c, IF r = 1 THEN "rdmaLoad" ELSE "finish")
    /\ WriteElement(c, [Element(c) EXCEPT !.last = hook[c].now])
    /\ Local

\* try_parse_rdma increments rdma_msg_count without an atomic operation.
LoadRDMA(c) ==
    /\ hook[c].pc = "rdmaLoad"
    /\ hook' = [hook EXCEPT ![c].pc = "rdmaStore",
                            ![c].rdma = IF InUse(c) THEN Element(c).rdma ELSE 0]
    /\ UNCHANGED flow_table /\ Local

StoreRDMA(c) ==
    /\ hook[c].pc = "rdmaStore"
    /\ Goto(c, "finish")
    /\ WriteElement(c, [Element(c) EXCEPT !.rdma = hook[c].rdma + 1])
    /\ Local

NewValues(c) ==
    [key : {hook[c].key}, packets : {1}, bytes : {1}, last : {hook[c].now},
     rdma : RDMAMessages(hook[c].key)]

\* Mutant: BPF_ANY instead of BPF_NOEXIST.
InsertAny(c) ==
    /\ hook[c].pc = "insert"
    /\ \E s \in IF SlotsOf(hook[c].key) # {} THEN SlotsOf(hook[c].key) ELSE Slot \ Used :
          \E v \in NewValues(c) : flow_table' = [flow_table EXCEPT ![s] = v]
    /\ Goto(c, "notify")
    /\ Local

\* BPF_NOEXIST: a flow that another CPU has inserted meanwhile stays as it
\* is, and the packet is lost.  Otherwise the map takes a free element, which
\* it has made by Evict if there was none.
Insert(c) ==
    /\ hook[c].pc = "insert"
    /\ \/ SlotsOf(hook[c].key) # {} /\ UNCHANGED flow_table
       \/ /\ SlotsOf(hook[c].key) = {}
          /\ \E s \in Slot \ Used, v \in NewValues(c) :
                flow_table' = [flow_table EXCEPT ![s] = v]
    /\ Goto(c, "notify")
    /\ Local

\* Any other error, as when all elements are in use by other CPUs' lists: the
\* hook ignores it, too.  The flow is refused rather than dropped.
InsertFails(c) ==
    /\ hook[c].pc = "insert"
    /\ SlotsOf(hook[c].key) = {}
    /\ Goto(c, "notify")
    /\ evicted' = evicted \cup {hook[c].key}
    /\ UNCHANGED <<flow_table, pkt_counter, flow_events, now, seen>>

\* The event is sent whether or not the insertion took place, if there is room.
Notify(c) ==
    /\ hook[c].pc = "notify"
    /\ Goto(c, "finish")
    /\ flow_events' \in {flow_events, flow_events \cup {hook[c].key}}
    /\ UNCHANGED <<flow_table, pkt_counter, now, seen, evicted>>

Finish(c) ==
    /\ hook[c].pc = "finish"
    /\ pkt_counter' = pkt_counter + 1
    /\ hook' = [hook EXCEPT ![c] = Idle]
    /\ UNCHANGED <<flow_table, flow_events, now, seen, evicted>>

-----------------------------------------------------------------------------
\* The kernel: the LRU drops an element.
Evict(s) ==
    /\ s \in Used
    /\ flow_table' = [flow_table EXCEPT ![s] = None]
    /\ evicted' = evicted \cup {flow_table[s].key}
    /\ UNCHANGED <<hook, pkt_counter, flow_events, now, seen>>

\* The agent takes an event.
ReadEvent(k) ==
    /\ k \in flow_events
    /\ flow_events' = flow_events \ {k}
    /\ UNCHANGED <<flow_table, hook, pkt_counter, now, seen, evicted>>

Step(c) == \/ Lookup(c) \/ AddPacket(c) \/ AddBytes(c) \/ SetLastSeen(c)
           \/ LoadRDMA(c) \/ StoreRDMA(c) \/ Insert(c) \/ InsertFails(c)
           \/ Notify(c) \/ Finish(c)

Next == \/ \E c \in CPU : Step(c) \/ \E k \in Key : Receive(c, k)
        \/ \E s \in Slot : Evict(s)
        \/ \E k \in Key : ReadEvent(k)

Spec == Init /\ [][Next]_vars

-----------------------------------------------------------------------------
(* The type invariant.                                                     *)
FlowValue == [key : Key, packets : 1 .. MaxPackets, bytes : 1 .. MaxPackets,
              last : 1 .. MaxPackets, rdma : 0 .. MaxPackets]

TypeOK ==
    /\ flow_table \in [Slot -> FlowValue \cup {None}]
    /\ hook \in [CPU -> [pc : {"idle", "lookup", "packets", "bytes", "last",
                               "rdmaLoad", "rdmaStore", "insert", "notify", "finish"},
                         key : Key \cup {None}, slot : Slot \cup {None},
                         now : 0 .. MaxPackets, rdma : 0 .. MaxPackets]]
    /\ pkt_counter \in 0 .. MaxPackets
    /\ flow_events \subseteq Key
    /\ now \in 0 .. MaxPackets
    /\ seen \in [Key -> 0 .. MaxPackets]
    /\ evicted \subseteq Key

(* A flow that has stayed in the map, and was never refused by it, is      *)
(* short of its packets by fewer than there are CPUs, however many packets *)
(* it has had: only the CPUs that missed it at the same time as the one    *)
(* that inserted it lose one each.  So the counters of a flow can be       *)
(* compared with those of the other end.                                   *)
Uncounted(k) == Cardinality({c \in CPU : /\ hook[c].key = k
                                         /\ hook[c].pc \in {"lookup", "packets", "insert"}})

ShortByCPUs ==
    \A s \in Used : LET k == flow_table[s].key IN
        k \notin evicted =>
            seen[k] < flow_table[s].packets + Uncounted(k) + Cardinality(CPU)

(* And while the map has dropped and refused nothing, no packet is counted *)
(* twice or for a flow that is not its own: bytes agree with packets but   *)
(* for the hooks between the two additions, the RDMA messages of a flow    *)
(* are at most its packets, and a flow has at most one element.  RDMA      *)
(* messages may be missing, as two CPUs may load the same count.           *)
NothingCountedTwice ==
    /\ evicted = {} =>
        \A s \in Used : LET v == flow_table[s] IN
            /\ v.packets <= seen[v.key]
            /\ v.packets = v.bytes + Cardinality({c \in CPU : hook[c].slot = s /\ hook[c].pc = "bytes"})
            /\ v.rdma <= (IF v.key \in RoCE THEN v.packets ELSE 0)
    /\ \A s, t \in Used : flow_table[s].key = flow_table[t].key => s = t

(* To the agent the map is KernelFlows: an entry is inserted once, counts  *)
(* up one packet at a time, whichever CPU's and even whichever flow's      *)
(* packet it is, and is dropped as a whole.                                *)
KernelView ==
    [k \in Key |->
        IF SlotsOf(k) = {} THEN None
        ELSE LET v == flow_table[CHOOSE s \in SlotsOf(k) : TRUE]
             IN  [packets |-> v.packets, last |-> v.last]]

Kernel == INSTANCE KernelFlows WITH kernel <- KernelView

ImplementsKernelFlows == Kernel!Spec
=============================================================================
