----------------------------- MODULE KernelFlows -----------------------------
(***************************************************************************)
(* What the kernel's flow_table promises to the agent that reads it: an    *)
(* entry for a flow appears with its first packet, its counter never goes  *)
(* down while it lives, and the LRU map may drop it at any time.  The time *)
(* of its last packet is a time that has passed, and no more: with packets *)
(* of one flow on two CPUs it may go back.                                 *)
(***************************************************************************)
EXTENDS Integers

CONSTANTS Key,            \* the 5-tuples of packets
          None

VARIABLES kernel,         \* flow_table: key -> [packets, last], None where absent
          now             \* bpf_ktime_get_ns: time since boot

Tracked == {k \in Key : kernel[k] # None}

Init == kernel = [k \in Key |-> None] /\ now = 0

Tick == now' = now + 1 /\ UNCHANGED kernel

Insert(k) ==
    /\ k \notin Tracked
    /\ \E t \in 0 .. now : kernel' = [kernel EXCEPT ![k] = [packets |-> 1, last |-> t]]
    /\ UNCHANGED now

CountPacket(k) ==
    /\ k \in Tracked
    /\ kernel' = [kernel EXCEPT ![k].packets = @ + 1]
    /\ UNCHANGED now

Touch(k) ==
    /\ k \in Tracked
    /\ \E t \in 0 .. now : kernel' = [kernel EXCEPT ![k].last = t]
    /\ UNCHANGED now

Evict(k) ==
    /\ k \in Tracked
    /\ kernel' = [kernel EXCEPT ![k] = None]
    /\ UNCHANGED now

Next == \/ Tick
        \/ \E k \in Key : Insert(k) \/ CountPacket(k) \/ Touch(k) \/ Evict(k)

Spec == Init /\ [][Next]_<<kernel, now>>
=============================================================================
