------------------------- MODULE FlowTrackerProofs -------------------------
(***************************************************************************)
(* Proofs about the TC hooks, for any flows, any finite number of CPUs,    *)
(* any elements of the map and any number of packets: how far the counters *)
(* of a flow can be from its packets, and what the agent that reads the    *)
(* map can rely on.                                                        *)
(***************************************************************************)
EXTENDS FlowTracker, FiniteSetTheorems, TLAPS

-----------------------------------------------------------------------------
(* The inductive invariant.  First what does not count anything.           *)

Pcs == {"idle", "lookup", "packets", "bytes", "last", "rdmaLoad", "rdmaStore",
        "insert", "notify", "finish"}
Hooks == [pc : Pcs, key : Key \cup {None}, slot : Slot \cup {None}, now : Nat, rdma : Nat]
Elements == [key : Key, packets : Nat, bytes : Nat, last : Nat, rdma : Nat]

Types ==
    /\ flow_table \in [Slot -> Elements \cup {None}]
    /\ hook \in [CPU -> Hooks]
    /\ now \in Nat
    /\ seen \in [Key -> Nat]
    /\ evicted \subseteq Key

\* Where a hook holds the element it has looked up.
Holding == {"packets", "bytes", "last", "rdmaLoad", "rdmaStore"}

\* A hook holds the element of its flow, unless the map has dropped that flow.
Held ==
    \A c \in CPU :
        /\ hook[c].now <= now
        /\ hook[c].pc # "idle" => hook[c].key \in Key
        /\ hook[c].pc \in {"rdmaLoad", "rdmaStore"} => hook[c].key \in RoCE
        /\ hook[c].pc \in Holding => hook[c].slot \in Slot
        /\ hook[c].pc \in Holding /\ hook[c].key \notin evicted =>
               InUse(c) /\ Element(c).key = hook[c].key

OneElement == \A s, t \in Used : flow_table[s].key = flow_table[t].key => s = t
TimesPassed == \A s \in Used : flow_table[s].last <= now

(* Then the counters.  A packet is uncounted up to the addition or the     *)
(* insertion; it can still be counted if the lookup finds the element; and *)
(* the hooks that have added it to packets but not yet to bytes, or have   *)
(* not finished with the element, explain the other counters.              *)
Before == {"lookup", "packets", "insert"}
Finding == {"lookup", "packets"}
Adding == {"bytes"}
Working == {"bytes", "last", "rdmaLoad", "rdmaStore"}

At(hooks, pcs) ==
    [k \in Key |-> Cardinality({c \in CPU : hooks[c].key = k /\ hooks[c].pc \in pcs})]
On(hooks, pcs) ==
    [s \in Slot |-> Cardinality({c \in CPU : hooks[c].slot = s /\ hooks[c].pc \in pcs})]

\* No packet has been counted twice.
NoneTwice ==
    /\ \A k \in Key : At(hook, Before)[k] <= seen[k]
    /\ evicted = {} =>
        /\ \A s \in Used : LET v == flow_table[s] IN
               /\ v.packets + At(hook, Before)[v.key] <= seen[v.key]
               /\ v.packets = v.bytes + On(hook, Adding)[s]
               /\ v.rdma + On(hook, Working)[s] <= v.packets
               /\ v.key \notin RoCE => v.rdma = 0
        /\ \A c \in CPU : hook[c].pc = "rdmaStore" =>
               hook[c].rdma + On(hook, Working)[hook[c].slot] <= Element(c).packets

\* Fewer than one packet for each CPU has been lost.
FewLost ==
    \A k \in Key \ evicted :
        /\ SlotsOf(k) = {} => seen[k] <= At(hook, Before)[k]
        /\ \A s \in SlotsOf(k) :
               seen[k] < flow_table[s].packets + At(hook, Finding)[k] + Cardinality(CPU)

Inv == Types /\ Held /\ OneElement /\ TimesPassed /\ NoneTwice /\ FewLost

-----------------------------------------------------------------------------
(* Counting hooks.                                                         *)

\* c's hook becomes h; the others stay where they are.
Becomes(c, h) == h \in Hooks /\ hook' = [hook EXCEPT ![c] = h]

LEMMA Numbered ==
    ASSUME NEW S \in SUBSET CPU
    PROVE  IsFiniteSet(S) /\ Cardinality(S) \in Nat
BY FiniteMachine, FS_Subset, FS_CardinalityType

(* Two sets of CPUs that differ in one at most.                            *)
LEMMA OneApart ==
    ASSUME NEW S \in SUBSET CPU, NEW T \in SUBSET CPU, NEW c, S \ {c} = T \ {c}
    PROVE  /\ (c \in S <=> c \in T) => Cardinality(T) = Cardinality(S)
           /\ c \notin S /\ c \in T => Cardinality(T) = Cardinality(S) + 1
           /\ c \in S /\ c \notin T => Cardinality(T) = Cardinality(S) - 1
<1>1. /\ Cardinality(S \ {c}) = IF c \in S THEN Cardinality(S) - 1 ELSE Cardinality(S)
      /\ Cardinality(T \ {c}) = IF c \in T THEN Cardinality(T) - 1 ELSE Cardinality(T)
    BY Numbered, FS_RemoveElement
<1>2. Cardinality(S) \in Nat /\ Cardinality(T) \in Nat
    BY Numbered
<1>3. Cardinality(S \ {c}) = Cardinality(T \ {c})
    OBVIOUS
<1>4. QED BY <1>1, <1>2, <1>3

LEMMA CountsAreNumbers ==
    ASSUME NEW hooks, NEW pcs
    PROVE  At(hooks, pcs) \in [Key -> Nat] /\ On(hooks, pcs) \in [Slot -> Nat]
<1>1. \A k : Cardinality({c \in CPU : hooks[c].key = k /\ hooks[c].pc \in pcs}) \in Nat
    BY Numbered
<1>2. \A s : Cardinality({c \in CPU : hooks[c].slot = s /\ hooks[c].pc \in pcs}) \in Nat
    BY Numbered
<1>3. QED BY <1>1, <1>2 DEF At, On

(* What one hook's step does to the numbers of hooks.                      *)
LEMMA Counted ==
    ASSUME Types, NEW c \in CPU, NEW h, Becomes(c, h), NEW pcs
    PROVE  /\ \A k \in Key :
                  LET old == hook[c].key = k /\ hook[c].pc \in pcs
                      new == h.key = k /\ h.pc \in pcs
                  IN  /\ (old <=> new) => At(hook', pcs)[k] = At(hook, pcs)[k]
                      /\ ~ old /\ new => At(hook', pcs)[k] = At(hook, pcs)[k] + 1
                      /\ old /\ ~ new => At(hook', pcs)[k] = At(hook, pcs)[k] - 1
           /\ \A s \in Slot :
                  LET old == hook[c].slot = s /\ hook[c].pc \in pcs
                      new == h.slot = s /\ h.pc \in pcs
                  IN  /\ (old <=> new) => On(hook', pcs)[s] = On(hook, pcs)[s]
                      /\ ~ old /\ new => On(hook', pcs)[s] = On(hook, pcs)[s] + 1
                      /\ old /\ ~ new => On(hook', pcs)[s] = On(hook, pcs)[s] - 1
<1>1. \A d \in CPU : hook'[d] = IF d = c THEN h ELSE hook[d]
    BY DEF Types, Becomes
<1>2. ASSUME NEW k \in Key
      PROVE  LET old == hook[c].key = k /\ hook[c].pc \in pcs
                 new == h.key = k /\ h.pc \in pcs
             IN  /\ (old <=> new) => At(hook', pcs)[k] = At(hook, pcs)[k]
                 /\ ~ old /\ new => At(hook', pcs)[k] = At(hook, pcs)[k] + 1
                 /\ old /\ ~ new => At(hook', pcs)[k] = At(hook, pcs)[k] - 1
  <2> DEFINE S == {d \in CPU : hook[d].key = k /\ hook[d].pc \in pcs}
             T == {d \in CPU : hook'[d].key = k /\ hook'[d].pc \in pcs}
  <2>1. /\ At(hook, pcs)[k] = Cardinality(S) /\ At(hook', pcs)[k] = Cardinality(T)
        /\ S \in SUBSET CPU /\ T \in SUBSET CPU
      BY DEF At
  <2>2. /\ S \ {c} = T \ {c}
        /\ c \in T <=> h.key = k /\ h.pc \in pcs
        /\ c \in S <=> hook[c].key = k /\ hook[c].pc \in pcs
      BY <1>1
  <2> HIDE DEF S, T
  <2>3. QED BY <2>1, <2>2, OneApart
<1>3. ASSUME NEW s \in Slot
      PROVE  LET old == hook[c].slot = s /\ hook[c].pc \in pcs
                 new == h.slot = s /\ h.pc \in pcs
             IN  /\ (old <=> new) => On(hook', pcs)[s] = On(hook, pcs)[s]
                 /\ ~ old /\ new => On(hook', pcs)[s] = On(hook, pcs)[s] + 1
                 /\ old /\ ~ new => On(hook', pcs)[s] = On(hook, pcs)[s] - 1
  <2> DEFINE S == {d \in CPU : hook[d].slot = s /\ hook[d].pc \in pcs}
             T == {d \in CPU : hook'[d].slot = s /\ hook'[d].pc \in pcs}
  <2>1. /\ On(hook, pcs)[s] = Cardinality(S) /\ On(hook', pcs)[s] = Cardinality(T)
        /\ S \in SUBSET CPU /\ T \in SUBSET CPU
      BY DEF On
  <2>2. /\ S \ {c} = T \ {c}
        /\ c \in T <=> h.slot = s /\ h.pc \in pcs
        /\ c \in S <=> hook[c].slot = s /\ hook[c].pc \in pcs
      BY <1>1
  <2> HIDE DEF S, T
  <2>3. QED BY <2>1, <2>2, OneApart
<1>4. QED BY <1>2, <1>3

LEMMA InitInv == Init => Inv
<1> SUFFICES ASSUME Init PROVE Inv
    OBVIOUS
<1> USE DEF Init
<1>1. Types
    BY DEF Types, Hooks, Idle, Pcs
<1>2. Used = {} /\ \A c \in CPU : hook[c] = Idle
    BY DEF Used
<1>3. Held /\ OneElement /\ TimesPassed
    BY <1>2 DEF Held, OneElement, TimesPassed, Idle, Holding
<1>4. \A k \in Key : At(hook, Before)[k] = 0
  <2> SUFFICES ASSUME NEW k \in Key PROVE At(hook, Before)[k] = 0
      OBVIOUS
  <2>1. {c \in CPU : hook[c].key = k /\ hook[c].pc \in Before} = {}
      BY <1>2 DEF Before, Idle
  <2>2. QED BY <2>1, FS_EmptySet DEF At
<1>5. NoneTwice /\ FewLost
    BY <1>2, <1>4 DEF NoneTwice, FewLost, SlotsOf, Idle
<1>6. QED BY <1>1, <1>3, <1>5 DEF Inv

-----------------------------------------------------------------------------
(* The steps of a hook.                                                    *)

\* A step that leaves the elements with their flows.
SameKeys ==
    /\ flow_table' \in [Slot -> Elements \cup {None}]
    /\ Used' = Used
    /\ \A s \in Used : flow_table'[s].key = flow_table[s].key
    /\ UNCHANGED <<now, seen, evicted>>

LEMMA SameSlots == SameKeys => \A k : SlotsOf(k)' = SlotsOf(k)
BY DEF SameKeys, SlotsOf

LEMMA UsedElement ==
    ASSUME Types, NEW s \in Used
    PROVE  s \in Slot /\ flow_table[s] \in Elements /\ flow_table[s].key \in Key
BY DEF Types, Used, Elements

(* A write to an element that is in use, or is not any more.               *)
LEMMA WriteKeepsKeys ==
    ASSUME Types, NEW c \in CPU, NEW v, WriteElement(c, v), UNCHANGED <<now, seen, evicted>>,
           InUse(c) => v \in Elements /\ v.key = Element(c).key
    PROVE  /\ SameKeys
           /\ \A s \in Used : flow_table'[s] = IF s = hook[c].slot THEN v ELSE flow_table[s]
<1>1. CASE InUse(c)
  <2>1. /\ hook[c].slot \in Slot /\ flow_table' = [flow_table EXCEPT ![hook[c].slot] = v]
        /\ v \in Elements /\ v # None
      BY <1>1, NoneIsNoElement DEF InUse, Used, WriteElement, Elements
  <2>2. \A s \in Slot : flow_table'[s] = IF s = hook[c].slot THEN v ELSE flow_table[s]
      BY <2>1 DEF Types
  <2>3. flow_table' \in [Slot -> Elements \cup {None}]
      BY <2>1 DEF Types
  <2>4. Used' = Used
      BY <1>1, <2>1, <2>2 DEF Used, InUse
  <2>5. QED BY <1>1, <2>2, <2>3, <2>4 DEF SameKeys, Element, Used
<1>2. CASE ~ InUse(c)
  <2>1. flow_table' = flow_table /\ hook[c].slot \notin Used
      BY <1>2 DEF WriteElement, InUse
  <2>2. QED BY <2>1 DEF SameKeys, Types, Used
<1>3. QED BY <1>1, <1>2

(* What does not count anything, over a hook's step.                       *)
LEMMA StaysHeld ==
    ASSUME Inv, SameKeys, NEW c \in CPU, NEW h, Becomes(c, h),
           \A s \in Used : flow_table'[s].last <= now,
           h.now <= now,
           h.pc # "idle" => h.key \in Key,
           h.pc \in {"rdmaLoad", "rdmaStore"} => h.key \in RoCE,
           h.pc \in Holding => h.slot \in Slot,
           h.pc \in Holding /\ h.key \notin evicted =>
               h.slot \in Used /\ flow_table[h.slot].key = h.key
    PROVE  Types' /\ Held' /\ OneElement' /\ TimesPassed'
<1>1. \A d \in CPU : hook'[d] = IF d = c THEN h ELSE hook[d]
    BY DEF Inv, Types, Becomes
<1>2. Types'
    BY DEF Inv, Types, SameKeys, Becomes
<1>3. OneElement' /\ TimesPassed'
    BY DEF Inv, OneElement, TimesPassed, SameKeys
<1>4. Held'
  <2> SUFFICES ASSUME NEW d \in CPU
               PROVE  /\ hook'[d].now <= now'
                      /\ hook'[d].pc # "idle" => hook'[d].key \in Key
                      /\ hook'[d].pc \in {"rdmaLoad", "rdmaStore"} => hook'[d].key \in RoCE
                      /\ hook'[d].pc \in Holding => hook'[d].slot \in Slot
                      /\ hook'[d].pc \in Holding /\ hook'[d].key \notin evicted' =>
                             /\ hook'[d].slot \in Used'
                             /\ flow_table'[hook'[d].slot].key = hook'[d].key
      BY DEF Held, InUse, Element
  <2>1. CASE d = c
      BY <1>1, <2>1 DEF SameKeys
  <2>2. CASE d # c
      BY <1>1, <2>2 DEF SameKeys, Inv, Held, InUse, Element
  <2>3. QED BY <2>1, <2>2
<1>5. QED BY <1>2, <1>3, <1>4

(* A step that counts nothing: the hook enters or leaves neither Before    *)
(* nor Working, and if it leaves Finding, its flow has no element.         *)
LEMMA CountsStay ==
    ASSUME Inv, UNCHANGED <<flow_table, now, seen, evicted>>,
           NEW c \in CPU, NEW h, Becomes(c, h),
           hook[c].pc \notin Working, h.pc \notin Working,
           \/ hook[c].pc \notin Before /\ h.pc \notin Before
           \/ /\ hook[c].pc \in Before /\ h.pc \in Before /\ h.key = hook[c].key
              /\ (hook[c].pc \in Finding /\ h.pc \in Finding) \/ SlotsOf(h.key) = {}
    PROVE  NoneTwice' /\ FewLost'
<1> USE DEF Inv
<1>1. /\ \A k \in Key : At(hook', Before)[k] = At(hook, Before)[k]
      /\ \A k \in Key : SlotsOf(k) # {} => At(hook', Finding)[k] = At(hook, Finding)[k]
      /\ \A s \in Slot : On(hook', Adding)[s] = On(hook, Adding)[s] /\ On(hook', Working)[s] = On(hook, Working)[s]
  <2>1. Types
      OBVIOUS
  <2>2. \A k \in Key : At(hook', Before)[k] = At(hook, Before)[k]
      BY <2>1, Counted
  <2>3. \A k \in Key : SlotsOf(k) # {} => At(hook', Finding)[k] = At(hook, Finding)[k]
      BY <2>1, Counted DEF Before, Finding
  <2>4. \A s \in Slot : On(hook', Adding)[s] = On(hook, Adding)[s] /\ On(hook', Working)[s] = On(hook, Working)[s]
      BY <2>1, Counted DEF Adding, Working
  <2>5. QED BY <2>2, <2>3, <2>4
<1>2. Used' = Used /\ \A k : SlotsOf(k)' = SlotsOf(k)
    BY DEF Used, SlotsOf
<1>3. ASSUME NEW d \in CPU, hook'[d].pc = "rdmaStore", evicted = {}
      PROVE  hook'[d].rdma + On(hook', Working)[hook'[d].slot] <= flow_table[hook'[d].slot].packets
  <2>1. d # c /\ hook'[d] = hook[d]
      BY <1>3 DEF Types, Working, Becomes
  <2>2. hook[d].slot \in Slot
      BY <1>3, <2>1 DEF Held, Holding
  <2>3. QED BY <1>1, <1>3, <2>1, <2>2 DEF NoneTwice, Element
<1>4. NoneTwice'
  <2>1. \A s \in Used : s \in Slot /\ flow_table[s].key \in Key
      BY UsedElement
  <2>2. QED BY <1>1, <1>2, <1>3, <2>1 DEF NoneTwice, Element
<1>5. FewLost'
  <2>1. \A k : \A s \in SlotsOf(k) : SlotsOf(k) # {}
      OBVIOUS
  <2>2. QED BY <1>1, <1>2, <2>1 DEF FewLost
<1>6. QED BY <1>4, <1>5

LEMMA QuietStepsKeepInv ==
    ASSUME Inv, NEW c \in CPU, Lookup(c) \/ Notify(c) \/ Finish(c)
    PROVE  Inv'
<1>1. UNCHANGED <<flow_table, now, seen, evicted>> /\ hook[c] \in Hooks
    BY DEF Lookup, Notify, Finish, Local, Inv, Types
<1>2. SameKeys /\ \A s \in Used : flow_table'[s].last <= now
    BY <1>1 DEF SameKeys, Used, Inv, Types, TimesPassed
<1>3. PICK h :
          /\ Becomes(c, h)
          /\ \/ /\ hook[c].pc = "lookup" /\ h.pc = "packets" /\ h.key = hook[c].key
                /\ h.slot \in SlotsOf(h.key) /\ h.now = hook[c].now
             \/ /\ hook[c].pc = "lookup" /\ h.pc = "insert" /\ h.key = hook[c].key
                /\ SlotsOf(h.key) = {} /\ h.now = hook[c].now
             \/ /\ hook[c].pc = "notify" /\ h.pc = "finish" /\ h.key = hook[c].key
                /\ h.now = hook[c].now
             \/ hook[c].pc = "finish" /\ h = Idle
  <2>1. CASE Notify(c)
    <3> DEFINE h == [hook[c] EXCEPT !.pc = "finish"]
    <3>1. /\ Becomes(c, h) /\ hook[c].pc = "notify"
          /\ h \in Hooks /\ h.pc = "finish" /\ h.key = hook[c].key /\ h.now = hook[c].now
        BY <1>1, <2>1 DEF Notify, Goto, Hooks, Pcs, Inv, Types, Becomes
    <3>2. QED BY <3>1
  <2>2. CASE Finish(c)
      BY <2>2 DEF Finish, Hooks, Pcs, Idle, Becomes
  <2>3. CASE Lookup(c) /\ SlotsOf(hook[c].key) = {}
    <3> DEFINE h == [hook[c] EXCEPT !.pc = "insert"]
    <3>1. /\ Becomes(c, h) /\ hook[c].pc = "lookup"
          /\ h \in Hooks /\ h.pc = "insert" /\ h.key = hook[c].key /\ h.now = hook[c].now
        BY <1>1, <2>3 DEF Lookup, Goto, Hooks, Pcs, Inv, Types, Becomes
    <3>2. QED BY <2>3, <3>1
  <2>4. CASE Lookup(c) /\ SlotsOf(hook[c].key) # {}
    <3>1. PICK s \in SlotsOf(hook[c].key) :
              hook' = [hook EXCEPT ![c].pc = "packets", ![c].slot = s]
        BY <2>4 DEF Lookup
    <3> DEFINE h == [hook[c] EXCEPT !.pc = "packets", !.slot = s]
    <3>2. s \in Slot
        BY DEF SlotsOf, Used
    <3>3. hook' = [hook EXCEPT ![c] = h] /\ hook[c].pc = "lookup"
        BY <2>4, <3>1 DEF Lookup, Inv, Types
    <3>4. h \in Hooks /\ h.pc = "packets" /\ h.key = hook[c].key /\ h.now = hook[c].now /\ h.slot = s
        BY <1>1, <3>2 DEF Hooks, Pcs
    <3>5. QED BY <3>3, <3>4 DEF Becomes
  <2>5. QED BY <2>1, <2>2, <2>3, <2>4
<1>4. NoneTwice' /\ FewLost'
    BY <1>1, <1>3, CountsStay DEF Working, Before, Finding, Idle
<1>5. Types' /\ Held' /\ OneElement' /\ TimesPassed'
  <2>1. hook[c].pc \in {"lookup", "notify"} => hook[c].key \in Key
      BY DEF Inv, Held
  <2>2. /\ h.now <= now
        /\ h.pc # "idle" => h.key \in Key
        /\ h.pc \notin {"rdmaLoad", "rdmaStore"}
        /\ h.pc \in Holding => h.slot \in Used /\ flow_table[h.slot].key = h.key
      BY <1>3, <2>1 DEF Inv, Types, Held, Idle, Holding, SlotsOf, Becomes
  <2>3. QED BY <1>2, <1>3, <2>2, StaysHeld DEF Used
<1>6. QED BY <1>4, <1>5 DEF Inv

(* What a hook that holds an element knows.                                *)
LEMMA Holder ==
    ASSUME Inv, NEW c \in CPU, hook[c].pc \in Holding
    PROVE  /\ hook[c] \in Hooks /\ hook[c].key \in Key /\ hook[c].slot \in Slot
           /\ hook[c].now <= now
           /\ InUse(c) => hook[c].slot \in Used /\ Element(c) \in Elements
           /\ hook[c].key \notin evicted =>
                  /\ InUse(c) /\ Element(c).key = hook[c].key
                  /\ SlotsOf(hook[c].key) = {hook[c].slot}
<1>1. /\ hook[c] \in Hooks /\ hook[c].key \in Key /\ hook[c].slot \in Slot
      /\ hook[c].now <= now
      /\ hook[c].key \notin evicted => InUse(c) /\ Element(c).key = hook[c].key
    BY DEF Inv, Types, Held, Holding
<1>2. InUse(c) => hook[c].slot \in Used /\ Element(c) \in Elements
    BY UsedElement DEF InUse, Element, Inv
<1>3. ASSUME hook[c].key \notin evicted
      PROVE  SlotsOf(hook[c].key) = {hook[c].slot}
    BY <1>1, <1>3 DEF Inv, OneElement, SlotsOf, InUse, Element
<1>4. QED BY <1>1, <1>2, <1>3

(* From one place to the next with the same element.                       *)
LEMMA Advances ==
    ASSUME Inv, NEW c \in CPU, hook[c].pc \in Holding, NEW pc \in Pcs, Goto(c, pc)
    PROVE  LET h == [hook[c] EXCEPT !.pc = pc] IN
           /\ Becomes(c, h)
           /\ h.pc = pc /\ h.key = hook[c].key /\ h.slot = hook[c].slot /\ h.now = hook[c].now
BY DEF Goto, Becomes, Hooks, Inv, Types

(* The atomic addition takes the packet from the uncounted ones.           *)
LEMMA AddPacketKeepsInv ==
    ASSUME Inv, NEW c \in CPU, AddPacket(c)
    PROVE  Inv'
<1> DEFINE v == [Element(c) EXCEPT !.packets = @ + 1]
           h == [hook[c] EXCEPT !.pc = "bytes"]
           k == hook[c].key
           s == hook[c].slot
<1>1. hook[c].pc = "packets" /\ Goto(c, "bytes") /\ WriteElement(c, v)
      /\ UNCHANGED <<now, seen, evicted>>
    BY DEF AddPacket, Local
<1>2. /\ k \in Key /\ s \in Slot /\ hook[c].now <= now
      /\ InUse(c) => s \in Used /\ Element(c) \in Elements
      /\ k \notin evicted => InUse(c) /\ Element(c).key = k /\ SlotsOf(k) = {s}
    BY <1>1, Holder DEF Holding
<1>3. /\ Becomes(c, h)
      /\ h.pc = "bytes" /\ h.key = k /\ h.slot = s /\ h.now = hook[c].now
    BY <1>1, Advances DEF Holding, Pcs
<1>4. InUse(c) => /\ v \in Elements /\ v.key = Element(c).key /\ v.last = Element(c).last
                  /\ v.packets = Element(c).packets + 1 /\ v.bytes = Element(c).bytes
                  /\ v.rdma = Element(c).rdma
    BY <1>2 DEF Elements
<1> HIDE DEF v, h
<1>5. /\ SameKeys
      /\ \A t \in Used : flow_table'[t] = IF t = s THEN v ELSE flow_table[t]
    BY <1>1, <1>4, WriteKeepsKeys DEF Inv
<1>6. Types' /\ Held' /\ OneElement' /\ TimesPassed'
  <2>1. \A t \in Used : flow_table'[t].last <= now
      BY <1>4, <1>5 DEF Inv, TimesPassed, InUse, Element
  <2>2. h.key \notin evicted => h.slot \in Used /\ flow_table[h.slot].key = h.key
      BY <1>2, <1>3 DEF Element
  <2>3. QED BY <1>2, <1>3, <1>5, <2>1, <2>2, StaysHeld DEF Holding
<1>7. /\ At(hook', Before)[k] = At(hook, Before)[k] - 1
      /\ At(hook', Finding)[k] = At(hook, Finding)[k] - 1
      /\ \A l \in Key : l # k => /\ At(hook', Before)[l] = At(hook, Before)[l]
                                 /\ At(hook', Finding)[l] = At(hook, Finding)[l]
      /\ On(hook', Adding)[s] = On(hook, Adding)[s] + 1
      /\ On(hook', Working)[s] = On(hook, Working)[s] + 1
      /\ \A t \in Slot : t # s => /\ On(hook', Adding)[t] = On(hook, Adding)[t]
                                  /\ On(hook', Working)[t] = On(hook, Working)[t]
    BY <1>1, <1>2, <1>3, Counted DEF Inv, Before, Finding, Adding, Working
<1>8. /\ \A l \in Key : /\ At(hook, Before)[l] \in Nat /\ At(hook, Finding)[l] \in Nat
                        /\ seen[l] \in Nat
      /\ \A t \in Slot : On(hook, Adding)[t] \in Nat /\ On(hook, Working)[t] \in Nat
    BY CountsAreNumbers DEF Inv, Types
<1>9. NoneTwice'
  <2>1. \A l \in Key : At(hook', Before)[l] <= seen[l]
      BY <1>2, <1>7, <1>8 DEF Inv, NoneTwice
  <2>2. ASSUME evicted = {}, NEW t \in Used
        PROVE  LET w == flow_table'[t] IN
               /\ w.packets + At(hook', Before)[w.key] <= seen[w.key]
               /\ w.packets = w.bytes + On(hook', Adding)[t]
               /\ w.rdma + On(hook', Working)[t] <= w.packets
               /\ w.key \notin RoCE => w.rdma = 0
    <3>1. t \in Slot /\ flow_table[t] \in Elements
          /\ flow_table[t].packets \in Nat /\ flow_table[t].bytes \in Nat
          /\ flow_table[t].rdma \in Nat /\ flow_table[t].key \in Key
        BY UsedElement DEF Inv, Elements
    <3>2. InUse(c) /\ Element(c).key = k /\ SlotsOf(k) = {s}
        BY <1>2, <2>2
    <3>3. /\ flow_table[t].packets + At(hook, Before)[flow_table[t].key] <= seen[flow_table[t].key]
          /\ flow_table[t].packets = flow_table[t].bytes + On(hook, Adding)[t]
          /\ flow_table[t].rdma + On(hook, Working)[t] <= flow_table[t].packets
          /\ flow_table[t].key \notin RoCE => flow_table[t].rdma = 0
        BY <2>2 DEF Inv, NoneTwice
    <3>4. CASE t = s
        BY <1>4, <1>5, <1>7, <1>8, <3>1, <3>2, <3>3, <3>4 DEF Element
    <3>5. CASE t # s
      <4>1. flow_table[t].key # k
          BY <3>2, <3>5 DEF SlotsOf
      <4>2. QED BY <1>5, <1>7, <3>1, <3>3, <3>5, <4>1
    <3>6. QED BY <3>4, <3>5
  <2>3. ASSUME evicted = {}, NEW d \in CPU, hook'[d].pc = "rdmaStore"
        PROVE  hook'[d].rdma + On(hook', Working)[hook'[d].slot] <= flow_table'[hook'[d].slot].packets
    <3>1. hook'[d] = hook[d] /\ hook[d].pc = "rdmaStore"
        BY <1>3, <2>3 DEF Becomes, Inv, Types
    <3>2. /\ hook[d].slot \in Used /\ Element(d) \in Elements /\ hook[d].rdma \in Nat
          /\ hook[d].rdma + On(hook, Working)[hook[d].slot] <= Element(d).packets
        BY <2>3, <3>1, Holder DEF Inv, NoneTwice, Holding, Hooks
    <3>3. Element(d).packets \in Nat
        BY <3>2 DEF Elements
    <3>4. CASE hook[d].slot = s
        BY <1>2, <1>4, <1>5, <1>7, <1>8, <3>1, <3>2, <3>3, <3>4 DEF Element, InUse
    <3>5. CASE hook[d].slot # s
        BY <1>5, <1>7, <3>1, <3>2, <3>5 DEF Element, Used
    <3>6. QED BY <3>4, <3>5
  <2>4. QED BY <1>5, <2>1, <2>2, <2>3 DEF NoneTwice, SameKeys, Element
<1>10. FewLost'
  <2> SUFFICES ASSUME NEW l \in Key \ evicted
               PROVE  /\ SlotsOf(l) = {} => seen[l] <= At(hook', Before)[l]
                      /\ \A t \in SlotsOf(l) :
                             seen[l] < flow_table'[t].packets + At(hook', Finding)[l] + Cardinality(CPU)
      BY <1>5, SameSlots DEF FewLost, SameKeys
  <2>1. /\ SlotsOf(l) = {} => seen[l] <= At(hook, Before)[l]
        /\ \A t \in SlotsOf(l) :
               seen[l] < flow_table[t].packets + At(hook, Finding)[l] + Cardinality(CPU)
      BY DEF Inv, FewLost
  <2>2. Cardinality(CPU) \in Nat
      BY Numbered
  <2>3. \A t \in SlotsOf(l) : t \in Used /\ flow_table[t].packets \in Nat
      BY UsedElement DEF SlotsOf, Elements, Inv
  <2>4. CASE l = k
      BY <1>2, <1>4, <1>5, <1>7, <1>8, <2>1, <2>2, <2>3, <2>4 DEF Element
  <2>5. CASE l # k
    <3>1. SlotsOf(l) = {} => seen[l] <= At(hook', Before)[l]
        BY <1>7, <2>1, <2>5
    <3>2. ASSUME NEW t \in SlotsOf(l)
          PROVE  seen[l] < flow_table'[t].packets + At(hook', Finding)[l] + Cardinality(CPU)
      <4>1. flow_table'[t].packets \in {flow_table[t].packets, flow_table[t].packets + 1}
          BY <1>4, <1>5, <2>3, <3>2 DEF Element, InUse
      <4>2. QED BY <1>7, <1>8, <2>1, <2>2, <2>3, <2>5, <3>2, <4>1
    <3>3. QED BY <3>1, <3>2
  <2>6. QED BY <2>4, <2>5
<1>11. QED BY <1>6, <1>9, <1>10 DEF Inv

(* What a step of a hook that stays at its element does to its counts.     *)
LEMMA StaysOn ==
    ASSUME Inv, NEW c \in CPU, NEW h, Becomes(c, h), NEW pcs,
           h.slot = hook[c].slot, hook[c].slot \in Slot
    PROVE  /\ hook[c].pc \in pcs /\ h.pc \in pcs => On(hook', pcs)[h.slot] = On(hook, pcs)[h.slot]
           /\ hook[c].pc \notin pcs /\ h.pc \notin pcs => On(hook', pcs)[h.slot] = On(hook, pcs)[h.slot]
           /\ hook[c].pc \in pcs /\ h.pc \notin pcs => On(hook', pcs)[h.slot] = On(hook, pcs)[h.slot] - 1
<1>1. Types
    BY DEF Inv
<1>2. QED BY <1>1, Counted

\* The element that c's hook has becomes v, but for the counters of packets.
Rewrites(c, v) ==
    InUse(c) => /\ v \in Elements /\ v.key = Element(c).key
                /\ v.packets = Element(c).packets
                /\ v.last = Element(c).last \/ v.last = hook[c].now

\* While nothing is dropped, v and the hook h agree with the hooks at work.
Settled(h, v) ==
    evicted = {} =>
        /\ v.packets = v.bytes + On(hook', Adding)[h.slot]
        /\ v.rdma + On(hook', Working)[h.slot] <= v.packets
        /\ v.key \notin RoCE => v.rdma = 0
        /\ On(hook', Working)[h.slot] <= On(hook, Working)[h.slot]
        /\ h.pc = "rdmaStore" => h.rdma + On(hook', Working)[h.slot] <= v.packets

(* The steps after it do not change the packets.  What is left to show of  *)
(* one of them is what it does to the other counters.                      *)
LEMMA AfterPacket ==
    ASSUME Inv, NEW c \in CPU, NEW h, NEW v,
           hook[c].pc \in Working, Becomes(c, h),
           h.pc \in Working \/ h.pc = "finish",
           h.key = hook[c].key, h.slot = hook[c].slot, h.now = hook[c].now,
           h.pc \in {"rdmaLoad", "rdmaStore"} => h.key \in RoCE,
           WriteElement(c, v), UNCHANGED <<now, seen, evicted>>, Rewrites(c, v), Settled(h, v)
    PROVE  Inv'
<1> DEFINE k == hook[c].key
           s == hook[c].slot
<1>1. /\ k \in Key /\ s \in Slot /\ hook[c].now <= now
      /\ InUse(c) => s \in Used /\ Element(c) \in Elements
      /\ k \notin evicted => InUse(c) /\ Element(c).key = k /\ SlotsOf(k) = {s}
    BY Holder DEF Holding, Working
<1>2. /\ SameKeys
      /\ \A t \in Used : flow_table'[t] = IF t = s THEN v ELSE flow_table[t]
    BY WriteKeepsKeys DEF Inv, Rewrites
<1>3. \A t \in Used : flow_table'[t].packets = flow_table[t].packets
    BY <1>2 DEF InUse, Element, Rewrites
<1>4. Types' /\ Held' /\ OneElement' /\ TimesPassed'
  <2>1. \A t \in Used : flow_table'[t].last <= now
      BY <1>1, <1>2 DEF Inv, TimesPassed, InUse, Element, Rewrites
  <2>2. h.key \notin evicted => h.slot \in Used /\ flow_table[h.slot].key = h.key
      BY <1>1 DEF Element
  <2>3. QED BY <1>1, <1>2, <2>1, <2>2, StaysHeld DEF Holding, Working
<1>5. /\ \A l \in Key : /\ At(hook', Before)[l] = At(hook, Before)[l]
                        /\ At(hook', Finding)[l] = At(hook, Finding)[l]
      /\ \A t \in Slot : t # s => /\ On(hook', Adding)[t] = On(hook, Adding)[t]
                                  /\ On(hook', Working)[t] = On(hook, Working)[t]
    BY Counted DEF Inv, Before, Finding, Adding, Working
<1>6. NoneTwice'
  <2>1. \A l \in Key : At(hook', Before)[l] <= seen[l]
      BY <1>5 DEF Inv, NoneTwice
  <2>2. ASSUME evicted = {}, NEW t \in Used
        PROVE  LET w == flow_table'[t] IN
               /\ w.packets + At(hook', Before)[w.key] <= seen[w.key]
               /\ w.packets = w.bytes + On(hook', Adding)[t]
               /\ w.rdma + On(hook', Working)[t] <= w.packets
               /\ w.key \notin RoCE => w.rdma = 0
    <3>1. t \in Slot /\ flow_table[t].key \in Key
        BY UsedElement DEF Inv
    <3>2. flow_table[t].packets + At(hook, Before)[flow_table[t].key] <= seen[flow_table[t].key]
        BY <2>2 DEF Inv, NoneTwice
    <3>3. CASE t = s
        BY <1>1, <1>2, <1>5, <2>2, <3>1, <3>2, <3>3 DEF Element, Rewrites, Settled
    <3>4. CASE t # s
        BY <1>2, <1>5, <2>2, <3>1, <3>4 DEF Inv, NoneTwice
    <3>5. QED BY <3>3, <3>4
  <2>3. ASSUME evicted = {}, NEW d \in CPU, hook'[d].pc = "rdmaStore"
        PROVE  hook'[d].rdma + On(hook', Working)[hook'[d].slot] <= flow_table'[hook'[d].slot].packets
    <3>1. CASE d = c
      <4>1. hook'[d] = h /\ s \in Used
          BY <1>1, <2>3, <3>1 DEF Becomes, Inv, Types
      <4>2. QED BY <1>2, <2>3, <4>1 DEF Settled
    <3>2. CASE d # c
      <4>1. hook'[d] = hook[d] /\ hook[d].pc = "rdmaStore"
          BY <2>3, <3>2 DEF Becomes, Inv, Types
      <4>2. /\ hook[d].slot \in Used /\ Element(d) \in Elements /\ hook[d].rdma \in Nat
            /\ hook[d].rdma + On(hook, Working)[hook[d].slot] <= Element(d).packets
          BY <2>3, <4>1, Holder DEF Inv, NoneTwice, Holding, Hooks
      <4>3. /\ hook[d].slot \in Slot /\ Element(d).packets \in Nat
            /\ On(hook, Working)[hook[d].slot] \in Nat /\ On(hook', Working)[hook[d].slot] \in Nat
          BY <4>2, CountsAreNumbers DEF Elements, Used
      <4>4. On(hook', Working)[hook[d].slot] <= On(hook, Working)[hook[d].slot]
          BY <1>5, <2>3, <4>3 DEF Settled
      <4>5. QED BY <1>3, <4>1, <4>2, <4>3, <4>4 DEF Element
    <3>3. QED BY <3>1, <3>2
  <2>4. QED BY <1>2, <2>1, <2>2, <2>3 DEF NoneTwice, SameKeys, Element
<1>7. FewLost'
  <2>1. \A k1 : SlotsOf(k1)' = SlotsOf(k1)
      BY <1>2, SameSlots
  <2>2. \A k1 : SlotsOf(k1) \subseteq Used
      BY DEF SlotsOf
  <2>3. QED BY <1>2, <1>3, <1>5, <2>1, <2>2 DEF Inv, FewLost, SameKeys
<1>8. QED BY <1>4, <1>6, <1>7 DEF Inv

(* How the hooks at work on an element count while nothing is dropped.     *)
LEMMA AtWork ==
    ASSUME Inv, NEW c \in CPU, hook[c].pc \in Working, evicted = {}
    PROVE  LET v == Element(c) IN
           /\ v \in Elements /\ v.packets \in Nat /\ v.bytes \in Nat /\ v.rdma \in Nat
           /\ v.packets = v.bytes + On(hook, Adding)[hook[c].slot]
           /\ v.rdma + On(hook, Working)[hook[c].slot] <= v.packets
           /\ v.key \notin RoCE => v.rdma = 0
           /\ v.key = hook[c].key
           /\ On(hook, Adding)[hook[c].slot] \in Nat /\ On(hook, Working)[hook[c].slot] \in Nat
<1>1. hook[c].slot \in Used /\ hook[c].slot \in Slot /\ Element(c).key = hook[c].key
      /\ Element(c) \in Elements
    BY Holder DEF Holding, Working
<1>2. Element(c).packets \in Nat /\ Element(c).bytes \in Nat /\ Element(c).rdma \in Nat
    BY <1>1 DEF Elements
<1>3. QED BY <1>1, <1>2, CountsAreNumbers DEF Inv, NoneTwice, Element

LEMMA AddBytesKeepsInv ==
    ASSUME Inv, NEW c \in CPU, AddBytes(c)
    PROVE  Inv'
<1> DEFINE v == [Element(c) EXCEPT !.bytes = @ + 1]
           h == [hook[c] EXCEPT !.pc = "last"]
<1>1. hook[c].pc = "bytes" /\ Goto(c, "last") /\ WriteElement(c, v)
      /\ UNCHANGED <<now, seen, evicted>>
    BY DEF AddBytes, Local
<1>2. /\ Becomes(c, h)
      /\ h.pc = "last" /\ h.key = hook[c].key /\ h.slot = hook[c].slot /\ h.now = hook[c].now
    BY <1>1, Advances DEF Holding, Pcs
<1>3. hook[c].slot \in Slot /\ (InUse(c) => Element(c) \in Elements)
    BY <1>1, Holder DEF Holding
<1>4. Element(c) \in Elements =>
          /\ v \in Elements /\ v.key = Element(c).key /\ v.last = Element(c).last
          /\ v.packets = Element(c).packets /\ v.bytes = Element(c).bytes + 1
          /\ v.rdma = Element(c).rdma
    BY DEF Elements
<1> HIDE DEF v, h
<1>5. On(hook', Adding)[h.slot] = On(hook, Adding)[h.slot] - 1
    BY <1>1, <1>2, <1>3, StaysOn DEF Adding
<1>6. On(hook', Working)[h.slot] = On(hook, Working)[h.slot]
    BY <1>1, <1>2, <1>3, StaysOn DEF Working
<1>7. hook[c].pc \in Working /\ h.pc \in Working
    BY <1>1, <1>2 DEF Working
<1>8. Settled(h, v)
    BY <1>2, <1>4, <1>5, <1>6, <1>7, AtWork DEF Settled
<1>9. Rewrites(c, v)
    BY <1>3, <1>4 DEF Rewrites
<1>10. QED BY <1>1, <1>2, <1>7, <1>8, <1>9, AfterPacket

LEMMA SetLastSeenKeepsInv ==
    ASSUME Inv, NEW c \in CPU, SetLastSeen(c)
    PROVE  Inv'
<1>0. PICK r \in RDMAMessages(hook[c].key) : Goto(c, IF r = 1 THEN "rdmaLoad" ELSE "finish")
    BY DEF SetLastSeen
<1> DEFINE v == [Element(c) EXCEPT !.last = hook[c].now]
           pc == IF r = 1 THEN "rdmaLoad" ELSE "finish"
           h == [hook[c] EXCEPT !.pc = pc]
<1>1. hook[c].pc = "last" /\ Goto(c, pc) /\ WriteElement(c, v)
      /\ UNCHANGED <<now, seen, evicted>> /\ pc \in Pcs
    BY <1>0 DEF SetLastSeen, Local, Pcs
<1>2. /\ Becomes(c, h)
      /\ h.pc = pc /\ h.key = hook[c].key /\ h.slot = hook[c].slot /\ h.now = hook[c].now
    BY <1>1, Advances DEF Holding
<1>3. /\ hook[c].slot \in Slot /\ (InUse(c) => Element(c) \in Elements)
      /\ hook[c].now \in Nat
    BY <1>1, Holder DEF Holding, Hooks
<1>4. Element(c) \in Elements =>
          /\ v \in Elements /\ v.key = Element(c).key /\ v.last = hook[c].now
          /\ v.packets = Element(c).packets /\ v.bytes = Element(c).bytes
          /\ v.rdma = Element(c).rdma
    BY <1>3 DEF Elements
<1>5. h.pc \in {"rdmaLoad", "finish"} /\ (h.pc = "rdmaLoad" => h.key \in RoCE)
    BY <1>0, <1>2 DEF RDMAMessages
<1> HIDE DEF v, h, pc
<1>6. On(hook', Adding)[h.slot] = On(hook, Adding)[h.slot]
    BY <1>1, <1>2, <1>3, <1>5, StaysOn DEF Adding
<1>7. \/ On(hook', Working)[h.slot] = On(hook, Working)[h.slot]
      \/ On(hook', Working)[h.slot] = On(hook, Working)[h.slot] - 1
    BY <1>1, <1>2, <1>3, <1>5, StaysOn DEF Working
<1>8. /\ hook[c].pc \in Working /\ (h.pc \in Working \/ h.pc = "finish")
      /\ h.pc \in {"rdmaLoad", "rdmaStore"} => h.key \in RoCE
    BY <1>1, <1>5 DEF Working
<1>9. Settled(h, v)
    BY <1>2, <1>4, <1>5, <1>6, <1>7, <1>8, AtWork DEF Settled
<1>10. Rewrites(c, v)
    BY <1>3, <1>4 DEF Rewrites
<1>11. QED BY <1>1, <1>2, <1>8, <1>9, <1>10, AfterPacket

(* The counter that is loaded still lacks the packet of the hook itself.   *)
LEMMA LoadRDMAKeepsInv ==
    ASSUME Inv, NEW c \in CPU, LoadRDMA(c)
    PROVE  Inv'
<1> DEFINE v == Element(c)
           r == IF InUse(c) THEN Element(c).rdma ELSE 0
           h == [hook[c] EXCEPT !.pc = "rdmaStore", !.rdma = r]
<1>1. hook[c].pc = "rdmaLoad" /\ hook' = [hook EXCEPT ![c] = h]
      /\ UNCHANGED <<flow_table, now, seen, evicted>>
    BY DEF LoadRDMA, Local, Inv, Types
<1>2. /\ hook[c].slot \in Slot /\ (InUse(c) => Element(c) \in Elements)
      /\ hook[c] \in Hooks /\ hook[c].key \in RoCE
    BY <1>1, Holder DEF Holding, Inv, Held
<1>3. r \in Nat
    BY <1>2 DEF Elements
<1>4. evicted = {} => r = v.rdma
    BY <1>1, Holder DEF Holding, Inv, Held
<1> HIDE DEF r
<1>5. /\ Becomes(c, h)
      /\ h.pc = "rdmaStore" /\ h.key = hook[c].key /\ h.slot = hook[c].slot
      /\ h.now = hook[c].now /\ h.rdma = r
    BY <1>1, <1>2, <1>3 DEF Becomes, Hooks, Pcs
<1>6. WriteElement(c, v)
    BY <1>1 DEF WriteElement, Element, InUse, Used, Inv, Types
<1>7. Rewrites(c, v)
    BY <1>2 DEF Rewrites
<1> HIDE DEF h
<1>8. On(hook', Adding)[h.slot] = On(hook, Adding)[h.slot]
    BY <1>1, <1>2, <1>5, StaysOn DEF Adding
<1>9. On(hook', Working)[h.slot] = On(hook, Working)[h.slot]
    BY <1>1, <1>2, <1>5, StaysOn DEF Working
<1>10. hook[c].pc \in Working /\ h.pc \in Working
    BY <1>1, <1>5 DEF Working
<1>11. Settled(h, v)
    BY <1>4, <1>5, <1>8, <1>9, <1>10, AtWork DEF Settled
<1> HIDE DEF v
<1>12. QED BY <1>1, <1>2, <1>5, <1>6, <1>7, <1>10, <1>11, AfterPacket

(* What is stored is at most what the other hooks' packets leave.          *)
LEMMA StoreRDMAKeepsInv ==
    ASSUME Inv, NEW c \in CPU, StoreRDMA(c)
    PROVE  Inv'
<1> DEFINE v == [Element(c) EXCEPT !.rdma = hook[c].rdma + 1]
           h == [hook[c] EXCEPT !.pc = "finish"]
<1>1. hook[c].pc = "rdmaStore" /\ Goto(c, "finish") /\ WriteElement(c, v)
      /\ UNCHANGED <<now, seen, evicted>>
    BY DEF StoreRDMA, Local
<1>2. /\ Becomes(c, h)
      /\ h.pc = "finish" /\ h.key = hook[c].key /\ h.slot = hook[c].slot /\ h.now = hook[c].now
    BY <1>1, Advances DEF Holding, Pcs
<1>3. /\ hook[c].slot \in Slot /\ (InUse(c) => Element(c) \in Elements)
      /\ hook[c].rdma \in Nat /\ hook[c].key \in RoCE
    BY <1>1, Holder DEF Holding, Hooks, Inv, Held
<1>4. Element(c) \in Elements =>
          /\ v \in Elements /\ v.key = Element(c).key /\ v.last = Element(c).last
          /\ v.packets = Element(c).packets /\ v.bytes = Element(c).bytes
          /\ v.rdma = hook[c].rdma + 1
    BY <1>3 DEF Elements
<1> HIDE DEF v, h
<1>5. On(hook', Adding)[h.slot] = On(hook, Adding)[h.slot]
    BY <1>1, <1>2, <1>3, StaysOn DEF Adding
<1>6. On(hook', Working)[h.slot] = On(hook, Working)[h.slot] - 1
    BY <1>1, <1>2, <1>3, StaysOn DEF Working
<1>7. hook[c].pc \in Working
    BY <1>1 DEF Working
<1>8. evicted = {} => hook[c].rdma + On(hook, Working)[hook[c].slot] <= Element(c).packets
    BY <1>1 DEF Inv, NoneTwice
<1>9. Settled(h, v)
    BY <1>2, <1>3, <1>4, <1>5, <1>6, <1>7, <1>8, AtWork DEF Settled
<1>10. Rewrites(c, v)
    BY <1>3, <1>4 DEF Rewrites
<1>11. QED BY <1>1, <1>2, <1>7, <1>9, <1>10, AfterPacket

-----------------------------------------------------------------------------
(* The insertion.                                                          *)

\* A hook that goes on to the notification has its packet counted or lost.
LEMMA Inserts ==
    ASSUME Inv, NEW c \in CPU, Insert(c) \/ InsertFails(c)
    PROVE  \E h :
           /\ Becomes(c, h) /\ h.pc = "notify" /\ h.now <= now
           /\ h.key = hook[c].key /\ hook[c].key \in Key
           /\ At(hook', Before)[h.key] = At(hook, Before)[h.key] - 1
           /\ \A l \in Key : l # h.key => At(hook', Before)[l] = At(hook, Before)[l]
           /\ \A l \in Key : At(hook', Finding)[l] = At(hook, Finding)[l]
           /\ \A t \in Slot : On(hook', Adding)[t] = On(hook, Adding)[t]
           /\ \A t \in Slot : On(hook', Working)[t] = On(hook, Working)[t]
<1> DEFINE h == [hook[c] EXCEPT !.pc = "notify"]
<1>1. hook[c].pc = "insert" /\ Goto(c, "notify") /\ hook[c] \in Hooks /\ Types
    BY DEF Insert, InsertFails, Inv, Types
<1>2. Becomes(c, h) /\ h.pc = "notify" /\ h.key = hook[c].key /\ h.now = hook[c].now
    BY <1>1 DEF Becomes, Goto, Hooks, Pcs, Types
<1>3. hook[c].key \in Key /\ hook[c].now <= now
    BY <1>1 DEF Inv, Held
<1> HIDE DEF h
<1>4. /\ At(hook', Before)[h.key] = At(hook, Before)[h.key] - 1
      /\ \A l \in Key : l # h.key => At(hook', Before)[l] = At(hook, Before)[l]
    BY <1>1, <1>2, <1>3, Counted DEF Before
<1>5. \A l \in Key : At(hook', Finding)[l] = At(hook, Finding)[l]
    BY <1>1, <1>2, Counted DEF Finding
<1>6. \A t \in Slot : On(hook', Adding)[t] = On(hook, Adding)[t]
    BY <1>1, <1>2, Counted DEF Adding
<1>7. \A t \in Slot : On(hook', Working)[t] = On(hook, Working)[t]
    BY <1>1, <1>2, Counted DEF Working
<1>8. QED BY <1>2, <1>3, <1>4, <1>5, <1>6, <1>7

(* The flow has been inserted by another hook: this packet is lost.        *)
LEMMA LosingInsertKeepsInv ==
    ASSUME Inv, NEW c \in CPU, Insert(c), SlotsOf(hook[c].key) # {}
    PROVE  Inv'
<1>1. PICK h :
           /\ Becomes(c, h) /\ h.pc = "notify" /\ h.now <= now
           /\ h.key = hook[c].key /\ hook[c].key \in Key
           /\ At(hook', Before)[h.key] = At(hook, Before)[h.key] - 1
           /\ \A l \in Key : l # h.key => At(hook', Before)[l] = At(hook, Before)[l]
           /\ \A l \in Key : At(hook', Finding)[l] = At(hook, Finding)[l]
           /\ \A t \in Slot : On(hook', Adding)[t] = On(hook, Adding)[t]
           /\ \A t \in Slot : On(hook', Working)[t] = On(hook, Working)[t]
    BY Inserts
<1>2. UNCHANGED <<flow_table, now, seen, evicted>>
    BY DEF Insert, Local
<1>3. SameKeys /\ \A s \in Used : flow_table'[s].last <= now
    BY <1>2 DEF SameKeys, Used, Inv, Types, TimesPassed
<1>4. Types' /\ Held' /\ OneElement' /\ TimesPassed'
    BY <1>1, <1>3, StaysHeld DEF Holding
<1>5. \A l \in Key : /\ At(hook, Before)[l] \in Nat /\ At(hook', Before)[l] \in Nat
                     /\ At(hook', Before)[l] <= At(hook, Before)[l]
                     /\ seen[l] \in Nat
    BY <1>1, CountsAreNumbers DEF Inv, Types
<1>6. NoneTwice'
  <2>1. \A l \in Key : At(hook', Before)[l] <= seen[l]
      BY <1>5 DEF Inv, NoneTwice
  <2>2. ASSUME evicted = {}, NEW t \in Used
        PROVE  LET w == flow_table[t] IN
               /\ w.packets + At(hook', Before)[w.key] <= seen[w.key]
               /\ w.packets = w.bytes + On(hook', Adding)[t]
               /\ w.rdma + On(hook', Working)[t] <= w.packets
               /\ w.key \notin RoCE => w.rdma = 0
    <3>1. t \in Slot /\ flow_table[t].key \in Key /\ flow_table[t].packets \in Nat
        BY UsedElement DEF Inv, Elements
    <3>2. flow_table[t].packets + At(hook, Before)[flow_table[t].key] <= seen[flow_table[t].key]
        BY <2>2 DEF Inv, NoneTwice
    <3>3. flow_table[t].packets + At(hook', Before)[flow_table[t].key] <= seen[flow_table[t].key]
        BY <1>5, <3>1, <3>2
    <3>4. QED BY <1>1, <2>2, <3>1, <3>3 DEF Inv, NoneTwice
  <2>3. ASSUME evicted = {}, NEW d \in CPU, hook'[d].pc = "rdmaStore"
        PROVE  hook'[d].rdma + On(hook', Working)[hook'[d].slot] <= flow_table[hook'[d].slot].packets
    <3>1. hook'[d] = hook[d] /\ hook[d].pc = "rdmaStore"
        BY <1>1, <2>3 DEF Becomes, Inv, Types
    <3>2. hook[d].slot \in Slot
        BY <3>1, Holder DEF Holding
    <3>3. QED BY <1>1, <2>3, <3>1, <3>2 DEF Inv, NoneTwice, Element
  <2>4. QED BY <1>2, <1>3, <2>1, <2>2, <2>3 DEF NoneTwice, SameKeys, Element
<1>7. FewLost'
  <2>1. \A k1 : SlotsOf(k1)' = SlotsOf(k1)
      BY <1>3, SameSlots
  <2>2. QED BY <1>1, <1>2, <2>1 DEF Inv, FewLost
<1>8. QED BY <1>4, <1>6, <1>7 DEF Inv

(* A free element has no hook at work on it while nothing is dropped.      *)
LEMMA FreeIsFree ==
    ASSUME Inv, evicted = {}, NEW s \in Slot \ Used
    PROVE  On(hook, Adding)[s] = 0 /\ On(hook, Working)[s] = 0
<1>1. \A d \in CPU : hook[d].pc \in Working => hook[d].slot # s
    BY Holder DEF Holding, Working
<1>2. /\ {d \in CPU : hook[d].slot = s /\ hook[d].pc \in Working} = {}
      /\ {d \in CPU : hook[d].slot = s /\ hook[d].pc \in Adding} = {}
    BY <1>1 DEF Working, Adding
<1>3. QED BY <1>2, FS_EmptySet DEF On

(* The flow gets an element.  The packets that came in before it are those *)
(* of hooks that have not counted them: at most one for each CPU.          *)
LEMMA MakingInsertKeepsInv ==
    ASSUME Inv, NEW c \in CPU, Insert(c), SlotsOf(hook[c].key) = {}
    PROVE  Inv'
<1>0. PICK k : k = hook[c].key
    OBVIOUS
<1>1. PICK h :
           /\ Becomes(c, h) /\ h.pc = "notify" /\ h.now <= now
           /\ h.key = k /\ k \in Key
           /\ At(hook', Before)[h.key] = At(hook, Before)[h.key] - 1
           /\ \A l \in Key : l # h.key => At(hook', Before)[l] = At(hook, Before)[l]
           /\ \A l \in Key : At(hook', Finding)[l] = At(hook, Finding)[l]
           /\ \A t \in Slot : On(hook', Adding)[t] = On(hook, Adding)[t]
           /\ \A t \in Slot : On(hook', Working)[t] = On(hook, Working)[t]
    BY <1>0, Inserts
<1>2. PICK s \in Slot \ Used, v \in NewValues(c) : flow_table' = [flow_table EXCEPT ![s] = v]
    BY DEF Insert
<1>3. UNCHANGED <<now, seen, evicted>> /\ hook[c].pc = "insert"
    BY DEF Insert, Local
<1>4. /\ v \in Elements /\ v # None
      /\ v.key = k /\ v.packets = 1 /\ v.bytes = 1 /\ v.last <= now
      /\ v.rdma \in {0, 1} /\ (k \notin RoCE => v.rdma = 0)
  <2>1. hook[c].now \in Nat /\ hook[c].now <= now /\ k \in Key
      BY <1>0, <1>1 DEF Inv, Types, Hooks, Held
  <2>2. /\ v \in Elements
        /\ v.key = k /\ v.packets = 1 /\ v.bytes = 1 /\ v.last = hook[c].now
        /\ v.rdma \in {0, 1} /\ (k \notin RoCE => v.rdma = 0)
      BY <1>0, <2>1 DEF NewValues, RDMAMessages, Elements
  <2>3. QED BY <2>1, <2>2, NoneIsNoElement DEF Elements
<1>5. \A t \in Slot : flow_table'[t] = IF t = s THEN v ELSE flow_table[t]
    BY <1>2 DEF Inv, Types
<1>6. Used' = Used \cup {s} /\ s \notin Used /\ s \in Slot
    BY <1>2, <1>4, <1>5 DEF Used
<1>7. /\ SlotsOf(k)' = {s}
      /\ \A l : l # k => SlotsOf(l)' = SlotsOf(l)
  <2>1. \A t \in Used : flow_table[t].key # k
      BY <1>0 DEF SlotsOf
  <2>2. Used \subseteq Slot
      BY DEF Used
  <2>3. \A l : SlotsOf(l)' = {t \in Used \cup {s} : flow_table'[t].key = l}
      BY <1>6 DEF SlotsOf
  <2>4. QED BY <1>4, <1>5, <1>6, <2>1, <2>2, <2>3 DEF SlotsOf
<1>8. Types' /\ OneElement' /\ TimesPassed'
  <2>1. flow_table' \in [Slot -> Elements \cup {None}]
      BY <1>2, <1>4 DEF Inv, Types
  <2>2. Types'
      BY <1>1, <1>3, <2>1 DEF Inv, Types, Becomes
  <2>3. \A t \in Used : t \in Slot /\ t # s /\ flow_table'[t] = flow_table[t] /\ flow_table[t].key # k
      BY <1>0, <1>5, <1>6 DEF Used, SlotsOf
  <2>4. flow_table'[s] = v
      BY <1>5, <1>6
  <2>5. OneElement'
      BY <1>4, <1>6, <2>3, <2>4 DEF OneElement, Inv
  <2>6. TimesPassed'
      BY <1>3, <1>4, <1>6, <2>3, <2>4 DEF TimesPassed, Inv
  <2>7. QED BY <2>2, <2>5, <2>6
<1>9. Held'
  <2> SUFFICES ASSUME NEW d \in CPU
               PROVE  /\ hook'[d].now <= now'
                      /\ hook'[d].pc # "idle" => hook'[d].key \in Key
                      /\ hook'[d].pc \in {"rdmaLoad", "rdmaStore"} => hook'[d].key \in RoCE
                      /\ hook'[d].pc \in Holding => hook'[d].slot \in Slot
                      /\ hook'[d].pc \in Holding /\ hook'[d].key \notin evicted' =>
                             /\ hook'[d].slot \in Used'
                             /\ flow_table'[hook'[d].slot].key = hook'[d].key
      BY DEF Held, InUse, Element
  <2>1. hook'[d] = IF d = c THEN h ELSE hook[d]
      BY <1>1 DEF Becomes, Inv, Types
  <2>2. CASE d = c
      BY <1>1, <1>3, <2>1, <2>2 DEF Holding
  <2>3. CASE d # c
      BY <1>3, <1>5, <1>6, <2>1, <2>3 DEF Inv, Held, InUse, Element
  <2>4. QED BY <2>2, <2>3
<1>10. \A l \in Key : /\ At(hook, Before)[l] \in Nat /\ At(hook', Before)[l] \in Nat
                      /\ At(hook, Finding)[l] \in Nat
                      /\ At(hook', Before)[l] <= At(hook, Before)[l]
                      /\ seen[l] \in Nat
    BY <1>1, CountsAreNumbers DEF Inv, Types
<1>11. NoneTwice'
  <2>1. \A l \in Key : At(hook', Before)[l] <= seen[l]
      BY <1>10 DEF Inv, NoneTwice
  <2>2. ASSUME evicted = {}, NEW t \in Used \cup {s}
        PROVE  LET w == flow_table'[t] IN
               /\ w.packets + At(hook', Before)[w.key] <= seen[w.key]
               /\ w.packets = w.bytes + On(hook', Adding)[t]
               /\ w.rdma + On(hook', Working)[t] <= w.packets
               /\ w.key \notin RoCE => w.rdma = 0
    <3>1. CASE t = s
      <4>1. flow_table'[t] = v /\ On(hook', Adding)[t] = 0 /\ On(hook', Working)[t] = 0
          BY <1>1, <1>5, <1>6, <2>2, <3>1, FreeIsFree
      <4>2. 1 + At(hook', Before)[k] <= seen[k]
          BY <1>1, <1>10 DEF Inv, NoneTwice
      <4>3. QED BY <1>4, <4>1, <4>2
    <3>2. CASE t \in Used
      <4>1. /\ t \in Slot /\ flow_table'[t] = flow_table[t] /\ flow_table[t].key \in Key
            /\ flow_table[t].packets \in Nat /\ flow_table[t].key # k
          BY <1>0, <1>5, <1>6, <3>2, UsedElement DEF Inv, Elements, SlotsOf
      <4>2. QED BY <1>1, <2>2, <3>2, <4>1 DEF Inv, NoneTwice
    <3>3. QED BY <3>1, <3>2
  <2>3. ASSUME evicted = {}, NEW d \in CPU, hook'[d].pc = "rdmaStore"
        PROVE  hook'[d].rdma + On(hook', Working)[hook'[d].slot] <= flow_table'[hook'[d].slot].packets
    <3>1. hook'[d] = hook[d] /\ hook[d].pc = "rdmaStore"
        BY <1>1, <2>3 DEF Becomes, Inv, Types
    <3>2. hook[d].slot \in Used /\ hook[d].slot \in Slot
        BY <2>3, <3>1, Holder DEF Holding
    <3>3. flow_table'[hook[d].slot] = flow_table[hook[d].slot]
        BY <1>5, <1>6, <3>2
    <3>4. QED BY <1>1, <2>3, <3>1, <3>2, <3>3 DEF Inv, NoneTwice, Element
  <2>4. QED BY <1>3, <1>6, <2>1, <2>2, <2>3 DEF NoneTwice, Element
<1>12. FewLost'
  <2> SUFFICES ASSUME NEW l \in Key \ evicted
               PROVE  /\ SlotsOf(l)' = {} => seen[l] <= At(hook', Before)[l]
                      /\ \A t \in SlotsOf(l)' :
                             seen[l] < flow_table'[t].packets + At(hook', Finding)[l] + Cardinality(CPU)
      BY <1>3 DEF FewLost
  <2>1. CASE l = k
    <3>1. At(hook, Before)[k] <= Cardinality(CPU) /\ Cardinality(CPU) \in Nat
      <4>1. {d \in CPU : hook[d].key = k /\ hook[d].pc \in Before} \in SUBSET CPU
          OBVIOUS
      <4>2. QED BY <1>1, <4>1, FiniteMachine, FS_Subset, FS_CardinalityType DEF At
    <3>2. seen[k] <= At(hook, Before)[k]
        BY <1>0, <2>1 DEF Inv, FewLost
    <3>3. flow_table'[s].packets = 1
        BY <1>4, <1>5, <1>6
    <3>4. seen[k] < 1 + At(hook', Finding)[k] + Cardinality(CPU)
        BY <1>1, <1>10, <3>1, <3>2
    <3>5. QED BY <1>7, <2>1, <3>3, <3>4
  <2>2. CASE l # k
    <3>1. \A t \in SlotsOf(l) : flow_table'[t] = flow_table[t]
        BY <1>5, <1>6 DEF SlotsOf, Used
    <3>2. QED BY <1>1, <1>7, <2>2, <3>1 DEF Inv, FewLost
  <2>3. QED BY <2>1, <2>2
<1>13. QED BY <1>8, <1>9, <1>11, <1>12 DEF Inv

(* The map refuses the flow: its counters are not accounted for any more.  *)
LEMMA InsertFailsKeepsInv ==
    ASSUME Inv, NEW c \in CPU, InsertFails(c)
    PROVE  Inv'
<1>1. PICK h :
           /\ Becomes(c, h) /\ h.pc = "notify" /\ h.now <= now
           /\ h.key = hook[c].key /\ hook[c].key \in Key
           /\ At(hook', Before)[h.key] = At(hook, Before)[h.key] - 1
           /\ \A l \in Key : l # h.key => At(hook', Before)[l] = At(hook, Before)[l]
           /\ \A l \in Key : At(hook', Finding)[l] = At(hook, Finding)[l]
    BY Inserts
<1>2. UNCHANGED <<flow_table, now, seen>> /\ evicted' = evicted \cup {h.key}
    BY <1>1 DEF InsertFails
<1>3. Used' = Used /\ \A l : SlotsOf(l)' = SlotsOf(l)
    BY <1>2 DEF Used, SlotsOf
<1>4. \A d \in CPU : hook'[d] = IF d = c THEN h ELSE hook[d]
    BY <1>1 DEF Becomes, Inv, Types
<1>5. Types' /\ OneElement' /\ TimesPassed'
    BY <1>1, <1>2, <1>3 DEF Inv, Types, Becomes, OneElement, TimesPassed
<1>6. Held'
  <2> SUFFICES ASSUME NEW d \in CPU
               PROVE  /\ hook'[d].now <= now'
                      /\ hook'[d].pc # "idle" => hook'[d].key \in Key
                      /\ hook'[d].pc \in {"rdmaLoad", "rdmaStore"} => hook'[d].key \in RoCE
                      /\ hook'[d].pc \in Holding => hook'[d].slot \in Slot
                      /\ hook'[d].pc \in Holding /\ hook'[d].key \notin evicted' =>
                             /\ hook'[d].slot \in Used'
                             /\ flow_table'[hook'[d].slot].key = hook'[d].key
      BY DEF Held, InUse, Element
  <2>1. CASE d = c
      BY <1>1, <1>2, <1>4, <2>1 DEF Holding
  <2>2. CASE d # c
      BY <1>2, <1>3, <1>4, <2>2 DEF Inv, Held, InUse, Element
  <2>3. QED BY <2>1, <2>2
<1>7. NoneTwice'
  <2>1. \A l \in Key : /\ At(hook, Before)[l] \in Nat /\ seen[l] \in Nat
                       /\ At(hook', Before)[l] <= At(hook, Before)[l]
      BY <1>1, CountsAreNumbers DEF Inv, Types
  <2>2. \A l \in Key : At(hook', Before)[l] <= seen[l]
    <3>1. ASSUME NEW l \in Key PROVE At(hook', Before)[l] <= seen[l]
      <4>1. At(hook, Before)[l] <= seen[l] /\ At(hook', Before)[l] \in Nat
          BY CountsAreNumbers DEF Inv, NoneTwice
      <4>2. QED BY <2>1, <4>1
    <3>2. QED BY <3>1
  <2>3. QED BY <1>2, <2>2 DEF NoneTwice
<1>8. FewLost'
    BY <1>1, <1>2, <1>3 DEF Inv, FewLost
<1>9. QED BY <1>5, <1>6, <1>7, <1>8 DEF Inv

-----------------------------------------------------------------------------
(* A packet, the map's eviction, and the steps that touch neither.         *)

LEMMA ReceiveKeepsInv ==
    ASSUME Inv, NEW c \in CPU, NEW k \in Key, Receive(c, k)
    PROVE  Inv'
<1> DEFINE h == [Idle EXCEPT !.pc = "lookup", !.key = k, !.now = now + 1]
<1>1. /\ Becomes(c, h)
      /\ h.pc = "lookup" /\ h.key = k /\ h.now = now + 1 /\ h.slot = None
  <2>1. Idle \in Hooks /\ Idle.slot = None
      BY DEF Idle, Hooks, Pcs
  <2>2. /\ h \in Hooks
        /\ h.pc = "lookup" /\ h.key = k /\ h.now = now + 1 /\ h.slot = None
    <3>1. PICK n \in Nat : n = now + 1
        BY DEF Inv, Types
    <3>2. PICK i \in Hooks : i = Idle
        BY <2>1
    <3>3. [i EXCEPT !.pc = "lookup", !.key = k, !.now = n] \in Hooks
        BY DEF Hooks, Pcs
    <3>4. QED BY <2>1, <3>1, <3>2, <3>3 DEF Hooks
  <2>3. hook' = [hook EXCEPT ![c] = h]
      BY DEF Receive
  <2>4. QED BY <2>1, <2>2, <2>3 DEF Becomes
<1>2. /\ UNCHANGED <<flow_table, evicted>> /\ hook[c].pc = "idle"
      /\ now' = now + 1 /\ seen' = [seen EXCEPT ![k] = @ + 1]
    BY DEF Receive
<1> HIDE DEF h
<1>3. /\ Types' /\ now \in Nat
      /\ seen'[k] = seen[k] + 1 /\ \A l \in Key : l # k => seen'[l] = seen[l]
    BY <1>1, <1>2 DEF Inv, Types, Becomes
<1>4. /\ Used' = Used /\ \A l : SlotsOf(l)' = SlotsOf(l)
      /\ \A s \in Used : s \in Slot /\ flow_table[s] \in Elements /\ flow_table[s].key \in Key
                         /\ flow_table[s].last \in Nat /\ flow_table[s].packets \in Nat
    BY <1>2, UsedElement DEF Used, SlotsOf, Inv, Elements
<1>5. \A d \in CPU : hook'[d] = IF d = c THEN h ELSE hook[d]
    BY <1>1 DEF Becomes, Inv, Types
<1>6. Held' /\ OneElement' /\ TimesPassed'
  <2>1. OneElement' /\ TimesPassed'
      BY <1>2, <1>3, <1>4 DEF Inv, OneElement, TimesPassed
  <2>2. \A d \in CPU : hook[d].now \in Nat
      BY DEF Inv, Types, Hooks
  <2>3. Held'
      BY <1>1, <1>2, <1>3, <1>4, <1>5, <2>2 DEF Inv, Held, Holding, InUse, Element
  <2>4. QED BY <2>1, <2>3
<1>7. /\ At(hook', Before)[k] = At(hook, Before)[k] + 1
      /\ \A l \in Key : l # k => At(hook', Before)[l] = At(hook, Before)[l]
    BY <1>1, <1>2, Counted DEF Before, Inv
<1>8. /\ At(hook', Finding)[k] = At(hook, Finding)[k] + 1
      /\ \A l \in Key : l # k => At(hook', Finding)[l] = At(hook, Finding)[l]
    BY <1>1, <1>2, Counted DEF Finding, Inv
<1>9. \A t \in Slot : On(hook', Adding)[t] = On(hook, Adding)[t]
    BY <1>1, <1>2, Counted DEF Adding, Inv
<1>10. \A t \in Slot : On(hook', Working)[t] = On(hook, Working)[t]
    BY <1>1, <1>2, Counted DEF Working, Inv
<1>11. \A l \in Key : /\ At(hook, Before)[l] \in Nat /\ At(hook, Finding)[l] \in Nat
                      /\ seen[l] \in Nat
    BY CountsAreNumbers DEF Inv, Types
<1>12. NoneTwice'
  <2>1. \A l \in Key : At(hook', Before)[l] <= seen'[l]
      BY <1>3, <1>7, <1>11 DEF Inv, NoneTwice
  <2>2. ASSUME evicted = {}, NEW t \in Used
        PROVE  LET w == flow_table[t] IN
               /\ w.packets + At(hook', Before)[w.key] <= seen'[w.key]
               /\ w.packets = w.bytes + On(hook', Adding)[t]
               /\ w.rdma + On(hook', Working)[t] <= w.packets
               /\ w.key \notin RoCE => w.rdma = 0
    <3>1. flow_table[t].packets + At(hook, Before)[flow_table[t].key] <= seen[flow_table[t].key]
        BY <2>2 DEF Inv, NoneTwice
    <3>2. flow_table[t].packets + At(hook', Before)[flow_table[t].key] <= seen'[flow_table[t].key]
        BY <1>3, <1>4, <1>7, <1>11, <3>1
    <3>3. QED BY <1>4, <1>9, <1>10, <2>2, <3>2 DEF Inv, NoneTwice
  <2>3. ASSUME evicted = {}, NEW d \in CPU, hook'[d].pc = "rdmaStore"
        PROVE  hook'[d].rdma + On(hook', Working)[hook'[d].slot] <= flow_table[hook'[d].slot].packets
    <3>1. hook'[d] = hook[d] /\ hook[d].pc = "rdmaStore"
        BY <1>1, <1>5, <2>3
    <3>2. hook[d].slot \in Slot
        BY <3>1, Holder DEF Holding
    <3>3. QED BY <1>10, <2>3, <3>1, <3>2 DEF Inv, NoneTwice, Element
  <2>4. QED BY <1>2, <1>4, <2>1, <2>2, <2>3 DEF NoneTwice, Element
<1>13. FewLost'
  <2> SUFFICES ASSUME NEW l \in Key \ evicted
               PROVE  /\ SlotsOf(l) = {} => seen'[l] <= At(hook', Before)[l]
                      /\ \A t \in SlotsOf(l) :
                             seen'[l] < flow_table[t].packets + At(hook', Finding)[l] + Cardinality(CPU)
      BY <1>2, <1>4 DEF FewLost
  <2>1. /\ SlotsOf(l) = {} => seen[l] <= At(hook, Before)[l]
        /\ \A t \in SlotsOf(l) :
               seen[l] < flow_table[t].packets + At(hook, Finding)[l] + Cardinality(CPU)
      BY DEF Inv, FewLost
  <2>2. Cardinality(CPU) \in Nat /\ \A t \in SlotsOf(l) : flow_table[t].packets \in Nat
      BY <1>4, Numbered DEF SlotsOf
  <2>3. QED BY <1>3, <1>7, <1>8, <1>11, <2>1, <2>2
<1>14. QED BY <1>3, <1>6, <1>12, <1>13 DEF Inv

(* From here on the counters of the flow itself are not accounted for.     *)
LEMMA EvictKeepsInv ==
    ASSUME Inv, NEW s \in Slot, Evict(s)
    PROVE  Inv'
<1>1. /\ s \in Used /\ flow_table' = [flow_table EXCEPT ![s] = None]
      /\ evicted' = evicted \cup {flow_table[s].key} /\ UNCHANGED <<hook, now, seen>>
    BY DEF Evict
<1>2. flow_table[s].key \in Key
    BY <1>1, UsedElement DEF Inv
<1>3. \A t \in Slot : flow_table'[t] = IF t = s THEN None ELSE flow_table[t]
    BY <1>1 DEF Inv, Types
<1>4. Used' = Used \ {s} /\ \A t \in Used' : flow_table'[t] = flow_table[t]
    BY <1>1, <1>3 DEF Used
<1>5. Types'
    BY <1>1, <1>2 DEF Inv, Types
<1>6. OneElement' /\ TimesPassed'
    BY <1>1, <1>4 DEF Inv, OneElement, TimesPassed
<1>7. Held'
    BY <1>1, <1>3, <1>4 DEF Inv, Held, InUse, Element
<1>8. NoneTwice'
    BY <1>1 DEF Inv, NoneTwice
<1>9. FewLost'
  <2>1. \A l : l # flow_table[s].key => SlotsOf(l)' = SlotsOf(l)
      BY <1>4 DEF SlotsOf
  <2>2. \A l : \A t \in SlotsOf(l) : l # flow_table[s].key => flow_table'[t] = flow_table[t]
      BY <1>4 DEF SlotsOf
  <2>3. QED BY <1>1, <2>1, <2>2 DEF Inv, FewLost
<1>10. QED BY <1>5, <1>6, <1>7, <1>8, <1>9 DEF Inv

LEMMA StutterKeepsInv ==
    ASSUME Inv, UNCHANGED <<flow_table, hook, now, seen, evicted>>
    PROVE  Inv'
<1>1. Used' = Used /\ \A l : SlotsOf(l)' = SlotsOf(l)
    BY DEF Used, SlotsOf
<1>2. Types' /\ OneElement' /\ TimesPassed'
    BY <1>1 DEF Inv, Types, OneElement, TimesPassed
<1>3. Held'
    BY <1>1 DEF Inv, Held, InUse, Element
<1>4. NoneTwice' /\ FewLost'
    BY <1>1 DEF Inv, NoneTwice, FewLost, Element
<1>5. QED BY <1>2, <1>3, <1>4 DEF Inv

LEMMA NextKeepsInv == Inv /\ [Next]_vars => Inv'
<1> SUFFICES ASSUME Inv, [Next]_vars PROVE Inv'
    OBVIOUS
<1>1. ASSUME NEW c \in CPU, Step(c) PROVE Inv'
  <2>1. CASE Lookup(c) \/ Notify(c) \/ Finish(c)
      BY <2>1, QuietStepsKeepInv
  <2>2. CASE AddPacket(c)
      BY <2>2, AddPacketKeepsInv
  <2>3. CASE AddBytes(c)
      BY <2>3, AddBytesKeepsInv
  <2>4. CASE SetLastSeen(c)
      BY <2>4, SetLastSeenKeepsInv
  <2>5. CASE LoadRDMA(c)
      BY <2>5, LoadRDMAKeepsInv
  <2>6. CASE StoreRDMA(c)
      BY <2>6, StoreRDMAKeepsInv
  <2>7. CASE Insert(c)
      BY <2>7, LosingInsertKeepsInv, MakingInsertKeepsInv
  <2>8. CASE InsertFails(c)
      BY <2>8, InsertFailsKeepsInv
  <2>9. QED BY <1>1, <2>1, <2>2, <2>3, <2>4, <2>5, <2>6, <2>7, <2>8 DEF Step
<1>2. ASSUME NEW c \in CPU, NEW k \in Key, Receive(c, k) PROVE Inv'
    BY <1>2, ReceiveKeepsInv
<1>3. ASSUME NEW s \in Slot, Evict(s) PROVE Inv'
    BY <1>3, EvictKeepsInv
<1>4. ASSUME NEW k \in Key, ReadEvent(k) PROVE Inv'
    BY <1>4, StutterKeepsInv DEF ReadEvent
<1>5. CASE UNCHANGED vars
    BY <1>5, StutterKeepsInv DEF vars
<1>6. QED BY <1>1, <1>2, <1>3, <1>4, <1>5 DEF Next

(* The hooks, whatever they interleave and whatever the map drops, keep    *)
(* the inductive invariant.                                                *)
THEOREM InvHolds == Spec => []Inv
BY InitInv, NextKeepsInv, PTL DEF Spec

-----------------------------------------------------------------------------
(* What it says about the counters.                                        *)

(* A flow that stays in the map misses fewer packets than there are CPUs,  *)
(* for any number of packets.                                              *)
THEOREM FewPacketsLost == Spec => []ShortByCPUs
<1>1. Inv => ShortByCPUs
  <2> SUFFICES ASSUME Inv, NEW s \in Used, flow_table[s].key \notin evicted
               PROVE  seen[flow_table[s].key] <
                          flow_table[s].packets + Uncounted(flow_table[s].key) + Cardinality(CPU)
      BY DEF ShortByCPUs
  <2>1. PICK k \in Key : k = flow_table[s].key
      BY UsedElement DEF Inv
  <2>2. seen[k] < flow_table[s].packets + At(hook, Finding)[k] + Cardinality(CPU)
      BY <2>1 DEF Inv, FewLost, SlotsOf
  <2>3. At(hook, Finding)[k] <= Uncounted(k)
    <3> DEFINE S == {c \in CPU : hook[c].key = k /\ hook[c].pc \in Finding}
               T == {c \in CPU : hook[c].key = k /\ hook[c].pc \in {"lookup", "packets", "insert"}}
    <3>1. S \subseteq T /\ T \in SUBSET CPU
        BY DEF Finding
    <3>2. Cardinality(S) <= Cardinality(T)
        BY <3>1, Numbered, FS_Subset
    <3>3. QED BY <3>2 DEF At, Uncounted
  <2>4. /\ flow_table[s].packets \in Nat /\ seen[k] \in Nat /\ Cardinality(CPU) \in Nat
        /\ At(hook, Finding)[k] \in Nat
    <3>1. flow_table[s].packets \in Nat /\ seen[k] \in Nat
        BY UsedElement DEF Inv, Elements, Types
    <3>2. QED BY <3>1, Numbered, CountsAreNumbers
  <2>5. Uncounted(k) \in Nat
      BY Numbered DEF Uncounted
  <2>6. QED BY <2>1, <2>2, <2>3, <2>4, <2>5
<1>2. QED BY <1>1, InvHolds, PTL

(* While the map drops nothing, the counters of an element never exceed    *)
(* the flow's packets and agree with each other; and a flow never has two. *)
THEOREM CountersAgree == Spec => []NothingCountedTwice
<1>1. Inv => NothingCountedTwice
  <2> SUFFICES ASSUME Inv PROVE NothingCountedTwice
      OBVIOUS
  <2>1. \A s, t \in Used : flow_table[s].key = flow_table[t].key => s = t
      BY DEF Inv, OneElement
  <2>2. ASSUME evicted = {}, NEW s \in Used
        PROVE  LET v == flow_table[s] IN
               /\ v.packets <= seen[v.key]
               /\ v.packets = v.bytes + Cardinality({c \in CPU : hook[c].slot = s /\ hook[c].pc = "bytes"})
               /\ v.rdma <= (IF v.key \in RoCE THEN v.packets ELSE 0)
    <3>1. /\ s \in Slot /\ flow_table[s].packets \in Nat /\ flow_table[s].rdma \in Nat
          /\ flow_table[s].key \in Key
        BY UsedElement DEF Inv, Elements
    <3>2. /\ flow_table[s].packets + At(hook, Before)[flow_table[s].key] <= seen[flow_table[s].key]
          /\ flow_table[s].packets = flow_table[s].bytes + On(hook, Adding)[s]
          /\ flow_table[s].rdma + On(hook, Working)[s] <= flow_table[s].packets
          /\ flow_table[s].key \notin RoCE => flow_table[s].rdma = 0
        BY <2>2 DEF Inv, NoneTwice
    <3>3. On(hook, Adding)[s] = Cardinality({c \in CPU : hook[c].slot = s /\ hook[c].pc = "bytes"})
      <4>1. {c \in CPU : hook[c].slot = s /\ hook[c].pc \in Adding}
                = {c \in CPU : hook[c].slot = s /\ hook[c].pc = "bytes"}
          BY DEF Adding
      <4>2. QED BY <3>1, <4>1 DEF On
    <3>4. /\ At(hook, Before)[flow_table[s].key] \in Nat /\ On(hook, Working)[s] \in Nat
          /\ seen[flow_table[s].key] \in Nat
        BY <3>1, CountsAreNumbers DEF Inv, Types
    <3>5. QED BY <3>1, <3>2, <3>3, <3>4
  <2>3. QED BY <2>1, <2>2 DEF NothingCountedTwice
<1>2. QED BY <1>1, InvHolds, PTL

-----------------------------------------------------------------------------
(* What the agent sees of the map.                                         *)

\* The entry that the element v shows.
Shown(v) == [packets |-> v.packets, last |-> v.last]

\* An entry for each element, and no other.
ViewOfElements ==
    /\ KernelView = [k \in Key |-> KernelView[k]]
    /\ \A k \in Key : SlotsOf(k) = {} => KernelView[k] = None
    /\ \A s \in Used : /\ flow_table[s].key \in Key
                       /\ KernelView[flow_table[s].key] = Shown(flow_table[s])
                       /\ Shown(flow_table[s]) # None

LEMMA ViewHolds == Inv => ViewOfElements
<1> SUFFICES ASSUME Inv PROVE ViewOfElements
    OBVIOUS
<1>1. KernelView = [k \in Key |-> KernelView[k]]
    BY DEF KernelView
<1>2. \A k \in Key : SlotsOf(k) = {} => KernelView[k] = None
    BY DEF KernelView
<1>3. ASSUME NEW s \in Used
      PROVE  /\ flow_table[s].key \in Key
             /\ KernelView[flow_table[s].key] = Shown(flow_table[s])
             /\ Shown(flow_table[s]) # None
  <2>1. /\ flow_table[s].key \in Key
        /\ flow_table[s].packets \in Nat /\ flow_table[s].last \in Nat
      BY UsedElement DEF Inv, Elements
  <2>2. Shown(flow_table[s]) \in [packets : Nat, last : Nat]
      BY <2>1 DEF Shown
  <2>3. SlotsOf(flow_table[s].key) = {s}
      BY DEF SlotsOf, Inv, OneElement
  <2>4. (CHOOSE t \in SlotsOf(flow_table[s].key) : TRUE) = s
      BY <2>3
  <2>5. KernelView[flow_table[s].key] = Shown(flow_table[s])
      BY <2>1, <2>3, <2>4 DEF KernelView, Shown
  <2>6. QED BY <2>1, <2>2, <2>5, NoneIsNoElement
<1>4. QED BY <1>1, <1>2, <1>3 DEF ViewOfElements

\* A key has an entry exactly if it has an element.
LEMMA Entries ==
    ASSUME ViewOfElements
    PROVE  Kernel!Tracked = {flow_table[s].key : s \in Used}
BY DEF ViewOfElements, Kernel!Tracked, SlotsOf

(* A step that leaves the elements with their flows changes the entries    *)
(* of those elements which it changes.                                     *)
LEMMA ViewAfterWrite ==
    ASSUME Inv, Inv', SameKeys, NEW s \in Used,
           \A t \in Used : t # s => Shown(flow_table'[t]) = Shown(flow_table[t])
    PROVE  KernelView' = [KernelView EXCEPT ![flow_table[s].key] = Shown(flow_table'[s])]
<1>1. ViewOfElements /\ ViewOfElements'
    BY ViewHolds, PTL
<1>2. PICK k \in Key : k = flow_table[s].key
    BY <1>1 DEF ViewOfElements
<1>3. ASSUME NEW l \in Key
      PROVE  KernelView'[l] = IF l = k THEN Shown(flow_table'[s]) ELSE KernelView[l]
  <2>1. CASE SlotsOf(l) = {}
    <3>1. SlotsOf(l)' = {} /\ l # k
        BY <1>2, <2>1, SameSlots DEF SlotsOf
    <3>2. QED BY <1>1, <2>1, <3>1 DEF ViewOfElements
  <2>2. CASE SlotsOf(l) # {}
    <3>1. PICK t \in Used : flow_table[t].key = l
        BY <2>2 DEF SlotsOf
    <3>2. t \in Used' /\ flow_table'[t].key = l
        BY <3>1 DEF SameKeys
    <3>3. KernelView'[l] = Shown(flow_table'[t]) /\ KernelView[l] = Shown(flow_table[t])
        BY <1>1, <3>1, <3>2 DEF ViewOfElements
    <3>4. l = k <=> t = s
        BY <1>2, <3>1 DEF Inv, OneElement
    <3>5. QED BY <3>1, <3>3, <3>4
  <2>3. QED BY <2>1, <2>2
<1>4. QED BY <1>1, <1>2, <1>3 DEF ViewOfElements

LEMMA ViewUnwritten ==
    ASSUME Inv, Inv', SameKeys, \A t \in Used : Shown(flow_table'[t]) = Shown(flow_table[t])
    PROVE  KernelView' = KernelView
<1>1. ViewOfElements /\ ViewOfElements'
    BY ViewHolds, PTL
<1>2. ASSUME NEW l \in Key
      PROVE  KernelView'[l] = KernelView[l]
  <2>1. CASE SlotsOf(l) = {}
    <3>1. SlotsOf(l)' = {}
        BY <2>1, SameSlots
    <3>2. QED BY <1>1, <2>1, <3>1 DEF ViewOfElements
  <2>2. CASE SlotsOf(l) # {}
    <3>1. PICK t \in Used : flow_table[t].key = l
        BY <2>2 DEF SlotsOf
    <3>2. t \in Used' /\ flow_table'[t].key = l
        BY <3>1 DEF SameKeys
    <3>3. KernelView'[l] = Shown(flow_table'[t]) /\ KernelView[l] = Shown(flow_table[t])
        BY <1>1, <3>1, <3>2 DEF ViewOfElements
    <3>4. QED BY <3>1, <3>3
  <2>3. QED BY <2>1, <2>2
<1>3. QED BY <1>1, <1>2 DEF ViewOfElements

(* The step of a hook, seen by the agent.                                  *)
LEMMA CountIsCount ==
    ASSUME Inv, Inv', NEW c \in CPU, AddPacket(c)
    PROVE  Kernel!Next \/ UNCHANGED <<KernelView, now>>
<1> DEFINE v == [Element(c) EXCEPT !.packets = @ + 1]
<1>1. WriteElement(c, v) /\ UNCHANGED <<now, seen, evicted>>
      /\ (InUse(c) => hook[c].slot \in Used /\ Element(c) \in Elements)
    BY Holder DEF AddPacket, Local, Holding
<1>2. InUse(c) => /\ v \in Elements /\ v.key = Element(c).key /\ v.last = Element(c).last
                  /\ v.packets = Element(c).packets + 1
    BY <1>1 DEF Elements
<1> HIDE DEF v
<1>3. /\ SameKeys
      /\ \A t \in Used : flow_table'[t] = IF t = hook[c].slot THEN v ELSE flow_table[t]
    BY <1>1, <1>2, WriteKeepsKeys DEF Inv
<1>4. CASE ~ InUse(c)
  <2>1. \A t \in Used : Shown(flow_table'[t]) = Shown(flow_table[t])
      BY <1>3, <1>4 DEF InUse
  <2>2. QED BY <1>1, <1>3, <2>1, ViewUnwritten
<1>5. CASE InUse(c)
  <2>1. PICK s \in Used : s = hook[c].slot
      BY <1>1, <1>5
  <2>2. ViewOfElements
      BY ViewHolds
  <2>3. PICK k \in Key : k = flow_table[s].key
      BY <2>2 DEF ViewOfElements
  <2>4. KernelView' = [KernelView EXCEPT ![k] = Shown(v)]
      BY <1>3, <2>1, <2>3, ViewAfterWrite
  <2>5. /\ KernelView[k] = [packets |-> flow_table[s].packets, last |-> flow_table[s].last]
        /\ Shown(v) = [packets |-> flow_table[s].packets + 1, last |-> flow_table[s].last]
        /\ k \in Kernel!Tracked
      BY <1>2, <1>5, <2>1, <2>2, <2>3, Entries DEF ViewOfElements, Shown, Element
  <2>6. [KernelView[k] EXCEPT !.packets = @ + 1] = Shown(v)
      BY <2>5
  <2>7. KernelView' = [KernelView EXCEPT ![k].packets = @ + 1]
      BY <2>4, <2>6
  <2>8. Kernel!CountPacket(k)
      BY <1>1, <2>5, <2>7 DEF Kernel!CountPacket
  <2>9. QED BY <2>8 DEF Kernel!Next
<1>6. QED BY <1>4, <1>5

LEMMA TouchIsTouch ==
    ASSUME Inv, Inv', NEW c \in CPU, SetLastSeen(c)
    PROVE  Kernel!Next \/ UNCHANGED <<KernelView, now>>
<1> DEFINE v == [Element(c) EXCEPT !.last = hook[c].now]
<1>1. WriteElement(c, v) /\ UNCHANGED <<now, seen, evicted>>
      /\ (InUse(c) => hook[c].slot \in Used /\ Element(c) \in Elements)
      /\ hook[c].now \in 0 .. now
    BY Holder DEF SetLastSeen, Local, Holding, Hooks, Inv, Types
<1>2. InUse(c) => /\ v \in Elements /\ v.key = Element(c).key /\ v.last = hook[c].now
                  /\ v.packets = Element(c).packets
    BY <1>1 DEF Elements
<1> HIDE DEF v
<1>3. /\ SameKeys
      /\ \A t \in Used : flow_table'[t] = IF t = hook[c].slot THEN v ELSE flow_table[t]
    BY <1>1, <1>2, WriteKeepsKeys DEF Inv
<1>4. CASE ~ InUse(c)
  <2>1. \A t \in Used : Shown(flow_table'[t]) = Shown(flow_table[t])
      BY <1>3, <1>4 DEF InUse
  <2>2. QED BY <1>1, <1>3, <2>1, ViewUnwritten
<1>5. CASE InUse(c)
  <2>1. PICK s \in Used : s = hook[c].slot
      BY <1>1, <1>5
  <2>2. ViewOfElements
      BY ViewHolds
  <2>3. PICK k \in Key : k = flow_table[s].key
      BY <2>2 DEF ViewOfElements
  <2>4. KernelView' = [KernelView EXCEPT ![k] = Shown(v)]
      BY <1>3, <2>1, <2>3, ViewAfterWrite
  <2>5. /\ KernelView[k] = [packets |-> flow_table[s].packets, last |-> flow_table[s].last]
        /\ Shown(v) = [packets |-> flow_table[s].packets, last |-> hook[c].now]
        /\ k \in Kernel!Tracked
      BY <1>2, <1>5, <2>1, <2>2, <2>3, Entries DEF ViewOfElements, Shown, Element
  <2>6. [KernelView[k] EXCEPT !.last = hook[c].now] = Shown(v)
      BY <2>5
  <2>7. KernelView' = [KernelView EXCEPT ![k].last = hook[c].now]
      BY <2>4, <2>6
  <2>8. Kernel!Touch(k)
      BY <1>1, <2>5, <2>7 DEF Kernel!Touch
  <2>9. QED BY <2>8 DEF Kernel!Next
<1>6. QED BY <1>4, <1>5

LEMMA OtherWritesUnseen ==
    ASSUME Inv, Inv', NEW c \in CPU, AddBytes(c) \/ StoreRDMA(c)
    PROVE  UNCHANGED <<KernelView, now>>
<1>1. /\ InUse(c) => hook[c].slot \in Used /\ Element(c) \in Elements
      /\ hook[c].rdma \in Nat
    BY Holder DEF AddBytes, StoreRDMA, Holding, Hooks
<1>2. PICK v : /\ WriteElement(c, v) /\ UNCHANGED <<now, seen, evicted>>
               /\ InUse(c) => /\ v \in Elements /\ v.key = Element(c).key
                              /\ v.last = Element(c).last /\ v.packets = Element(c).packets
  <2>1. CASE AddBytes(c)
    <3> DEFINE v == [Element(c) EXCEPT !.bytes = @ + 1]
    <3>1. WriteElement(c, v) /\ UNCHANGED <<now, seen, evicted>>
        BY <2>1 DEF AddBytes, Local
    <3>2. InUse(c) => /\ v \in Elements /\ v.key = Element(c).key
                      /\ v.last = Element(c).last /\ v.packets = Element(c).packets
        BY <1>1 DEF Elements
    <3>3. QED BY <3>1, <3>2
  <2>2. CASE StoreRDMA(c)
    <3> DEFINE v == [Element(c) EXCEPT !.rdma = hook[c].rdma + 1]
    <3>1. WriteElement(c, v) /\ UNCHANGED <<now, seen, evicted>>
        BY <2>2 DEF StoreRDMA, Local
    <3>2. InUse(c) => /\ v \in Elements /\ v.key = Element(c).key
                      /\ v.last = Element(c).last /\ v.packets = Element(c).packets
        BY <1>1 DEF Elements
    <3>3. QED BY <3>1, <3>2
  <2>3. QED BY <2>1, <2>2
<1>3. /\ SameKeys
      /\ \A t \in Used : flow_table'[t] = IF t = hook[c].slot THEN v ELSE flow_table[t]
    BY <1>2, WriteKeepsKeys DEF Inv
<1>4. \A t \in Used : Shown(flow_table'[t]) = Shown(flow_table[t])
    BY <1>2, <1>3 DEF InUse, Shown, Element
<1>5. QED BY <1>2, <1>3, <1>4, ViewUnwritten

LEMMA QuietStepsUnseen ==
    ASSUME Inv, Inv', UNCHANGED <<flow_table, now>>
    PROVE  UNCHANGED <<KernelView, now>>
BY DEF KernelView, SlotsOf, Used

LEMMA InsertIsInsert ==
    ASSUME Inv, Inv', NEW c \in CPU, Insert(c)
    PROVE  Kernel!Next \/ UNCHANGED <<KernelView, now>>
<1>1. PICK k \in Key : k = hook[c].key
    BY DEF Inv, Held, Insert
<1>2. UNCHANGED now
    BY DEF Insert, Local
<1>3. CASE SlotsOf(k) # {}
    BY <1>1, <1>2, <1>3, QuietStepsUnseen DEF Insert
<1>4. CASE SlotsOf(k) = {}
  <2>1. PICK s \in Slot \ Used, v \in NewValues(c) : flow_table' = [flow_table EXCEPT ![s] = v]
      BY <1>1, <1>4 DEF Insert
  <2>2. hook[c].now \in 0 .. now
      BY DEF Inv, Types, Hooks, Held
  <2>3. v.key = k /\ Shown(v) = [packets |-> 1, last |-> hook[c].now]
        /\ v \in Elements /\ v # None
    <3>1. /\ v.key = k /\ Shown(v) = [packets |-> 1, last |-> hook[c].now]
          /\ v \in Elements
        BY <1>1, <2>2 DEF NewValues, RDMAMessages, Shown, Elements
    <3>2. QED BY <3>1, NoneIsNoElement DEF Elements
  <2>4. \A t \in Slot : flow_table'[t] = IF t = s THEN v ELSE flow_table[t]
      BY <2>1 DEF Inv, Types
  <2>5. Used' = Used \cup {s} /\ Used \subseteq Slot /\ s \notin Used /\ s \in Slot
      BY <2>3, <2>4 DEF Used
  <2>6. ViewOfElements /\ ViewOfElements'
      BY ViewHolds, PTL
  <2>7. ASSUME NEW l \in Key
        PROVE  KernelView'[l] = IF l = k THEN Shown(v) ELSE KernelView[l]
    <3>1. CASE l = k
        BY <2>3, <2>4, <2>5, <2>6, <3>1 DEF ViewOfElements
    <3>2. CASE l # k /\ SlotsOf(l) = {}
      <4>1. SlotsOf(l)' = {}
          BY <2>3, <2>4, <2>5, <3>2 DEF SlotsOf
      <4>2. QED BY <2>6, <3>2, <4>1 DEF ViewOfElements
    <3>3. CASE l # k /\ SlotsOf(l) # {}
      <4>1. PICK t \in Used : flow_table[t].key = l
          BY <3>3 DEF SlotsOf
      <4>2. t \in Used' /\ flow_table'[t] = flow_table[t]
          BY <2>4, <2>5
      <4>3. QED BY <2>6, <3>3, <4>1, <4>2 DEF ViewOfElements
    <3>4. QED BY <3>1, <3>2, <3>3
  <2>8. KernelView' = [KernelView EXCEPT ![k] = [packets |-> 1, last |-> hook[c].now]]
      BY <2>3, <2>6, <2>7 DEF ViewOfElements
  <2>9. k \notin Kernel!Tracked
      BY <1>4, <2>6 DEF ViewOfElements, Kernel!Tracked
  <2>10. Kernel!Insert(k)
      BY <1>2, <2>2, <2>8, <2>9 DEF Kernel!Insert
  <2>11. QED BY <2>10 DEF Kernel!Next
<1>5. QED BY <1>3, <1>4

LEMMA EvictIsEvict ==
    ASSUME Inv, Inv', NEW s \in Slot, Evict(s)
    PROVE  Kernel!Next
<1>1. /\ s \in Used /\ flow_table' = [flow_table EXCEPT ![s] = None] /\ UNCHANGED now
    BY DEF Evict
<1>2. ViewOfElements /\ ViewOfElements'
    BY ViewHolds, PTL
<1>3. PICK k \in Key : k = flow_table[s].key
    BY <1>1, <1>2 DEF ViewOfElements
<1>4. \A t \in Slot : flow_table'[t] = IF t = s THEN None ELSE flow_table[t]
    BY <1>1 DEF Inv, Types
<1>5. Used' = Used \ {s} /\ Used \subseteq Slot
    BY <1>1, <1>4 DEF Used
<1>6. ASSUME NEW l \in Key
      PROVE  KernelView'[l] = IF l = k THEN None ELSE KernelView[l]
  <2>1. CASE l = k
    <3>1. SlotsOf(l)' = {}
        BY <1>1, <1>3, <1>4, <1>5, <2>1 DEF SlotsOf, Inv, OneElement
    <3>2. QED BY <1>2, <2>1, <3>1 DEF ViewOfElements
  <2>2. CASE l # k /\ SlotsOf(l) = {}
    <3>1. SlotsOf(l)' = {}
        BY <1>4, <1>5, <2>2 DEF SlotsOf
    <3>2. QED BY <1>2, <2>2, <3>1 DEF ViewOfElements
  <2>3. CASE l # k /\ SlotsOf(l) # {}
    <3>1. PICK t \in Used : flow_table[t].key = l
        BY <2>3 DEF SlotsOf
    <3>2. t \in Used' /\ flow_table'[t] = flow_table[t]
        BY <1>3, <1>4, <1>5, <2>3, <3>1
    <3>3. QED BY <1>2, <2>3, <3>1, <3>2 DEF ViewOfElements
  <2>4. QED BY <2>1, <2>2, <2>3
<1>7. KernelView' = [KernelView EXCEPT ![k] = None]
    BY <1>2, <1>6 DEF ViewOfElements
<1>8. k \in Kernel!Tracked
    BY <1>1, <1>2, <1>3, Entries
<1>9. QED BY <1>1, <1>7, <1>8 DEF Kernel!Next, Kernel!Evict

LEMMA StepIsStep ==
    ASSUME Inv, Inv', [Next]_vars
    PROVE  Kernel!Next \/ UNCHANGED <<KernelView, now>>
<1>1. ASSUME NEW c \in CPU, Step(c)
      PROVE  Kernel!Next \/ UNCHANGED <<KernelView, now>>
  <2>1. CASE AddPacket(c)
      BY <2>1, CountIsCount
  <2>2. CASE SetLastSeen(c)
      BY <2>2, TouchIsTouch
  <2>3. CASE Insert(c)
      BY <2>3, InsertIsInsert
  <2>4. CASE AddBytes(c) \/ StoreRDMA(c)
      BY <2>4, OtherWritesUnseen
  <2>5. CASE Lookup(c) \/ LoadRDMA(c) \/ InsertFails(c) \/ Notify(c) \/ Finish(c)
      BY <2>5, QuietStepsUnseen DEF Lookup, LoadRDMA, InsertFails, Notify, Finish, Local
  <2>6. QED BY <1>1, <2>1, <2>2, <2>3, <2>4, <2>5 DEF Step
<1>2. ASSUME NEW c \in CPU, NEW k \in Key, Receive(c, k)
      PROVE  Kernel!Next
  <2>1. UNCHANGED flow_table /\ now' = now + 1
      BY <1>2 DEF Receive
  <2>2. UNCHANGED KernelView
      BY <2>1 DEF KernelView, SlotsOf, Used
  <2>3. QED BY <2>1, <2>2 DEF Kernel!Next, Kernel!Tick
<1>3. ASSUME NEW s \in Slot, Evict(s)
      PROVE  Kernel!Next
    BY <1>3, EvictIsEvict
<1>4. CASE UNCHANGED vars \/ \E k \in Key : ReadEvent(k)
    BY <1>4, QuietStepsUnseen DEF vars, ReadEvent
<1>5. QED BY <1>1, <1>2, <1>3, <1>4 DEF Next

(* The map that the hooks write to, several memory accesses for a packet,  *)
(* is KernelFlows to the agent: its entries appear, count up one at a time *)
(* and go as a whole.                                                      *)
THEOREM MapIsKernelFlows == Spec => ImplementsKernelFlows
<1>1. Init => Kernel!Init
    BY DEF Init, Kernel!Init, KernelView, SlotsOf, Used
<1>2. Inv /\ Inv' /\ [Next]_vars => [Kernel!Next]_<<KernelView, now>>
    BY StepIsStep
<1>3. QED BY <1>1, <1>2, InvHolds, PTL DEF Spec, ImplementsKernelFlows, Kernel!Spec

=============================================================================
