------------------------ MODULE FlowCorrelatorProofs ------------------------
(***************************************************************************)
(* Proofs about the flow correlator, for all hosts, ports, tenants and     *)
(* times: its keys, its invariants, and that it implements the ledger.     *)
(***************************************************************************)
EXTENDS FlowCorrelator, TLAPS

-----------------------------------------------------------------------------
(* Keys.                                                                   *)

(* Reversing twice gives the flow back, and a key's reverse is a key.      *)
LEMMA ReverseInvolutive ==
    ASSUME NEW k \in FlowKey
    PROVE  ReverseKey(k) \in FlowKey /\ ReverseKey(ReverseKey(k)) = k
BY DEF FlowKey, ReverseKey

(* The correlation key is a key, and it names one of the two directions,   *)
(* as forward, with the ports at their own hosts.                          *)
LEMMA KeyNamesADirection ==
    ASSUME NEW k \in FlowKey
    PROVE  /\ MakeCorrelationKey(k) \in CorrelationKey
           /\ ForwardKey(MakeCorrelationKey(k)) = IF LowerFirst(k) THEN k ELSE ReverseKey(k)
BY DEF FlowKey, CorrelationKey, MakeCorrelationKey, ForwardKey, ReverseKey

(* isForward recognises exactly the direction the key names.               *)
LEMMA ForwardIsTheNamedDirection ==
    ASSUME NEW k \in FlowKey
    PROVE  IsForward(k) <=> k = ForwardKey(MakeCorrelationKey(k))
<1>1. CASE LowerFirst(k)
    BY <1>1 DEF FlowKey, IsForward, MakeCorrelationKey, ForwardKey, ReverseKey
<1>2. CASE ~LowerFirst(k)
    BY <1>2 DEF FlowKey, IsForward, MakeCorrelationKey, ForwardKey, ReverseKey
<1>3. QED BY <1>1, <1>2

(* Both directions of a conversation have the same key.                    *)
LEMMA KeyIsSymmetric ==
    ASSUME NEW k \in FlowKey
    PROVE  MakeCorrelationKey(ReverseKey(k)) = MakeCorrelationKey(k)
<1>1. /\ k.srcIP \in Int /\ k.dstIP \in Int
      /\ k.srcPort \in Int /\ k.dstPort \in Int
    BY AddressesAreOrdered DEF FlowKey
<1>2. CASE LowerFirst(k)
  <2>1. ~LowerFirst(ReverseKey(k))
      BY <1>1, <1>2 DEF LowerFirst, ReverseKey
  <2>2. QED BY <1>2, <2>1, ReverseInvolutive DEF MakeCorrelationKey, ReverseKey
<1>3. CASE LowerFirst(ReverseKey(k))
  <2>1. ~LowerFirst(k)
      BY <1>1, <1>3 DEF LowerFirst, ReverseKey
  <2>2. QED BY <1>3, <2>1 DEF MakeCorrelationKey, ReverseKey
<1>4. CASE ~LowerFirst(k) /\ ~LowerFirst(ReverseKey(k))
  <2>1. k.srcIP = k.dstIP /\ k.srcPort = k.dstPort
      BY <1>1, <1>4 DEF LowerFirst, ReverseKey
  <2>2. QED BY <2>1, <1>4 DEF MakeCorrelationKey, ReverseKey
<1>5. QED BY <1>2, <1>3, <1>4

(* No two conversations share one: equal keys are the same directed flow   *)
(* or its reverse.  The direction tells those two apart.                   *)
LEMMA KeyIsInjective ==
    ASSUME NEW k \in FlowKey, NEW l \in FlowKey,
           MakeCorrelationKey(k) = MakeCorrelationKey(l)
    PROVE  /\ l = k \/ l = ReverseKey(k)
           /\ (IsForward(k) <=> IsForward(l)) => l = k
<1>1. l = k \/ l = ReverseKey(k)
    BY KeyNamesADirection, ReverseInvolutive
<1>2. ASSUME IsForward(k) <=> IsForward(l) PROVE l = k
  <2>1. CASE IsForward(k)
      BY <2>1, <1>2, ForwardIsTheNamedDirection
  <2>2. CASE ~IsForward(k)
    <3>1. k = ReverseKey(ForwardKey(MakeCorrelationKey(k)))
        BY <2>2, ForwardIsTheNamedDirection, KeyNamesADirection, ReverseInvolutive
    <3>2. l = ReverseKey(ForwardKey(MakeCorrelationKey(l)))
        BY <2>2, <1>2, ForwardIsTheNamedDirection, KeyNamesADirection, ReverseInvolutive
    <3>3. QED BY <3>1, <3>2
  <2>3. QED BY <2>1, <2>2
<1>3. QED BY <1>1, <1>2

-----------------------------------------------------------------------------
(* The steps of Ingest on one entry.                                       *)

(* Storing a half replaces one slot, and resets the sums to it alone.      *)
LEMMA StoreHalfFields ==
    ASSUME NEW cf \in CorrelatedFlow, NEW f \in Flow
    PROVE  LET s == StoreHalf(cf, f)
           IN  /\ s \in CorrelatedFlow
               /\ s.fwd = IF IsForward(f.key) THEN f ELSE cf.fwd
               /\ s.rev = IF IsForward(f.key) THEN cf.rev ELSE f
               /\ s.total = 0 /\ s.first = f.first /\ s.last = f.last
               /\ s.id = cf.id /\ s.tenant = cf.tenant /\ s.rdma = cf.rdma
BY DEF StoreHalf, CorrelatedFlow, Flow

(* Adding a half leaves everything but the sums.                           *)
LEMMA AddHalfFields ==
    ASSUME NEW cf \in CorrelatedFlow, NEW h \in Flow \cup {None}
    PROVE  LET s == AddHalf(cf, h)
           IN  /\ s \in CorrelatedFlow
               /\ s.fwd = cf.fwd /\ s.rev = cf.rev
               /\ s.total = cf.total + BytesOf(h)
               /\ s.first = IF h = None THEN cf.first ELSE Earlier(cf.first, h.first)
               /\ s.last = IF h = None THEN cf.last ELSE Later(cf.last, h.last)
               /\ s.id = cf.id /\ s.tenant = cf.tenant /\ s.rdma = cf.rdma
<1>1. CASE h = None
    BY <1>1 DEF AddHalf, BytesOf, CorrelatedFlow
<1>2. CASE h \in Flow
  <2>1. h # None
      BY <1>2, NoneIsNoValue
  <2>2. cf.total + h.bytes \in Nat
      BY <1>2 DEF Flow, CorrelatedFlow
  <2>3. Earlier(cf.first, h.first) \in Time /\ Later(cf.last, h.last) \in Time
      BY <1>2 DEF Flow, CorrelatedFlow, Earlier, Later
  <2>4. QED BY <2>1, <2>2, <2>3 DEF AddHalf, BytesOf, CorrelatedFlow
<1>3. QED BY <1>1, <1>2

(* Adding the forward half also takes over its RDMA counters, if any.      *)
LEMMA AddForwardFields ==
    ASSUME NEW cf \in CorrelatedFlow
    PROVE  LET s == AddForward(cf)
           IN  /\ s \in CorrelatedFlow
               /\ s.fwd = cf.fwd /\ s.rev = cf.rev
               /\ s.total = cf.total + BytesOf(cf.fwd)
               /\ s.first = IF cf.fwd = None THEN cf.first
                            ELSE Earlier(cf.first, cf.fwd.first)
               /\ s.last = IF cf.fwd = None THEN cf.last
                           ELSE Later(cf.last, cf.fwd.last)
               /\ s.id = cf.id /\ s.tenant = cf.tenant
               /\ s.rdma = IF cf.fwd # None /\ cf.fwd.rdma # None
                           THEN cf.fwd.rdma ELSE cf.rdma
<1> DEFINE a == AddHalf(cf, cf.fwd)
<1>1. cf.fwd \in Flow \cup {None}
    BY DEF CorrelatedFlow
<1>2. /\ a \in CorrelatedFlow
      /\ a.fwd = cf.fwd /\ a.rev = cf.rev
      /\ a.total = cf.total + BytesOf(cf.fwd)
      /\ a.first = IF cf.fwd = None THEN cf.first ELSE Earlier(cf.first, cf.fwd.first)
      /\ a.last = IF cf.fwd = None THEN cf.last ELSE Later(cf.last, cf.fwd.last)
      /\ a.id = cf.id /\ a.tenant = cf.tenant /\ a.rdma = cf.rdma
    BY <1>1, AddHalfFields
<1> HIDE DEF a
<1>3. CASE cf.fwd # None /\ cf.fwd.rdma # None
  <2>1. AddForward(cf) = [a EXCEPT !.rdma = cf.fwd.rdma]
      BY <1>3 DEF AddForward, a
  <2>2. cf.fwd.rdma \in RDMAInfo
      BY <1>1, <1>3 DEF Flow
  <2>3. QED BY <1>2, <1>3, <2>1, <2>2 DEF CorrelatedFlow
<1>4. CASE ~(cf.fwd # None /\ cf.fwd.rdma # None)
  <2>1. AddForward(cf) = a
      BY <1>4 DEF AddForward, a
  <2>2. QED BY <1>2, <1>4, <2>1
<1>5. QED BY <1>3, <1>4

(* What an entry is before an Ingest, new or found: the halves it has are  *)
(* the key's two directions, and RDMA counters come with a forward half.   *)
Mergeable(ck, cf) ==
    /\ cf \in CorrelatedFlow
    /\ cf.fwd # None => cf.fwd.key = ForwardKey(ck)
    /\ cf.rev # None => /\ cf.rev.key = ReverseKey(ForwardKey(ck))
                        /\ cf.rev.key # ForwardKey(ck)
    /\ cf.rdma # None => cf.fwd # None

(* What an entry is after it: the invariants of the component, of one entry. *)
Spans(cf) ==
    LET halves == {cf.fwd, cf.rev} \ {None}
    IN  /\ \A h \in halves : cf.first <= h.first /\ h.last <= cf.last
        /\ \E h \in halves : h.first = cf.first
        /\ \E h \in halves : h.last = cf.last

EntryOK(ck, cf) ==
    /\ Mergeable(ck, cf)
    /\ cf.fwd # None \/ cf.rev # None
    /\ cf.total = BytesOf(cf.fwd) + BytesOf(cf.rev)
    /\ Spans(cf)
    /\ cf.fwd # None /\ cf.fwd.rdma # None => cf.rdma = cf.fwd.rdma

(* All fields after a Merge.                                               *)
LEMMA MergeFields ==
    ASSUME NEW cf \in CorrelatedFlow, NEW f \in Flow
    PROVE  LET m == Merge(cf, f)
               EarlierOf(t, h) == IF h = None THEN t ELSE Earlier(t, h.first)
               LaterOf(t, h) == IF h = None THEN t ELSE Later(t, h.last)
           IN  /\ m \in CorrelatedFlow
               /\ m.fwd = IF IsForward(f.key) THEN f ELSE cf.fwd
               /\ m.rev = IF IsForward(f.key) THEN cf.rev ELSE f
               /\ m.total = 0 + BytesOf(m.fwd) + BytesOf(m.rev)
               /\ m.first = EarlierOf(EarlierOf(f.first, m.fwd), m.rev)
               /\ m.last = LaterOf(LaterOf(f.last, m.fwd), m.rev)
               /\ m.id = cf.id /\ m.tenant = cf.tenant
               /\ m.rdma = IF m.fwd # None /\ m.fwd.rdma # None
                           THEN m.fwd.rdma ELSE cf.rdma
<1> DEFINE s == StoreHalf(cf, f)
           a == AddForward(s)
           m == AddHalf(a, a.rev)
<1>1. Merge(cf, f) = m
    BY DEF Merge, AddReverse
<1>2. /\ s \in CorrelatedFlow
      /\ s.fwd = IF IsForward(f.key) THEN f ELSE cf.fwd
      /\ s.rev = IF IsForward(f.key) THEN cf.rev ELSE f
      /\ s.total = 0 /\ s.first = f.first /\ s.last = f.last
      /\ s.id = cf.id /\ s.tenant = cf.tenant /\ s.rdma = cf.rdma
    BY StoreHalfFields
<1> HIDE DEF s
<1>3. /\ a \in CorrelatedFlow
      /\ a.fwd = s.fwd /\ a.rev = s.rev
      /\ a.total = s.total + BytesOf(s.fwd)
      /\ a.first = IF s.fwd = None THEN s.first ELSE Earlier(s.first, s.fwd.first)
      /\ a.last = IF s.fwd = None THEN s.last ELSE Later(s.last, s.fwd.last)
      /\ a.id = s.id /\ a.tenant = s.tenant
      /\ a.rdma = IF s.fwd # None /\ s.fwd.rdma # None THEN s.fwd.rdma ELSE s.rdma
    BY <1>2, AddForwardFields
<1> HIDE DEF a
<1>4. a.rev \in Flow \cup {None}
    BY <1>3 DEF CorrelatedFlow
<1>5. /\ m \in CorrelatedFlow
      /\ m.fwd = a.fwd /\ m.rev = a.rev
      /\ m.total = a.total + BytesOf(a.rev)
      /\ m.first = IF a.rev = None THEN a.first ELSE Earlier(a.first, a.rev.first)
      /\ m.last = IF a.rev = None THEN a.last ELSE Later(a.last, a.rev.last)
      /\ m.id = a.id /\ m.tenant = a.tenant /\ m.rdma = a.rdma
    BY <1>3, <1>4, AddHalfFields
<1> HIDE DEF m
<1>6. QED BY <1>1, <1>2, <1>3, <1>5

(* The first and the last time of a merged entry are those of its halves.  *)
LEMMA MergeSpans ==
    ASSUME NEW cf \in CorrelatedFlow, NEW f \in Flow
    PROVE  Spans(Merge(cf, f))
<1> DEFINE m == Merge(cf, f)
<1>1. /\ m.fwd \in Flow \cup {None} /\ m.rev \in Flow \cup {None}
      /\ m.fwd = f \/ m.rev = f
      /\ m.first = LET t == IF m.fwd = None THEN f.first ELSE Earlier(f.first, m.fwd.first)
                   IN  IF m.rev = None THEN t ELSE Earlier(t, m.rev.first)
      /\ m.last = LET t == IF m.fwd = None THEN f.last ELSE Later(f.last, m.fwd.last)
                  IN  IF m.rev = None THEN t ELSE Later(t, m.rev.last)
    BY MergeFields DEF CorrelatedFlow
<1> HIDE DEF m
<1>2. \A h \in Flow : h # None /\ h.first \in Int /\ h.last \in Int
    BY TimeIsOrdered, NoneIsNoValue DEF Flow
<1>3. CASE m.fwd = None
    BY <1>1, <1>2, <1>3 DEF Spans, m, Earlier, Later
<1>4. CASE m.rev = None
    BY <1>1, <1>2, <1>4 DEF Spans, m, Earlier, Later
<1>5. CASE m.fwd # None /\ m.rev # None
    BY <1>1, <1>2, <1>5 DEF Spans, m, Earlier, Later
<1>6. QED BY <1>3, <1>4, <1>5

(* Ingest makes a good entry of a new one and of a good one.               *)
LEMMA MergeEntryOK ==
    ASSUME NEW f \in Flow, NEW cf,
           Mergeable(MakeCorrelationKey(f.key), cf)
    PROVE  EntryOK(MakeCorrelationKey(f.key), Merge(cf, f))
<1> DEFINE ck == MakeCorrelationKey(f.key)
           m == Merge(cf, f)
<1>1. f # None /\ f.key \in FlowKey
    BY NoneIsNoValue DEF Flow
<1>2. cf \in CorrelatedFlow
    BY DEF Mergeable
<1>3. /\ m \in CorrelatedFlow
      /\ m.fwd = IF IsForward(f.key) THEN f ELSE cf.fwd
      /\ m.rev = IF IsForward(f.key) THEN cf.rev ELSE f
      /\ m.total = 0 + BytesOf(m.fwd) + BytesOf(m.rev)
      /\ m.rdma = IF m.fwd # None /\ m.fwd.rdma # None THEN m.fwd.rdma ELSE cf.rdma
    BY <1>2, MergeFields
<1>4. Spans(m)
    BY <1>2, MergeSpans
<1>5. IsForward(f.key) => f.key = ForwardKey(ck)
    BY <1>1, ForwardIsTheNamedDirection
<1>6. ~IsForward(f.key) => f.key = ReverseKey(ForwardKey(ck)) /\ f.key # ForwardKey(ck)
    BY <1>1, ForwardIsTheNamedDirection, KeyNamesADirection, ReverseInvolutive
<1> HIDE DEF m, ck
<1>7. Mergeable(ck, cf)
    BY DEF ck
<1>8. BytesOf(m.fwd) \in Nat /\ BytesOf(m.rev) \in Nat
    BY <1>3 DEF BytesOf, CorrelatedFlow, Flow
<1>9. EntryOK(ck, m)
    BY <1>1, <1>3, <1>4, <1>5, <1>6, <1>7, <1>8 DEF EntryOK, Mergeable
<1>10. QED BY <1>9 DEF ck, m

-----------------------------------------------------------------------------
(* Invariance.                                                             *)

IInv == TypeOK /\ \A ck \in Entries : EntryOK(ck, flows[ck])

(* The entry an Ingest works on can be merged into.                        *)
LEMMA EntryForMergeable ==
    ASSUME IInv, NEW f \in Flow
    PROVE  Mergeable(MakeCorrelationKey(f.key), EntryFor(flows, f))
<1> DEFINE ck == MakeCorrelationKey(f.key)
<1>1. ck \in CorrelationKey
    BY KeyNamesADirection DEF Flow
<1>2. CASE flows[ck] = None
  <2>1. EntryFor(flows, f) = NewEntry(f)
      BY <1>2 DEF EntryFor
  <2>2. QED BY <2>1 DEF NewEntry, Mergeable, CorrelatedFlow, Flow
<1>3. CASE flows[ck] # None
  <2>1. EntryFor(flows, f) = flows[ck]
      BY <1>3 DEF EntryFor
  <2>2. EntryOK(ck, flows[ck])
      BY <1>1, <1>3 DEF IInv, Entries
  <2>3. QED BY <2>1, <2>2 DEF EntryOK
<1>4. QED BY <1>2, <1>3

LEMMA InitIInv == Init => IInv
BY DEF Init, IInv, TypeOK, Entries

LEMMA IngestIInv ==
    ASSUME IInv, NEW f \in Observed, Ingest(f)
    PROVE  IInv'
<1> DEFINE ck == MakeCorrelationKey(f.key)
           m == Merge(EntryFor(flows, f), f)
<1>1. f \in Flow
    BY ObservedAreFlows
<1>2. ck \in CorrelationKey
    BY <1>1, KeyNamesADirection DEF Flow
<1>3. EntryOK(ck, m)
    BY <1>1, EntryForMergeable, MergeEntryOK
<1>4. flows' = [flows EXCEPT ![ck] = m]
    BY DEF Ingest
<1> HIDE DEF ck, m
<1>5. m \in CorrelatedFlow
    BY <1>3 DEF EntryOK, Mergeable
<1>6. TypeOK'
    BY <1>2, <1>4, <1>5 DEF IInv, TypeOK
<1>7. ASSUME NEW c \in CorrelationKey, flows'[c] # None
      PROVE  EntryOK(c, flows'[c])
  <2>1. CASE c = ck
      BY <1>2, <1>3, <1>4, <2>1 DEF IInv, TypeOK
  <2>2. CASE c # ck
    <3>1. flows'[c] = flows[c]
        BY <1>4, <2>2 DEF IInv, TypeOK
    <3>2. QED BY <1>7, <3>1 DEF IInv, Entries
  <2>3. QED BY <2>1, <2>2
<1>8. QED BY <1>6, <1>7 DEF IInv, Entries

LEMMA EvictStaleIInv ==
    ASSUME IInv, NEW c \in Cutoffs, EvictStale(c)
    PROVE  IInv'
<1>1. TypeOK'
    BY DEF IInv, TypeOK, EvictStale
<1>2. \A ck \in CorrelationKey : flows'[ck] # None => flows'[ck] = flows[ck]
    BY DEF EvictStale
<1>3. QED BY <1>1, <1>2 DEF IInv, Entries

(* The correlator keeps its inductive invariant.                           *)
THEOREM InductiveInvariant == Spec => []IInv
<1>1. IInv /\ [Next]_flows => IInv'
  <2> SUFFICES ASSUME IInv, [Next]_flows PROVE IInv'
      OBVIOUS
  <2>1. ASSUME NEW f \in Observed, Ingest(f) PROVE IInv'
      BY <2>1, IngestIInv
  <2>2. ASSUME NEW c \in Cutoffs, EvictStale(c) PROVE IInv'
      BY <2>2, EvictStaleIInv
  <2>3. CASE UNCHANGED flows
      BY <2>3 DEF IInv, TypeOK, Entries
  <2>4. QED BY <2>1, <2>2, <2>3 DEF Next
<1>2. QED BY InitIInv, <1>1, PTL DEF Spec

(* The map holds whole entries under correlation keys.                     *)
THEOREM TypeCorrect == Spec => []TypeOK
<1>1. IInv => TypeOK
    BY DEF IInv
<1>2. QED BY <1>1, InductiveInvariant, PTL

(* The two slots of an entry hold the two directions of its conversation,  *)
(* and nothing of any other.                                               *)
THEOREM SlotsCorrect == Spec => []SlotsMatchKey
<1>1. IInv => SlotsMatchKey
    BY DEF IInv, EntryOK, Mergeable, SlotsMatchKey
<1>2. QED BY <1>1, InductiveInvariant, PTL

(* The total of a conversation counts the last report of each direction.   *)
THEOREM TotalsCorrect == Spec => []TotalsAreSums
<1>1. IInv => TotalsAreSums
    BY DEF IInv, EntryOK, TotalsAreSums
<1>2. QED BY <1>1, InductiveInvariant, PTL

(* Its first and last times are the extremes over the halves it holds.     *)
THEOREM SpansCorrect == Spec => []SeenSpansHalves
<1>1. IInv => SeenSpansHalves
    BY DEF IInv, EntryOK, Spans, SeenSpansHalves
<1>2. QED BY <1>1, InductiveInvariant, PTL

(* Its RDMA counters are a forward half's, the present one's if it has any. *)
THEOREM RDMACorrect == Spec => []RDMAFollowsForward
<1>1. IInv => RDMAFollowsForward
    BY DEF IInv, EntryOK, Mergeable, RDMAFollowsForward
<1>2. QED BY <1>1, InductiveInvariant, PTL

-----------------------------------------------------------------------------
(* Steps.                                                                  *)

(* An entry that lives through a step keeps its identity and its halves.   *)
THEOREM IdentityKept == Spec => IdentityAndHalvesKept
<1> DEFINE Kept(ck) == flows[ck] # None /\ flows'[ck] # None =>
                          /\ flows'[ck].id = flows[ck].id
                          /\ flows'[ck].tenant = flows[ck].tenant
                          /\ flows[ck].fwd # None => flows'[ck].fwd # None
                          /\ flows[ck].rev # None => flows'[ck].rev # None
<1>1. IInv /\ [Next]_flows => [\A ck \in CorrelationKey : Kept(ck)]_flows
  <2> SUFFICES ASSUME IInv, Next, NEW ck \in CorrelationKey, flows[ck] # None
               PROVE  Kept(ck)
      OBVIOUS
  <2>1. ASSUME NEW f \in Observed, Ingest(f) PROVE Kept(ck)
    <3> DEFINE c == MakeCorrelationKey(f.key)
    <3>1. f \in Flow /\ f # None
        BY ObservedAreFlows, NoneIsNoValue
    <3>2. CASE ck = c
      <4>1. EntryFor(flows, f) = flows[ck] /\ flows[ck] \in CorrelatedFlow
          BY <3>2 DEF EntryFor, IInv, Entries, EntryOK, Mergeable
      <4>2. flows'[ck] = Merge(flows[ck], f)
          BY <2>1, <3>2, <4>1 DEF Ingest, IInv, TypeOK
      <4>3. QED BY <3>1, <4>1, <4>2, MergeFields
    <3>3. CASE ck # c
      <4>1. flows'[ck] = flows[ck]
          BY <2>1, <3>3 DEF Ingest, IInv, TypeOK
      <4>2. QED BY <4>1
    <3>4. QED BY <3>2, <3>3
  <2>2. ASSUME NEW cutoff \in Cutoffs, EvictStale(cutoff) PROVE Kept(ck)
      BY <2>2 DEF EvictStale
  <2>3. QED BY <2>1, <2>2 DEF Next
<1>2. QED BY <1>1, InductiveInvariant, PTL DEF Spec, IdentityAndHalvesKept

-----------------------------------------------------------------------------
(* Refinement.                                                             *)

(* A new entry has the new flow as its only half; an existing one keeps    *)
(* its other half.  So an Ingest changes what is known of its own flow.    *)
LEMMA IngestObserves ==
    ASSUME IInv, NEW f \in Observed, Ingest(f)
    PROVE  Ledger!Observe(f)
<1> DEFINE ck == MakeCorrelationKey(f.key)
           m == Merge(EntryFor(flows, f), f)
<1>1. f \in Flow /\ f # None /\ f.key \in FlowKey
    BY ObservedAreFlows, NoneIsNoValue DEF Flow
<1>2. ck \in CorrelationKey
    BY <1>1, KeyNamesADirection
<1>3. Mergeable(ck, EntryFor(flows, f))
    BY <1>1, EntryForMergeable
<1>4. /\ m \in CorrelatedFlow
      /\ m.fwd = IF IsForward(f.key) THEN f ELSE EntryFor(flows, f).fwd
      /\ m.rev = IF IsForward(f.key) THEN EntryFor(flows, f).rev ELSE f
    BY <1>1, <1>3, MergeFields DEF Mergeable
<1>5. m # None
    BY <1>4, NoneIsNoValue
<1>6. /\ EntryFor(flows, f).fwd = IF flows[ck] = None THEN None ELSE flows[ck].fwd
      /\ EntryFor(flows, f).rev = IF flows[ck] = None THEN None ELSE flows[ck].rev
    BY DEF EntryFor, NewEntry
<1>7. flows' = [flows EXCEPT ![ck] = m]
    BY DEF Ingest
<1> HIDE DEF m
<1>8. ASSUME NEW k \in FlowKey
      PROVE  LatestOf(k)' = IF k = f.key THEN f ELSE LatestOf(k)
  <2>1. MakeCorrelationKey(k) \in CorrelationKey
      BY KeyNamesADirection
  <2>2. CASE MakeCorrelationKey(k) = ck
    <3>1. flows'[ck] = m
        BY <1>2, <1>7 DEF IInv, TypeOK
    <3>2. k = f.key <=> (IsForward(k) <=> IsForward(f.key))
        BY <1>1, <2>2, KeyIsInjective
    <3>3. LatestOf(k)' = IF IsForward(k) THEN m.fwd ELSE m.rev
        BY <1>5, <2>2, <3>1 DEF LatestOf
    <3>4. LatestOf(k) = IF flows[ck] = None THEN None
                        ELSE IF IsForward(k) THEN flows[ck].fwd ELSE flows[ck].rev
        BY <2>2 DEF LatestOf
    <3>5. QED BY <1>4, <1>6, <3>2, <3>3, <3>4
  <2>3. CASE MakeCorrelationKey(k) # ck
    <3>1. flows'[MakeCorrelationKey(k)] = flows[MakeCorrelationKey(k)]
        BY <1>7, <2>1, <2>3 DEF IInv, TypeOK
    <3>2. QED BY <2>3, <3>1 DEF LatestOf
  <2>4. QED BY <2>2, <2>3
<1>9. QED BY <1>1, <1>8 DEF Ledger!Observe

(* LastSeen of an entry decides as its two halves would: EvictStale        *)
(* forgets exactly the conversations quiet since the cutoff.               *)
LEMMA EvictStaleForgets ==
    ASSUME IInv, NEW c \in Cutoffs, EvictStale(c)
    PROVE  Ledger!Forget(c)
<1> SUFFICES ASSUME NEW k \in FlowKey
             PROVE  LatestOf(k)' = IF Ledger!Quiet(k, c) THEN None ELSE LatestOf(k)
    BY DEF Ledger!Forget, FlowKey, Ledger!FlowKey
<1> DEFINE ck == MakeCorrelationKey(k)
           cf == flows[ck]
<1>1. /\ ck \in CorrelationKey /\ ReverseKey(k) \in FlowKey
      /\ MakeCorrelationKey(ReverseKey(k)) = ck
    BY KeyNamesADirection, ReverseInvolutive, KeyIsSymmetric
<1>2. flows'[ck] = IF Stale(ck, c) THEN None ELSE cf
    BY <1>1 DEF EvictStale
<1>3. CASE cf = None
    BY <1>2, <1>3 DEF LatestOf, Stale
<1>4. CASE cf # None
  <2>1. EntryOK(ck, cf)
      BY <1>1, <1>4 DEF IInv, Entries
  <2>2. Ledger!Known(k) = {cf.fwd, cf.rev} \ {None}
    <3>1. Ledger!Known(k) = {LatestOf(k), LatestOf(ReverseKey(k))} \ {None}
        BY <1>1 DEF Ledger!Known, ReverseKey, Ledger!ReverseKey
    <3>2. CASE IsForward(k) <=> IsForward(ReverseKey(k))
      <4>1. ReverseKey(k) = k /\ IsForward(k)
          BY <1>1, <3>2, KeyIsInjective, ForwardIsTheNamedDirection, KeyNamesADirection
      <4>2. cf.rev = None
          BY <2>1, <4>1, ForwardIsTheNamedDirection DEF EntryOK, Mergeable
      <4>3. QED BY <1>4, <3>1, <4>1, <4>2 DEF LatestOf
    <3>3. CASE ~(IsForward(k) <=> IsForward(ReverseKey(k)))
        BY <1>1, <1>4, <3>1, <3>3 DEF LatestOf
    <3>4. QED BY <3>2, <3>3
  <2>3. Stale(ck, c) <=> Ledger!Quiet(k, c)
    <3>1. \A h \in {cf.fwd, cf.rev} \ {None} : h.last \in Int
        BY <2>1, TimeIsOrdered DEF EntryOK, Mergeable, CorrelatedFlow, Flow
    <3>2. cf.last \in Int /\ c \in Int
        BY <2>1, TimeIsOrdered, CutoffsAreTimes DEF EntryOK, Mergeable, CorrelatedFlow
    <3>3. /\ \A h \in {cf.fwd, cf.rev} \ {None} : h.last <= cf.last
          /\ \E h \in {cf.fwd, cf.rev} \ {None} : h.last = cf.last
        BY <2>1 DEF EntryOK, Spans
    <3>4. Stale(ck, c) <=> cf.last < c
        BY <1>4 DEF Stale
    <3>5. Ledger!Quiet(k, c) <=> \A h \in {cf.fwd, cf.rev} \ {None} : h.last < c
        BY <2>2 DEF Ledger!Quiet
    <3> HIDE DEF cf, ck
    <3>6. QED BY <3>1, <3>2, <3>3, <3>4, <3>5
  <2>4. QED BY <1>2, <1>4, <2>3 DEF LatestOf
<1>5. QED BY <1>3, <1>4

(* The correlator implements the ledger.                                   *)
THEOREM Refinement == Spec => ImplementsLedger
<1>1. Init => Ledger!Init
    BY KeyNamesADirection DEF Init, Ledger!Init, LatestOf, FlowKey, Ledger!FlowKey
<1>2. IInv /\ [Next]_flows => [Ledger!Next]_([k \in FlowKey |-> LatestOf(k)])
  <2> SUFFICES ASSUME IInv, [Next]_flows
               PROVE  [Ledger!Next]_([k \in FlowKey |-> LatestOf(k)])
      OBVIOUS
  <2>1. ASSUME NEW f \in Observed, Ingest(f) PROVE Ledger!Next
      BY <2>1, IngestObserves DEF Ledger!Next
  <2>2. ASSUME NEW c \in Cutoffs, EvictStale(c) PROVE Ledger!Next
      BY <2>2, EvictStaleForgets DEF Ledger!Next
  <2>3. CASE UNCHANGED flows
      BY <2>3 DEF LatestOf
  <2>4. QED BY <2>1, <2>2, <2>3 DEF Next
<1>3. QED BY <1>1, <1>2, InductiveInvariant, PTL DEF Spec, ImplementsLedger, Ledger!Spec
=============================================================================
