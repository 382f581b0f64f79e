--------------------------- MODULE WSGatewayProofs ---------------------------
(***************************************************************************)
(* Proofs about the WebSocket gateway, for any connections, tenants and    *)
(* subjects, any capacity of the channels and any number of messages: what *)
(* a browser is shown, what remains of a client, and when a callback may   *)
(* end the process.                                                        *)
(***************************************************************************)
EXTENDS WSGateway, QueueLemmas

-----------------------------------------------------------------------------
(* The way of a client's messages, as an operator of its stages: what NATS *)
(* has delivered to each subscription (inb), what is in the hands of each  *)
(* callback (cb), the channel (snd), what is in the hands of writePump     *)
(* (msg) and what the browser has (rcv).                                   *)

Message == [topic : Topic, n : Nat]

InHand(m) == {m} \ {None}
InCallbacks(cb) == {cb[s] : s \in Subject} \ {None}
Waiting(q) == IF q = None THEN {} ELSE ToSet(q)
Delivered(inb) == UNION {Waiting(inb[s]) : s \in Subject}

\* What a client can have been sent whose tenant_id matches these tenants.
Possible(tenants, pub) == {m \in Message : m.topic.tenant \in tenants /\ m.n \in 1 .. pub[m.topic]}

\* All messages in A come before all those in B that have their topic.
Before(A, B) == \A a \in A, b \in B : a.topic = b.topic => a.n < b.n
Ascending(q) == \A i, j \in DOMAIN q : i < j /\ q[i].topic = q[j].topic => q[i].n < q[j].n

Stages(msg, snd, cb, inb) ==
    /\ msg \in Message \cup {None}
    /\ snd \in Seq(Message)
    /\ cb \in [Subject -> Message \cup {None}]
    /\ inb \in [Subject -> Seq(Message) \cup {None}]

\* The messages of a subscription are of its subject, in the order of publication.
Subscribed(cb, inb) ==
    \A s \in Subject :
        /\ cb[s] # None => cb[s].topic.subject = s
        /\ inb[s] # None => /\ \A m \in ToSet(inb[s]) : m.topic.subject = s
                            /\ Ascending(inb[s])

\* Nothing overtakes anything.
Flowing(tenants, pub, rcv, msg, snd, cb, inb) ==
    /\ InHand(msg) \cup ToSet(snd) \cup InCallbacks(cb) \cup Delivered(inb)
           \subseteq Possible(tenants, pub)
    /\ Subscribed(cb, inb)
    /\ Before(ToSet(rcv), InHand(msg) \cup ToSet(snd) \cup InCallbacks(cb) \cup Delivered(inb))
    /\ Before(InHand(msg), ToSet(snd) \cup InCallbacks(cb) \cup Delivered(inb))
    /\ Before(ToSet(snd), InCallbacks(cb) \cup Delivered(inb))
    /\ Before(InCallbacks(cb), Delivered(inb))
    /\ Ascending(snd)
    /\ ToSet(rcv) \subseteq Possible(tenants, pub)

-----------------------------------------------------------------------------
(* Lemmas about queues of messages.                                        *)

LEMMA AppendAscending ==
    ASSUME NEW q \in Seq(Message), NEW e \in Message,
           Ascending(q), Before(ToSet(q), {e})
    PROVE  Ascending(Append(q, e))
<1> DEFINE r == Append(q, e)
<1>1. /\ Len(q) \in Nat /\ DOMAIN q = 1 .. Len(q) /\ DOMAIN r = 1 .. Len(q) + 1
      /\ \A i \in 1 .. Len(q) : r[i] = q[i] /\ r[i] \in ToSet(q)
      /\ r[Len(q) + 1] = e
    BY AppendFacts DEF ToSet
<1> HIDE DEF r
<1>2. ASSUME NEW i \in DOMAIN r, NEW j \in DOMAIN r, i < j, r[i].topic = r[j].topic
      PROVE  r[i].n < r[j].n
  <2>1. i \in 1 .. Len(q)
      BY <1>1, <1>2
  <2>2. CASE j = Len(q) + 1
      BY <1>1, <1>2, <2>1, <2>2 DEF Before
  <2>3. CASE j # Len(q) + 1
    <3>1. j \in 1 .. Len(q)
        BY <1>1, <2>3
    <3>2. QED BY <1>1, <1>2, <2>1, <3>1 DEF Ascending
  <2>4. QED BY <2>2, <2>3
<1>3. QED BY <1>2 DEF Ascending, r

LEMMA TailAscending ==
    ASSUME NEW q \in Seq(Message), q # << >>, Ascending(q)
    PROVE  Ascending(Tail(q)) /\ Before({Head(q)}, ToSet(Tail(q)))
<1> DEFINE r == Tail(q)
<1>1. /\ Len(q) \in Nat \ {0} /\ DOMAIN q = 1 .. Len(q) /\ DOMAIN r = 1 .. Len(q) - 1
      /\ \A i \in 1 .. Len(q) - 1 : r[i] = q[i + 1]
      /\ Head(q) = q[1]
    BY TailFacts
<1> HIDE DEF r
<1>2. ASSUME NEW i \in DOMAIN r
      PROVE  i + 1 \in DOMAIN q /\ 1 \in DOMAIN q /\ 1 < i + 1 /\ r[i] = q[i + 1]
    BY <1>1
<1>3. Ascending(r)
  <2> SUFFICES ASSUME NEW i \in DOMAIN r, NEW j \in DOMAIN r, i < j, r[i].topic = r[j].topic
               PROVE  r[i].n < r[j].n
      BY DEF Ascending
  <2>1. i + 1 \in DOMAIN q /\ j + 1 \in DOMAIN q /\ i + 1 < j + 1
        /\ r[i] = q[i + 1] /\ r[j] = q[j + 1]
      BY <1>1, <1>2
  <2>2. QED BY <2>1 DEF Ascending
<1>4. Before({Head(q)}, ToSet(r))
  <2> SUFFICES ASSUME NEW i \in DOMAIN r, q[1].topic = r[i].topic
               PROVE  q[1].n < r[i].n
      BY <1>1 DEF Before, ToSet
  <2>1. QED BY <1>2 DEF Ascending
<1>5. QED BY <1>3, <1>4 DEF r

-----------------------------------------------------------------------------
(* The steps of a message.                                                 *)

\* writePump takes the oldest message of the channel.
LEMMA TakeFlows ==
    ASSUME NEW tenants, NEW pub, NEW rcv, NEW msg, NEW snd, NEW cb, NEW inb,
           Stages(msg, snd, cb, inb), Flowing(tenants, pub, rcv, msg, snd, cb, inb),
           snd # << >>
    PROVE  /\ Stages(Head(snd), Tail(snd), cb, inb)
           /\ Flowing(tenants, pub, rcv, Head(snd), Tail(snd), cb, inb)
<1>1. /\ snd \in Seq(Message) /\ Head(snd) \in Message /\ Tail(snd) \in Seq(Message)
      /\ ToSet(snd) = ToSet(Tail(snd)) \cup {Head(snd)}
    BY TailFacts DEF Stages
<1>2. Ascending(Tail(snd)) /\ Before({Head(snd)}, ToSet(Tail(snd)))
    BY <1>1, TailAscending DEF Flowing
<1>3. InHand(Head(snd)) = {Head(snd)}
    BY <1>1, NoneIsNoMessage DEF InHand, Message
<1>4. QED BY <1>1, <1>2, <1>3 DEF Stages, Flowing, Before

\* It sends it to the browser, or drops it.
LEMMA SendFlows ==
    ASSUME NEW tenants, NEW pub, NEW rcv \in Seq(Message), NEW msg \in Message,
           NEW snd, NEW cb, NEW inb,
           Stages(msg, snd, cb, inb), Flowing(tenants, pub, rcv, msg, snd, cb, inb)
    PROVE  Flowing(tenants, pub, Append(rcv, msg), None, snd, cb, inb)
<1>1. ToSet(Append(rcv, msg)) = ToSet(rcv) \cup {msg}
    BY AppendFacts
<1>2. InHand(msg) = {msg} /\ InHand(None) = {}
    BY NoneIsNoMessage DEF InHand, Message
<1>3. QED BY <1>1, <1>2 DEF Flowing, Before

LEMMA DropFlows ==
    ASSUME NEW tenants, NEW pub, NEW rcv, NEW msg, NEW snd, NEW cb, NEW inb,
           Stages(msg, snd, cb, inb), Flowing(tenants, pub, rcv, msg, snd, cb, inb)
    PROVE  Stages(None, snd, cb, inb) /\ Flowing(tenants, pub, rcv, None, snd, cb, inb)
BY DEF Stages, Flowing, Before, InHand

\* A subscription begins with nothing, or ends with what it has.
LEMMA SubscriptionFlows ==
    ASSUME NEW tenants, NEW pub, NEW rcv, NEW msg, NEW snd, NEW cb, NEW inb, NEW inb2,
           Stages(msg, snd, cb, inb), Flowing(tenants, pub, rcv, msg, snd, cb, inb),
           inb2 \in [Subject -> Seq(Message) \cup {None}],
           \A s \in Subject : inb2[s] \in {inb[s], None, << >>}
    PROVE  Stages(msg, snd, cb, inb2) /\ Flowing(tenants, pub, rcv, msg, snd, cb, inb2)
<1>1. Ascending(<< >>) /\ ToSet(<< >>) = {}
    BY EmptyFacts DEF Ascending
<1>2. Delivered(inb2) \subseteq Delivered(inb)
  <2>1. \A s \in Subject : Waiting(inb2[s]) \subseteq Waiting(inb[s])
      BY <1>1 DEF Waiting
  <2>2. QED BY <2>1 DEF Delivered
<1>3. Subscribed(cb, inb2)
    BY <1>1 DEF Subscribed, Flowing
<1>4. QED BY <1>2, <1>3 DEF Stages, Flowing, Before

\* A callback takes the oldest message of its subscription.
LEMMA CallbackBeginFlows ==
    ASSUME NEW tenants, NEW pub, NEW rcv, NEW msg, NEW snd, NEW cb, NEW inb, NEW s \in Subject,
           Stages(msg, snd, cb, inb), Flowing(tenants, pub, rcv, msg, snd, cb, inb),
           cb[s] = None, inb[s] # None, inb[s] # << >>,
           NEW cb2, cb2 = [cb EXCEPT ![s] = Head(inb[s])],
           NEW inb2, inb2 = [inb EXCEPT ![s] = Tail(inb[s])]
    PROVE  Stages(msg, snd, cb2, inb2) /\ Flowing(tenants, pub, rcv, msg, snd, cb2, inb2)
<1> DEFINE q == inb[s]
           h == Head(q)
<1>1. /\ q \in Seq(Message) /\ h \in Message /\ h # None /\ Tail(q) \in Seq(Message)
      /\ ToSet(q) = ToSet(Tail(q)) \cup {h}
  <2>1. q \in Seq(Message)
      BY DEF Stages
  <2>2. q # << >> /\ None \notin Message
      BY NoneIsNoMessage DEF Message
  <2> HIDE DEF q
  <2>3. QED BY <2>1, <2>2, TailFacts
<1>2. /\ \A m \in ToSet(q) : m.topic.subject = s
      /\ Ascending(Tail(q)) /\ Before({h}, ToSet(Tail(q)))
    BY <1>1, TailAscending DEF Flowing, Subscribed
<1>3. /\ cb2 \in [Subject -> Message \cup {None}]
      /\ inb2 \in [Subject -> Seq(Message) \cup {None}]
      /\ \A u \in Subject : cb2[u] = (IF u = s THEN h ELSE cb[u]) /\ inb2[u] = IF u = s THEN Tail(q) ELSE inb[u]
    BY <1>1 DEF Stages
<1> HIDE DEF q, h
<1>4. InCallbacks(cb2) = InCallbacks(cb) \cup {h}
    BY <1>1, <1>3 DEF InCallbacks
<1>5. /\ h \in Delivered(inb) /\ Delivered(inb2) \subseteq Delivered(inb)
      /\ \A m \in Delivered(inb2) : m \in ToSet(Tail(q)) \/ m.topic.subject # s
  <2>1. \A u \in Subject : Waiting(inb2[u]) \subseteq Waiting(inb[u])
      BY <1>1, <1>3 DEF Waiting, q
  <2>2. h \in Waiting(inb[s])
      BY <1>1 DEF Waiting, q
  <2>3. \A u \in Subject \ {s} : \A m \in Waiting(inb2[u]) : m.topic.subject = u
      BY <1>3 DEF Waiting, Flowing, Subscribed
  <2>4. Waiting(inb2[s]) \subseteq ToSet(Tail(q))
      BY <1>3 DEF Waiting
  <2>5. QED BY <2>1, <2>2, <2>3, <2>4 DEF Delivered
<1>6. Before({h}, Delivered(inb2))
    BY <1>1, <1>2, <1>5 DEF Before
<1>7. Subscribed(cb2, inb2)
    BY <1>1, <1>2, <1>3 DEF Flowing, Subscribed
<1>8. Stages(msg, snd, cb2, inb2)
    BY <1>3 DEF Stages
<1>9. Flowing(tenants, pub, rcv, msg, snd, cb2, inb2)
    BY <1>4, <1>5, <1>6, <1>7 DEF Flowing, Before
<1>10. QED BY <1>8, <1>9

\* It puts it into the channel, or drops it.
PutsOrDrops(s, cb, cb2, snd, snd2) ==
    /\ cb[s] # None
    /\ cb2 = [cb EXCEPT ![s] = None]
    /\ snd2 \in {snd, Append(snd, cb[s])}

LEMMA CallbackSendFlows ==
    ASSUME NEW tenants, NEW pub, NEW rcv, NEW msg, NEW snd, NEW cb, NEW inb, NEW s \in Subject,
           Stages(msg, snd, cb, inb), Flowing(tenants, pub, rcv, msg, snd, cb, inb),
           NEW cb2, NEW snd2, PutsOrDrops(s, cb, cb2, snd, snd2)
    PROVE  Stages(msg, snd2, cb2, inb) /\ Flowing(tenants, pub, rcv, msg, snd2, cb2, inb)
<1> USE DEF PutsOrDrops
<1>1. PICK m \in Message : m = cb[s]
    BY DEF Stages
<1>2. /\ m \in InCallbacks(cb) /\ m.topic.subject = s
    BY <1>1, NoneIsNoMessage DEF InCallbacks, Flowing, Subscribed
<1>3. /\ cb2 \in [Subject -> Message \cup {None}]
      /\ \A u \in Subject : cb2[u] = IF u = s THEN None ELSE cb[u]
    BY DEF Stages
<1>4. InCallbacks(cb2) \subseteq InCallbacks(cb)
    BY <1>3 DEF InCallbacks
<1>5. \A o \in InCallbacks(cb2) : o.topic.subject # s
    BY <1>3 DEF InCallbacks, Flowing, Subscribed
<1>6. Subscribed(cb2, inb)
    BY <1>3 DEF Flowing, Subscribed
<1>7. CASE snd2 = snd
    BY <1>3, <1>4, <1>6, <1>7 DEF Stages, Flowing, Before
<1>8. CASE snd2 = Append(snd, m)
  <2>1. snd2 \in Seq(Message) /\ ToSet(snd2) = ToSet(snd) \cup {m}
      BY <1>8, AppendFacts DEF Stages
  <2>2. Before(ToSet(snd), {m})
      BY <1>2 DEF Flowing, Before
  <2>3. Ascending(snd2)
      BY <1>8, <2>2, AppendAscending DEF Stages, Flowing
  <2>4. Before({m}, InCallbacks(cb2) \cup Delivered(inb))
      BY <1>2, <1>5 DEF Flowing, Before
  <2>5. Stages(msg, snd2, cb2, inb)
      BY <1>3, <2>1 DEF Stages
  <2>6. /\ Before(ToSet(snd2), InCallbacks(cb2) \cup Delivered(inb))
        /\ Before(InCallbacks(cb2), Delivered(inb))
      BY <1>4, <2>1, <2>4 DEF Flowing, Before
  <2>7. /\ Before(ToSet(rcv), InHand(msg) \cup ToSet(snd2) \cup InCallbacks(cb2) \cup Delivered(inb))
        /\ Before(InHand(msg), ToSet(snd2) \cup InCallbacks(cb2) \cup Delivered(inb))
      BY <1>2, <1>4, <2>1 DEF Flowing, Before
  <2>8. /\ InHand(msg) \cup ToSet(snd2) \cup InCallbacks(cb2) \cup Delivered(inb)
                \subseteq Possible(tenants, pub)
        /\ ToSet(rcv) \subseteq Possible(tenants, pub)
      BY <1>2, <1>4, <2>1 DEF Flowing
  <2>9. QED BY <1>6, <2>3, <2>5, <2>6, <2>7, <2>8 DEF Flowing
<1>9. QED BY <1>1, <1>7, <1>8

\* A message is published, and delivered to the client or not.
Publishes(t, tenants, pub, pub2, inb, inb2) ==
    /\ pub2 = [pub EXCEPT ![t] = @ + 1]
    /\ \/ inb2 = inb
       \/ /\ t.tenant \in tenants /\ inb[t.subject] # None
          /\ inb2 = [inb EXCEPT ![t.subject] = Append(@, [topic |-> t, n |-> pub2[t]])]

LEMMA PublishFlows ==
    ASSUME NEW tenants, NEW pub \in [Topic -> Nat], NEW rcv, NEW msg, NEW snd, NEW cb, NEW inb,
           Stages(msg, snd, cb, inb), Flowing(tenants, pub, rcv, msg, snd, cb, inb),
           NEW t \in Topic, NEW pub2, NEW inb2, Publishes(t, tenants, pub, pub2, inb, inb2)
    PROVE  Stages(msg, snd, cb, inb2) /\ Flowing(tenants, pub2, rcv, msg, snd, cb, inb2)
<1> USE DEF Publishes
<1>1. /\ pub2 \in [Topic -> Nat] /\ pub2[t] = pub[t] + 1
      /\ \A u \in Topic : pub[u] <= pub2[u]
    OBVIOUS
<1>2. Possible(tenants, pub) \subseteq Possible(tenants, pub2)
  <2>1. \A m \in Message : m.topic \in Topic
      BY DEF Message
  <2>2. QED BY <1>1, <2>1 DEF Possible
<1>3. CASE inb2 = inb
    BY <1>2, <1>3 DEF Flowing
<1>4. CASE /\ t.tenant \in tenants /\ inb[t.subject] # None
           /\ inb2 = [inb EXCEPT ![t.subject] = Append(@, [topic |-> t, n |-> pub2[t]])]
  <2>1. PICK s \in Subject : s = t.subject
      BY DEF Topic
  <2>2. PICK m \in Message : m = [topic |-> t, n |-> pub2[t]]
      BY <1>1 DEF Message
  <2>3. /\ m.topic = t /\ m.n = pub[t] + 1 /\ m \in Possible(tenants, pub2)
      BY <1>1, <1>4, <2>2 DEF Possible
  <2>4. \A o \in Possible(tenants, pub) : o.topic = t => o.n < m.n
      BY <2>3 DEF Possible, Message
  <2>5. PICK q \in Seq(Message) : q = inb[s]
      BY <1>4, <2>1 DEF Stages
  <2>6. Append(q, m) \in Seq(Message) /\ ToSet(Append(q, m)) = ToSet(q) \cup {m}
      BY AppendFacts
  <2>7. /\ inb2 \in [Subject -> Seq(Message) \cup {None}]
        /\ \A u \in Subject : inb2[u] = IF u = s THEN Append(q, m) ELSE inb[u]
    <3>1. inb \in [Subject -> Seq(Message) \cup {None}]
        BY DEF Stages
    <3>2. inb2 = [inb EXCEPT ![s] = Append(q, m)]
        BY <1>4, <2>1, <2>2, <2>5
    <3>3. QED BY <2>6, <3>1, <3>2
  <2>8. Delivered(inb2) \subseteq Delivered(inb) \cup {m}
    <3>1. \A u \in Subject : Waiting(inb2[u]) \subseteq Waiting(inb[u]) \cup {m}
        BY <1>4, <2>1, <2>5, <2>6, <2>7 DEF Waiting
    <3>2. QED BY <3>1 DEF Delivered
  <2>9. Ascending(Append(q, m))
    <3>1. ToSet(q) \subseteq Possible(tenants, pub)
        BY <1>4, <2>1, <2>5 DEF Flowing, Delivered, Waiting
    <3>2. Before(ToSet(q), {m})
        BY <2>3, <2>4, <3>1 DEF Before
    <3>3. QED BY <1>4, <2>1, <2>5, <3>2, AppendAscending DEF Flowing, Subscribed
  <2>10. Subscribed(cb, inb2)
      BY <1>4, <2>1, <2>3, <2>5, <2>6, <2>7, <2>9 DEF Flowing, Subscribed
  <2>11. Stages(msg, snd, cb, inb2)
      BY <2>7 DEF Stages
  <2>12. \A A : A \subseteq Possible(tenants, pub) => Before(A, {m})
      BY <2>3, <2>4 DEF Before
  <2>13. \A A, B, C : Before(A, B) /\ Before(A, {m}) /\ C \subseteq B \cup {m} => Before(A, C)
      BY DEF Before
  <2> DEFINE R == ToSet(rcv)
             W == InHand(msg)
             S == ToSet(snd)
             B == InCallbacks(cb)
             D == Delivered(inb)
             E == Delivered(inb2)
  <2>14. /\ W \cup S \cup B \cup D \subseteq Possible(tenants, pub)
         /\ R \subseteq Possible(tenants, pub)
         /\ Before(R, W \cup S \cup B \cup D) /\ Before(W, S \cup B \cup D)
         /\ Before(S, B \cup D) /\ Before(B, D)
      BY DEF Flowing
  <2>15. /\ W \cup S \cup B \cup E \subseteq Possible(tenants, pub2)
         /\ R \subseteq Possible(tenants, pub2)
      BY <1>2, <2>3, <2>8, <2>14
  <2> HIDE DEF R, W, S, B, D, E
  <2>16. /\ Before(R, W \cup S \cup B \cup E) /\ Before(W, S \cup B \cup E)
         /\ Before(S, B \cup E) /\ Before(B, E)
    <3>1. E \subseteq D \cup {m}
        BY <2>8 DEF D, E
    <3>2. Before(R, {m}) /\ Before(W, {m}) /\ Before(S, {m}) /\ Before(B, {m})
        BY <2>12, <2>14
    <3>3. Before(R, W \cup S \cup B \cup E)
        BY <2>14, <3>1, <3>2 DEF Before
    <3>4. Before(W, S \cup B \cup E)
        BY <2>14, <3>1, <3>2 DEF Before
    <3>5. Before(S, B \cup E)
        BY <2>14, <3>1, <3>2 DEF Before
    <3>6. Before(B, E)
        BY <2>14, <3>1, <3>2 DEF Before
    <3>7. QED BY <3>3, <3>4, <3>5, <3>6
  <2>17. Flowing(tenants, pub2, rcv, msg, snd, cb, inb2)
      BY <2>10, <2>15, <2>16 DEF Flowing, R, W, S, B, E
  <2>18. QED BY <2>11, <2>17
<1>5. QED BY <1>3, <1>4

-----------------------------------------------------------------------------
(* The inductive invariant.                                                *)

WriterPcs == {"none", "select", "write", "closing", "removing", "gone"}
ReaderPcs == {"none", "reading", "closing", "removing", "gone"}

Types ==
    /\ scope \in [Client -> SUBSET Tenant]
    /\ conn \in [Client -> {"none", "upgraded", "open", "closed"}]
    /\ clients \subseteq Client
    /\ send \in [Client -> Seq(Message)]
    /\ writer \in [Client -> [pc : WriterPcs, msg : Message \cup {None}]]
    /\ reader \in [Client -> ReaderPcs]
    /\ inbox \in [Client -> [Subject -> Seq(Message) \cup {None}]]
    /\ callback \in [Client -> [Subject -> Message \cup {None}]]
    /\ published \in [Topic -> Nat]
    /\ received \in [Client -> Seq(Message)]

\* A client is registered once, before its pumps run, and a pump leaves
\* behind a closed connection and no entry in gw.clients.
Life ==
    \A c \in Client :
        /\ conn[c] \in {"none", "upgraded"} =>
               writer[c].pc = "none" /\ reader[c] = "none" /\ c \notin clients
        /\ writer[c].pc = "write" => writer[c].msg # None
        /\ writer[c].pc \in {"removing", "gone"} => conn[c] = "closed"
        /\ writer[c].pc = "gone" => c \notin clients
        /\ reader[c] \in {"closing", "removing", "gone"} => c \in done
        /\ reader[c] \in {"removing", "gone"} => conn[c] = "closed"
        /\ reader[c] = "gone" => c \notin clients

\* Channels are closed, and a callback can panic, in the shutdown only.
Closing ==
    /\ sendClosed # {} => server # "running"
    /\ crashed => server # "running"

FlowOf(c) == Flowing(scope[c], published, received[c], writer[c].msg, send[c], callback[c], inbox[c])

Flows == \A c \in Client : FlowOf(c)

Inv == Types /\ Life /\ Closing /\ Flows

LEMMA InitInv == Init => Inv
<1> SUFFICES ASSUME Init PROVE Inv
    OBVIOUS
<1>1. << >> \in Seq(Message) /\ ToSet(<< >>) = {} /\ Ascending(<< >>)
    BY EmptyFacts DEF Ascending
<1>2. Types
    BY <1>1 DEF Init, Types, WriterPcs, ReaderPcs
<1>3. Life /\ Closing
    BY DEF Init, Life, Closing
<1>4. ASSUME NEW c \in Client PROVE FlowOf(c)
  <2>1. /\ received[c] = << >> /\ writer[c].msg = None /\ send[c] = << >>
        /\ \A s \in Subject : callback[c][s] = None /\ inbox[c][s] = None
      BY DEF Init
  <2>2. InHand(None) = {} /\ InCallbacks(callback[c]) = {} /\ Delivered(inbox[c]) = {}
      BY <2>1 DEF InHand, InCallbacks, Delivered, Waiting
  <2>3. QED BY <1>1, <2>1, <2>2 DEF FlowOf, Flowing, Before, Subscribed
<1>5. QED BY <1>2, <1>3, <1>4 DEF Inv, Flows

LEMMA StagesHold == ASSUME Types, NEW c \in Client
                    PROVE  Stages(writer[c].msg, send[c], callback[c], inbox[c])
BY DEF Types, Stages

-----------------------------------------------------------------------------
(* The steps that move no message: those of the handler, of the shutdown,  *)
(* and of the pumps when they stop.                                        *)

\* At most c's writer has dropped what it had in its hands.
NothingMoves(c) ==
    /\ UNCHANGED <<scope, published, received, send, callback, inbox>>
    /\ \E w \in [pc : WriterPcs, msg : Message \cup {None}] :
           writer' = [writer EXCEPT ![c] = w] /\ w.msg \in {writer[c].msg, None}

LEMMA NothingMovesFlows ==
    ASSUME Types, Flows, NEW c \in Client, NothingMoves(c)
    PROVE  Flows'
<1> SUFFICES ASSUME NEW d \in Client PROVE FlowOf(d)'
    BY DEF Flows
<1>1. PICK w \in [pc : WriterPcs, msg : Message \cup {None}] :
          writer' = [writer EXCEPT ![c] = w] /\ w.msg \in {writer[c].msg, None}
    BY DEF NothingMoves
<1>2. writer'[d] = IF d = c THEN w ELSE writer[d]
    BY <1>1 DEF Types
<1>3. writer'[d].msg \in {writer[d].msg, None}
    BY <1>1, <1>2
<1>4. FlowOf(d) /\ Stages(writer[d].msg, send[d], callback[d], inbox[d])
    BY StagesHold DEF Flows
<1>5. QED BY <1>3, <1>4, DropFlows DEF FlowOf, NothingMoves

\* Where the pumps are, and what is closed.
Handling(c) == Upgrade(c) \/ Register(c) \/ Disconnect(c)
Stopping(c) == WriterFails(c) \/ WriterStops(c) \/ WriterCloses(c) \/ WriterRemoves(c)

LEMMA HandlingKeepsInv ==
    ASSUME Inv, NEW c \in Client, Handling(c)
    PROVE  Inv'
<1> DEFINE w == IF Register(c) THEN [writer[c] EXCEPT !.pc = "select"] ELSE writer[c]
<1>1. /\ writer' = [writer EXCEPT ![c] = w]
      /\ w \in [pc : WriterPcs, msg : Message \cup {None}] /\ w.msg = writer[c].msg
      /\ w.pc \in {writer[c].pc, "select"}
  <2>1. writer[c] \in [pc : WriterPcs, msg : Message \cup {None}]
      BY DEF Inv, Types
  <2>2. CASE Register(c)
      BY <2>1, <2>2 DEF Register, WriterPcs
  <2>3. CASE ~ Register(c)
      BY <2>1, <2>3 DEF Handling, Upgrade, Disconnect, pumps, Inv, Types
  <2>4. QED BY <2>2, <2>3
<1>2. UNCHANGED <<scope, published, received, send, callback, inbox, done, sendClosed, server, crashed>>
    BY DEF Handling, Upgrade, Register, Disconnect, queue, subs, world
<1>3. NothingMoves(c)
    BY <1>1, <1>2 DEF NothingMoves
<1>4. Flows' /\ Closing'
    BY <1>2, <1>3, NothingMovesFlows DEF Inv, Closing
<1>5. /\ conn' \in [Client -> {"none", "upgraded", "open", "closed"}]
      /\ clients' \subseteq Client /\ reader' \in [Client -> ReaderPcs]
    BY DEF Inv, Types, Handling, Upgrade, Register, Disconnect, pumps, ReaderPcs
<1>6. Types'
  <2>1. writer' \in [Client -> [pc : WriterPcs, msg : Message \cup {None}]]
      BY <1>1 DEF Inv, Types
  <2>2. QED BY <1>2, <1>5, <2>1 DEF Inv, Types
<1>7. Life'
    BY DEF Inv, Types, Life, Handling, Upgrade, Register, Disconnect, pumps
<1>8. QED BY <1>4, <1>6, <1>7 DEF Inv

LEMMA StoppingKeepsInv ==
    ASSUME Inv, NEW c \in Client, Stopping(c)
    PROVE  Inv'
<1>1. /\ UNCHANGED <<scope, published, received, send, callback, inbox, done, sendClosed, server, crashed, reader>>
      /\ conn' \in {conn, [conn EXCEPT ![c] = "closed"]} /\ clients' \in {clients, clients \ {c}}
    BY DEF Stopping, WriterFails, WriterStops, WriterLeaves, WriterCloses, WriterRemoves, Writing, subs, world
<1>2. PICK w \in [pc : WriterPcs, msg : Message \cup {None}] :
          /\ writer' = [writer EXCEPT ![c] = w] /\ w.msg \in {writer[c].msg, None}
          /\ \/ w.pc = "closing" /\ writer[c].pc \in {"select", "write"}
             \/ w.pc = "removing" /\ conn' = [conn EXCEPT ![c] = "closed"] /\ writer[c].pc = "closing"
             \/ w.pc = "gone" /\ clients' = clients \ {c} /\ writer[c].pc = "removing"
  <2>1. writer[c] \in [pc : WriterPcs, msg : Message \cup {None}]
      BY DEF Inv, Types
  <2>2. CASE WriterFails(c) \/ WriterStops(c)
    <3> DEFINE w == [pc |-> "closing", msg |-> None]
    <3>1. w \in [pc : WriterPcs, msg : Message \cup {None}]
        BY DEF WriterPcs
    <3>2. writer' = [writer EXCEPT ![c] = w] /\ writer[c].pc \in {"select", "write"}
        BY <2>2 DEF WriterFails, WriterStops, WriterLeaves
    <3>3. QED BY <3>1, <3>2
  <2>3. CASE WriterCloses(c)
    <3> DEFINE w == [writer[c] EXCEPT !.pc = "removing"]
    <3>1. w \in [pc : WriterPcs, msg : Message \cup {None}] /\ w.pc = "removing" /\ w.msg = writer[c].msg
        BY <2>1 DEF WriterPcs
    <3>2. writer' = [writer EXCEPT ![c] = w] /\ conn' = [conn EXCEPT ![c] = "closed"] /\ writer[c].pc = "closing"
        BY <2>3 DEF WriterCloses
    <3> HIDE DEF w
    <3>3. QED BY <3>1, <3>2
  <2>4. CASE WriterRemoves(c)
    <3> DEFINE w == [writer[c] EXCEPT !.pc = "gone"]
    <3>1. w \in [pc : WriterPcs, msg : Message \cup {None}] /\ w.pc = "gone" /\ w.msg = writer[c].msg
        BY <2>1 DEF WriterPcs
    <3>2. writer' = [writer EXCEPT ![c] = w] /\ clients' = clients \ {c} /\ writer[c].pc = "removing"
        BY <2>4 DEF WriterRemoves
    <3> HIDE DEF w
    <3>3. QED BY <3>1, <3>2
  <2>5. QED BY <2>2, <2>3, <2>4 DEF Stopping
<1>3. NothingMoves(c)
    BY <1>1, <1>2 DEF NothingMoves
<1>4. Flows' /\ Closing'
    BY <1>1, <1>3, NothingMovesFlows DEF Inv, Closing
<1>5. Types'
  <2>1. writer' \in [Client -> [pc : WriterPcs, msg : Message \cup {None}]]
      BY <1>2 DEF Inv, Types
  <2>2. conn' \in [Client -> {"none", "upgraded", "open", "closed"}] /\ clients' \subseteq Client
      BY <1>1 DEF Inv, Types
  <2>3. QED BY <1>1, <2>1, <2>2 DEF Inv, Types
<1>6. Life'
    BY <1>1, <1>2 DEF Inv, Types, Life
<1>7. QED BY <1>4, <1>5, <1>6 DEF Inv

LEMMA ReaderKeepsInv ==
    ASSUME Inv, NEW c \in Client, Reader(c)
    PROVE  Inv'
<1>1. UNCHANGED <<scope, published, received, send, callback, inbox, sendClosed, server, crashed, writer>>
    BY DEF Reader, ReaderFails, ReaderCloses, ReaderRemoves, Reading, queue, subs, world
<1>2. Flows' /\ Closing'
    BY <1>1 DEF Inv, Closing, Flows, FlowOf
<1>3. Types' /\ Life'
  <2>1. CASE ReaderFails(c)
      BY <1>1, <2>1 DEF Inv, Types, Life, ReaderFails, ReaderPcs
  <2>2. CASE ReaderCloses(c)
      BY <1>1, <2>2 DEF Inv, Types, Life, ReaderCloses, ReaderPcs
  <2>3. CASE ReaderRemoves(c)
      BY <1>1, <2>3 DEF Inv, Types, Life, ReaderRemoves, ReaderPcs
  <2>4. QED BY <2>1, <2>2, <2>3 DEF Reader
<1>4. QED BY <1>2, <1>3 DEF Inv

LEMMA RunKeepsInv ==
    ASSUME Inv, Shutdown \/ ServerStops \/ UNCHANGED vars
    PROVE  Inv'
<1>1. UNCHANGED <<scope, published, received, send, callback, inbox, writer, reader, conn, clients, done, crashed>>
    BY DEF Shutdown, ServerStops, vars, link, pumps, subs, queue, world
<1>2. Types' /\ Life' /\ Flows'
    BY <1>1 DEF Inv, Types, Life, Flows, FlowOf
<1>3. Closing'
    BY DEF Inv, Closing, Shutdown, ServerStops, vars, queue, world
<1>4. QED BY <1>2, <1>3 DEF Inv

-----------------------------------------------------------------------------
(* The steps that move one.                                                *)

\* What such a step leaves alone.
Elsewhere == UNCHANGED <<scope, conn, clients, done, reader, sendClosed, server>>

LEMMA WriterMovesKeepsInv ==
    ASSUME Inv, NEW c \in Client, WriterTake(c) \/ WriterSend(c)
    PROVE  Inv'
<1>1. Elsewhere /\ UNCHANGED <<published, callback, inbox, crashed>>
    BY DEF WriterTake, WriterSend, Writing, Elsewhere, subs, world
<1>2. Stages(writer[c].msg, send[c], callback[c], inbox[c]) /\ FlowOf(c)
    BY StagesHold DEF Inv, Flows
<1>3. PICK w \in [pc : WriterPcs, msg : Message \cup {None}] :
          /\ writer' = [writer EXCEPT ![c] = w]
          /\ (w.pc = "write" /\ w.msg # None) \/ w.pc = "select"
          /\ writer[c].pc \in {"select", "write"}
          /\ send' \in [Client -> Seq(Message)] /\ received' \in [Client -> Seq(Message)]
          /\ \A d \in Client : d # c => send'[d] = send[d] /\ received'[d] = received[d]
          /\ Flowing(scope[c], published, received'[c], w.msg, send'[c], callback[c], inbox[c])
  <2>1. CASE WriterTake(c)
    <3> DEFINE w == [pc |-> "write", msg |-> Head(send[c])]
    <3>1. /\ writer' = [writer EXCEPT ![c] = w] /\ writer[c].pc = "select"
          /\ send[c] # << >> /\ send' = [send EXCEPT ![c] = Tail(@)] /\ received' = received
        BY <2>1 DEF WriterTake
    <3>2. /\ Stages(Head(send[c]), Tail(send[c]), callback[c], inbox[c])
          /\ Flowing(scope[c], published, received[c], Head(send[c]), Tail(send[c]), callback[c], inbox[c])
        BY <1>2, <3>1, TakeFlows DEF FlowOf
    <3>3. Head(send[c]) \in Message /\ Tail(send[c]) \in Seq(Message)
        BY <3>1, TailFacts DEF Inv, Types
    <3>4. Head(send[c]) # None
        BY <3>3, NoneIsNoMessage DEF Message
    <3>5. w \in [pc : WriterPcs, msg : Message \cup {None}]
        BY <3>3 DEF WriterPcs
    <3>6. /\ send' \in [Client -> Seq(Message)] /\ received' \in [Client -> Seq(Message)]
          /\ \A d \in Client : d # c => send'[d] = send[d]
          /\ send'[c] = Tail(send[c])
        BY <3>1, <3>3 DEF Inv, Types
    <3>7. w.pc = "write" /\ w.msg = Head(send[c])
        OBVIOUS
    <3> HIDE DEF w
    <3>8. QED BY <3>1, <3>2, <3>4, <3>5, <3>6, <3>7
  <2>2. CASE WriterSend(c)
    <3> DEFINE w == [pc |-> "select", msg |-> None]
    <3>1. /\ writer' = [writer EXCEPT ![c] = w] /\ writer[c].pc = "write"
          /\ received' = [received EXCEPT ![c] = Append(@, writer[c].msg)] /\ send' = send
        BY <2>2 DEF WriterSend
    <3>2. writer[c].msg \in Message /\ received[c] \in Seq(Message)
        BY <3>1 DEF Inv, Types, Life
    <3>3. Flowing(scope[c], published, Append(received[c], writer[c].msg), None, send[c], callback[c], inbox[c])
        BY <1>2, <3>2, SendFlows DEF FlowOf
    <3>4. Append(received[c], writer[c].msg) \in Seq(Message)
        BY <3>2, AppendFacts
    <3>5. w \in [pc : WriterPcs, msg : Message \cup {None}] /\ w.pc = "select" /\ w.msg = None
        BY DEF WriterPcs
    <3>6. /\ send' \in [Client -> Seq(Message)] /\ received' \in [Client -> Seq(Message)]
          /\ \A d \in Client : d # c => received'[d] = received[d]
          /\ received'[c] = Append(received[c], writer[c].msg)
        BY <3>1, <3>4 DEF Inv, Types
    <3> HIDE DEF w
    <3>7. QED BY <3>1, <3>3, <3>5, <3>6
  <2>3. QED BY <2>1, <2>2
<1>4. \A d \in Client : writer'[d] = IF d = c THEN w ELSE writer[d]
    BY <1>3 DEF Inv, Types
<1>5. Types'
  <2>1. writer' \in [Client -> [pc : WriterPcs, msg : Message \cup {None}]]
      BY <1>3 DEF Inv, Types
  <2>2. QED BY <1>1, <1>3, <2>1 DEF Inv, Types, Elsewhere
<1>6. Life' /\ Closing'
    BY <1>1, <1>3, <1>4 DEF Inv, Life, Closing, Elsewhere
<1>7. Flows'
  <2> SUFFICES ASSUME NEW d \in Client PROVE FlowOf(d)'
      BY DEF Flows
  <2>1. CASE d = c
      BY <1>1, <1>3, <1>4, <2>1 DEF FlowOf, Elsewhere
  <2>2. CASE d # c
      BY <1>1, <1>3, <1>4, <2>2 DEF FlowOf, Elsewhere, Inv, Flows
  <2>3. QED BY <2>1, <2>2
<1>8. QED BY <1>5, <1>6, <1>7 DEF Inv

\* A step that changes what NATS has delivered, of the subscriptions only.
LEMMA SubscriptionsKeepInv ==
    ASSUME Inv, Elsewhere \/ (NatsClose /\ UNCHANGED <<scope, conn, clients, done, reader, sendClosed>>),
           UNCHANGED <<published, received, send, writer, callback, crashed>>,
           inbox' \in [Client -> [Subject -> Seq(Message) \cup {None}]],
           \A c \in Client : \A s \in Subject : inbox'[c][s] \in {inbox[c][s], None, << >>}
    PROVE  Inv'
<1>1. Types' /\ Life' /\ Closing'
    BY DEF Inv, Types, Life, Closing, Elsewhere, NatsClose
<1>2. ASSUME NEW c \in Client PROVE FlowOf(c)'
  <2>1. Stages(writer[c].msg, send[c], callback[c], inbox[c]) /\ FlowOf(c)
      BY StagesHold DEF Inv, Flows
  <2>2. inbox'[c] \in [Subject -> Seq(Message) \cup {None}]
      OBVIOUS
  <2>3. Flowing(scope[c], published, received[c], writer[c].msg, send[c], callback[c], inbox'[c])
      BY <2>1, <2>2, SubscriptionFlows DEF FlowOf
  <2>4. QED BY <2>3 DEF FlowOf, Elsewhere
<1>3. QED BY <1>1, <1>2 DEF Inv, Flows

LEMMA SubscriberKeepsInv ==
    ASSUME Inv, (\E c \in Client : Subscriber(c)) \/ NatsClose
    PROVE  Inv'
<1>1. << >> \in Seq(Message)
    BY EmptyFacts
<1>2. CASE NatsClose
  <2>1. /\ UNCHANGED <<scope, conn, clients, done, reader, sendClosed>>
        /\ UNCHANGED <<published, received, send, writer, callback, crashed>>
        /\ inbox' = [c \in Client |-> [s \in Subject |-> None]]
      BY <1>2 DEF NatsClose, link, queue, pumps
  <2>2. QED BY <1>2, <2>1, SubscriptionsKeepInv
<1>3. ASSUME NEW c \in Client, Subscriber(c)
      PROVE  Inv'
  <2>1. Elsewhere /\ UNCHANGED <<published, received, send, writer, callback, crashed>>
      BY <1>3 DEF Subscriber, Subscribe, Released, Unsubscribe, Elsewhere, link, queue, pumps, world
  <2>2. inbox \in [Client -> [Subject -> Seq(Message) \cup {None}]]
      BY DEF Inv, Types
  <2> DEFINE x == Subjects[subscriber[c].i]
  <2>3. PICK v \in {<< >>, None} : inbox' \in {inbox, [inbox EXCEPT ![c][x] = v]}
      BY <1>3 DEF Subscriber, Subscribe, Released, Unsubscribe
  <2> HIDE DEF x
  <2>4. PICK i \in [Subject -> Seq(Message) \cup {None}] :
            /\ inbox' = [inbox EXCEPT ![c] = i]
            /\ \A s \in Subject : i[s] \in {inbox[c][s], None, << >>}
    <3>1. CASE inbox' = inbox
        BY <2>2, <3>1
    <3>2. CASE inbox' = [inbox EXCEPT ![c][x] = v]
      <4> DEFINE i == [inbox[c] EXCEPT ![x] = v]
      <4>1. i \in [Subject -> Seq(Message) \cup {None}]
          BY <1>1, <2>2
      <4>2. \A s \in Subject : i[s] \in {inbox[c][s], None, << >>}
          BY <2>2
      <4>3. inbox' = [inbox EXCEPT ![c] = i]
          BY <3>2
      <4>4. QED BY <4>1, <4>2, <4>3
    <3>3. QED BY <2>3, <3>1, <3>2
  <2>5. /\ inbox' \in [Client -> [Subject -> Seq(Message) \cup {None}]]
        /\ \A d \in Client : \A s \in Subject : inbox'[d][s] \in {inbox[d][s], None, << >>}
      BY <2>2, <2>4
  <2>6. QED BY <2>1, <2>5, SubscriptionsKeepInv
<1>4. QED BY <1>2, <1>3

LEMMA CallbackKeepsInv ==
    ASSUME Inv, NEW c \in Client, NEW s \in Subject, Callback(c, s)
    PROVE  Inv'
<1>1. Elsewhere /\ UNCHANGED <<published, received, writer>>
    BY DEF Callback, CallbackBegin, CallbackSend, Elsewhere, link, queue, pumps, world
<1>2. /\ Stages(writer[c].msg, send[c], callback[c], inbox[c]) /\ FlowOf(c)
      /\ callback \in [Client -> [Subject -> Message \cup {None}]]
      /\ inbox \in [Client -> [Subject -> Seq(Message) \cup {None}]]
      /\ send \in [Client -> Seq(Message)]
    BY StagesHold DEF Inv, Types, Flows
<1>3. PICK cb, inb, snd :
          /\ callback' = [callback EXCEPT ![c] = cb]
          /\ inbox' = [inbox EXCEPT ![c] = inb]
          /\ send' = [send EXCEPT ![c] = snd]
          /\ Stages(writer[c].msg, snd, cb, inb)
          /\ Flowing(scope[c], published, received[c], writer[c].msg, snd, cb, inb)
  <2>1. CASE CallbackBegin(c, s)
    <3> DEFINE cb == [callback[c] EXCEPT ![s] = Head(inbox[c][s])]
               inb == [inbox[c] EXCEPT ![s] = Tail(inbox[c][s])]
    <3>1. /\ callback[c][s] = None /\ inbox[c][s] # None /\ inbox[c][s] # << >>
          /\ callback' = [callback EXCEPT ![c] = cb] /\ inbox' = [inbox EXCEPT ![c] = inb]
          /\ send' = [send EXCEPT ![c] = send[c]]
        BY <1>2, <2>1 DEF CallbackBegin, queue
    <3>2. Stages(writer[c].msg, send[c], cb, inb)
          /\ Flowing(scope[c], published, received[c], writer[c].msg, send[c], cb, inb)
        BY <1>2, <3>1, CallbackBeginFlows DEF FlowOf
    <3> HIDE DEF cb, inb
    <3>3. QED BY <3>1, <3>2
  <2>2. CASE CallbackSend(c, s)
    <3> DEFINE cb == [callback[c] EXCEPT ![s] = None]
               snd == IF c \notin sendClosed /\ Len(send[c]) < SendCap
                      THEN Append(send[c], callback[c][s]) ELSE send[c]
    <3>1. /\ callback[c][s] # None
          /\ callback' = [callback EXCEPT ![c] = cb] /\ inbox' = [inbox EXCEPT ![c] = inbox[c]]
          /\ send' = [send EXCEPT ![c] = snd]
        BY <1>2, <2>2 DEF CallbackSend
    <3>2. PutsOrDrops(s, callback[c], cb, send[c], snd)
        BY <3>1 DEF PutsOrDrops
    <3> HIDE DEF snd, cb
    <3>3. Stages(writer[c].msg, snd, cb, inbox[c])
          /\ Flowing(scope[c], published, received[c], writer[c].msg, snd, cb, inbox[c])
        BY <1>2, <3>1, <3>2, CallbackSendFlows DEF FlowOf
    <3>4. QED BY <3>1, <3>3
  <2>3. QED BY <2>1, <2>2 DEF Callback
<1>4. \A d \in Client : /\ callback'[d] = IF d = c THEN cb ELSE callback[d]
                        /\ inbox'[d] = IF d = c THEN inb ELSE inbox[d]
                        /\ send'[d] = IF d = c THEN snd ELSE send[d]
    BY <1>2, <1>3
<1>5. Types'
  <2>1. /\ callback' \in [Client -> [Subject -> Message \cup {None}]]
        /\ inbox' \in [Client -> [Subject -> Seq(Message) \cup {None}]]
        /\ send' \in [Client -> Seq(Message)]
      BY <1>2, <1>3 DEF Stages
  <2>2. QED BY <1>1, <2>1 DEF Inv, Types, Elsewhere
<1>6. Life' /\ Closing'
  <2>1. crashed' => crashed \/ c \in sendClosed
      BY DEF Callback, CallbackBegin, CallbackSend, world
  <2>2. Closing'
      BY <1>1, <2>1 DEF Inv, Closing, Elsewhere
  <2>3. QED BY <1>1, <2>2 DEF Inv, Life, Elsewhere
<1>7. Flows'
  <2> SUFFICES ASSUME NEW d \in Client PROVE FlowOf(d)'
      BY DEF Flows
  <2>1. CASE d = c
      BY <1>1, <1>3, <1>4, <2>1 DEF FlowOf, Elsewhere
  <2>2. CASE d # c
      BY <1>1, <1>4, <2>2 DEF FlowOf, Elsewhere, Inv, Flows
  <2>3. QED BY <2>1, <2>2
<1>8. QED BY <1>5, <1>6, <1>7 DEF Inv

LEMMA PublishKeepsInv ==
    ASSUME Inv, NEW t \in Topic, Publish(t)
    PROVE  Inv'
<1>1. Elsewhere /\ UNCHANGED <<received, send, writer, callback, crashed>>
    BY DEF Publish, Elsewhere, link, queue, pumps
<1>2. published' = [published EXCEPT ![t] = @ + 1] /\ published' \in [Topic -> Nat]
    BY DEF Publish, Inv, Types
<1>3. PICK got \in SUBSET {c \in Client : Matches(c, t) /\ inbox[c][t.subject] # None} :
          inbox' = [c \in Client |->
                       IF c \in got
                       THEN [inbox[c] EXCEPT ![t.subject] =
                                Append(@, [topic |-> t, n |-> published'[t]])]
                       ELSE inbox[c]]
    BY DEF Publish
<1>4. ASSUME NEW c \in Client
      PROVE  Stages(writer[c].msg, send[c], callback[c], inbox'[c]) /\ FlowOf(c)'
  <2>1. Stages(writer[c].msg, send[c], callback[c], inbox[c]) /\ FlowOf(c) /\ published \in [Topic -> Nat]
      BY StagesHold DEF Inv, Flows, Types
  <2>2. \/ inbox'[c] = inbox[c]
        \/ /\ t.tenant \in scope[c] /\ inbox[c][t.subject] # None
           /\ inbox'[c] = [inbox[c] EXCEPT ![t.subject] = Append(@, [topic |-> t, n |-> published'[t]])]
      BY <1>3 DEF Matches
  <2>3. /\ Stages(writer[c].msg, send[c], callback[c], inbox'[c])
        /\ Flowing(scope[c], published', received[c], writer[c].msg, send[c], callback[c], inbox'[c])
    <3>1. Publishes(t, scope[c], published, published', inbox[c], inbox'[c])
        BY <1>2, <2>2 DEF Publishes
    <3>2. QED BY <2>1, <3>1, PublishFlows DEF FlowOf
  <2>4. QED BY <1>1, <2>3 DEF FlowOf, Elsewhere
<1>5. inbox' \in [Client -> [Subject -> Seq(Message) \cup {None}]]
    BY <1>3, <1>4 DEF Stages
<1>6. Types' /\ Life' /\ Closing'
    BY <1>1, <1>2, <1>5 DEF Inv, Types, Life, Closing, Elsewhere
<1>7. QED BY <1>4, <1>6 DEF Inv, Flows

LEMMA NextKeepsInv == Inv /\ [Next]_vars => Inv'
<1> SUFFICES ASSUME Inv, [Next]_vars PROVE Inv'
    OBVIOUS
<1>1. ASSUME NEW c \in Client, Handler(c) \/ Disconnect(c) PROVE Inv'
    BY <1>1, HandlingKeepsInv DEF Handler, Handling
<1>2. ASSUME NEW c \in Client, Writer(c) \/ WriterFails(c) PROVE Inv'
    BY <1>2, StoppingKeepsInv, WriterMovesKeepsInv DEF Writer, Stopping
<1>3. ASSUME NEW c \in Client, Reader(c) PROVE Inv'
    BY <1>3, ReaderKeepsInv
<1>4. ASSUME NEW c \in Client, Subscriber(c) PROVE Inv'
    BY <1>4, SubscriberKeepsInv
<1>5. ASSUME NEW c \in Client, NEW s \in Subject, Callback(c, s) PROVE Inv'
    BY <1>5, CallbackKeepsInv
<1>6. ASSUME NEW t \in Topic, Publish(t) PROVE Inv'
    BY <1>6, PublishKeepsInv
<1>7. CASE Run \/ UNCHANGED vars
    BY <1>7, RunKeepsInv, SubscriberKeepsInv DEF Run
<1>8. QED BY <1>1, <1>2, <1>3, <1>4, <1>5, <1>6, <1>7 DEF Next

(* Whatever the goroutines of the connections interleave, and whenever the *)
(* shutdown comes, the gateway keeps the inductive invariant.              *)
THEOREM InvHolds == Spec => []Inv
BY InitInv, NextKeepsInv, PTL DEF Spec

-----------------------------------------------------------------------------
(* What it says.                                                           *)

(* No client whose pumps have ended is left in gw.clients, and its         *)
(* subscriber has been told.                                               *)
THEOREM ClientsAreForgotten == Spec => []NothingLeftBehind
<1>1. Inv => NothingLeftBehind
    BY DEF Inv, Life, NothingLeftBehind, Gone
<1>2. QED BY <1>1, InvHolds, PTL

(* A callback panics in the shutdown only.                                 *)
THEOREM PanicsInShutdownOnly == Spec => []NoPanicWhileRunning
<1>1. Inv => NoPanicWhileRunning
    BY DEF Inv, Closing, NoPanicWhileRunning
<1>2. QED BY <1>1, InvHolds, PTL

(* Everything a browser is shown, it is shown by writePump, and then it is *)
(* a message that its tenant_id matches, later than those of its topic     *)
(* shown before.                                                           *)
LEMMA SendIsShow ==
    ASSUME Inv, NEW c \in Client, WriterSend(c)
    PROVE  Stream!Next
<1>1. /\ UNCHANGED <<published, scope>>
      /\ received' = [received EXCEPT ![c] = Append(@, writer[c].msg)] /\ writer[c].pc = "write"
    BY DEF WriterSend, Writing, world
<1>2. PICK m \in Message : m = writer[c].msg
    BY <1>1 DEF Inv, Types, Life
<1>3. InHand(m) = {m}
    BY NoneIsNoMessage DEF InHand, Message
<1>4. /\ m \in Possible(scope[c], published)
      /\ Before(ToSet(received[c]), {m})
    BY <1>2, <1>3 DEF Inv, Flows, FlowOf, Flowing, Before
<1>5. /\ m.topic \in Stream!Topic /\ m.n \in 1 .. published[m.topic]
      /\ m.topic.tenant \in scope[c] /\ m = [topic |-> m.topic, n |-> m.n]
    BY <1>4 DEF Possible, Message, Stream!Topic, Topic
<1>6. \A o \in ToSet(received[c]) : o.topic = m.topic => o.n < m.n
    BY <1>4 DEF Before
<1>7. Stream!Show(c, m.topic, m.n)
    BY <1>1, <1>2, <1>5, <1>6 DEF Stream!Show, Stream!ToSet, ToSet
<1>8. QED BY <1>5, <1>7 DEF Stream!Next

LEMMA StepIsStep ==
    ASSUME Inv, [Next]_vars
    PROVE  Stream!Next \/ UNCHANGED <<published, received, scope>>
<1>1. ASSUME NEW t \in Topic, Publish(t) PROVE Stream!Next
  <2>1. Stream!Publish(t)
      BY <1>1 DEF Publish, Stream!Publish, link
  <2>2. QED BY <2>1 DEF Stream!Next, Stream!Topic, Topic
<1>2. ASSUME NEW c \in Client, Handler(c) \/ Disconnect(c)
      PROVE  UNCHANGED <<published, received, scope>>
    BY <1>2 DEF Handler, Upgrade, Register, Disconnect, world
<1>3. ASSUME NEW c \in Client, Writer(c) \/ WriterFails(c), ~ WriterSend(c)
      PROVE  UNCHANGED <<published, received, scope>>
    BY <1>3 DEF Writer, WriterTake, WriterStops, WriterFails, WriterLeaves, WriterCloses, WriterRemoves, Writing, world
<1>4. ASSUME NEW c \in Client, Reader(c)
      PROVE  UNCHANGED <<published, received, scope>>
    BY <1>4 DEF Reader, ReaderFails, ReaderCloses, ReaderRemoves, Reading, world
<1>5. ASSUME NEW c \in Client, Subscriber(c) \/ \E s \in Subject : Callback(c, s)
      PROVE  UNCHANGED <<published, received, scope>>
    BY <1>5 DEF Subscriber, Subscribe, Released, Unsubscribe, Callback, CallbackBegin, CallbackSend, link, world
<1>6. CASE Run \/ UNCHANGED vars
    BY <1>6 DEF Run, Shutdown, NatsClose, ServerStops, vars, link, world
<1>7. QED BY <1>1, <1>2, <1>3, <1>4, <1>5, <1>6, SendIsShow DEF Next

(* To the dashboard the subscriptions, callbacks, channel and pumps of its *)
(* connection are a lossy stream of what its tenant_id matches, each topic *)
(* in the order of publication and nothing twice.                          *)
THEOREM DashboardSeesStream == Spec => ImplementsLossyStream
<1>1. Init => Stream!Init
    BY DEF Init, Stream!Init, Stream!Topic, Topic
<1>2. Inv /\ [Next]_vars => [Stream!Next]_<<published, received, scope>>
    BY StepIsStep
<1>3. QED BY <1>1, <1>2, InvHolds, PTL DEF Spec, ImplementsLossyStream, Stream!Spec

=============================================================================
