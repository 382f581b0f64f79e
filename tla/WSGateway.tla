------------------------------ MODULE WSGateway ------------------------------
(***************************************************************************)
(* pkg/api/websocket.go, with the shutdown of pkg/api/server.go around it. *)
(* A WebSocket connection has three goroutines: writePump sends what comes *)
(* out of a bounded channel, readPump waits for the connection to fail and *)
(* closes done, subscribeForClient subscribes to NATS and unsubscribes at  *)
(* done.  The NATS client runs the callback of each subscription in a      *)
(* goroutine of its own, and the callback puts the message into the        *)
(* channel, or drops it when there is no room.                             *)
(*                                                                         *)
(* A client is one connection.  Accesses to gw.clients are atomic, under   *)
(* gw.mu.  A send on a closed channel ends the process, also in a select   *)
(* with a default.                                                         *)
(***************************************************************************)
EXTENDS Integers, FiniteSets, Sequences, FiniteSetsExt, SequencesExt

CONSTANTS Client,         \* the connections
          Tenant,
          Subjects,       \* flows, metrics, training: a sequence
          SendCap,        \* capacity of a client's channel (256)
          MaxMsgs,        \* bound: how many messages are published
          None

Subject == ToSet(Subjects)
Topic == [tenant : Tenant, subject : Subject]
Msg == [topic : Topic, n : 1 .. MaxMsgs]

ASSUME ChannelHasRoom == SendCap \in Nat \ {0}
ASSUME MessagesAreBounded == MaxMsgs \in Nat
ASSUME NoneIsNoMessage == None \notin [topic : Topic, n : Nat]
ASSUME SubjectsDiffer == Subjects \in Seq(Subject) /\ IsInjective(Subjects)

VARIABLES
    scope,        \* the tenants that the tenant_id of each connection's request matches
    conn,         \* the connection: none, upgraded, open (goroutines started), closed
    clients,      \* gw.clients
    send,         \* c.send, oldest first
    sendClosed,   \* the clients whose c.send has been closed
    done,         \* the clients whose c.done has been closed
    writer,       \* writePump: where it is, and the message in its hands
    reader,       \* readPump
    subscriber,   \* subscribeForClient: where it is, and the index in Subjects
    inbox,        \* per subscription, what NATS has delivered; None where there is none
    callback,     \* per subscription, the message in the callback's hands
    server,       \* Run: running, then the steps of the shutdown, then stopped
    crashed,      \* a goroutine has panicked
    published,    \* NATS: how many messages each topic has had
    received      \* the browser: what it has been sent

link == <<scope, conn>>
queue == <<send, sendClosed>>
pumps == <<writer, reader>>
subs == <<subscriber, inbox, callback>>
world == <<server, crashed, published>>
vars == <<link, clients, queue, done, pumps, subs, world, received>>

(* The tenant_id is put into the subject of a subscription as it was given, *)
(* so it is a pattern of NATS: it may match one tenant, none or several.   *)
(* What it matches is the connection's scope.                              *)
Matches(c, t) == t.tenant \in scope[c]

Init ==
    /\ scope \in [Client -> SUBSET Tenant]
    /\ conn = [c \in Client |-> "none"]
    /\ clients = {} /\ sendClosed = {} /\ done = {}
    /\ send = [c \in Client |-> << >>]
    /\ writer = [c \in Client |-> [pc |-> "none", msg |-> None]]
    /\ reader = [c \in Client |-> "none"]
    /\ subscriber = [c \in Client |-> [pc |-> "none", i |-> 1]]
    /\ inbox = [c \in Client |-> [s \in Subject |-> None]]
    /\ callback = [c \in Client |-> [s \in Subject |-> None]]
    /\ server = "running" /\ crashed = FALSE
    /\ published = [t \in Topic |-> 0]
    /\ received = [c \in Client |-> << >>]

-----------------------------------------------------------------------------
(* HandleWebSocket.  A request that names no tenant leaves nothing behind. *)

Upgrade(c) ==
    /\ conn[c] = "none"
    /\ conn' = [conn EXCEPT ![c] = "upgraded"]
    /\ UNCHANGED <<scope, clients, queue, done, pumps, subs, world, received>>

\* Mutant: the client is registered after its goroutines have been started.
RegisterLate(c) ==
    /\ \/ /\ conn[c] = "upgraded"
          /\ conn' = [conn EXCEPT ![c] = "open"]
          /\ writer' = [writer EXCEPT ![c].pc = "select"]
          /\ reader' = [reader EXCEPT ![c] = "reading"]
          /\ subscriber' = [subscriber EXCEPT ![c].pc = "subscribing"]
          /\ UNCHANGED clients
       \/ /\ conn[c] \in {"open", "closed"}
          /\ clients' = clients \cup {c}
          /\ UNCHANGED <<conn, pumps, subscriber>>
    /\ UNCHANGED <<scope, queue, done, inbox, callback, world, received>>

\* The client is registered before its goroutines are started.
Register(c) ==
    /\ conn[c] = "upgraded"
    /\ conn' = [conn EXCEPT ![c] = "open"]
    /\ clients' = clients \cup {c}
    /\ writer' = [writer EXCEPT ![c].pc = "select"]
    /\ reader' = [reader EXCEPT ![c] = "reading"]
    /\ subscriber' = [subscriber EXCEPT ![c].pc = "subscribing"]
    /\ UNCHANGED <<scope, queue, done, inbox, callback, world, received>>

\* The browser, or the network between.
Disconnect(c) ==
    /\ conn[c] = "open"
    /\ conn' = [conn EXCEPT ![c] = "closed"]
    /\ UNCHANGED <<scope, clients, queue, done, pumps, subs, world, received>>

-----------------------------------------------------------------------------
(* writePump.  Its select takes any case that is ready.                    *)

Writing == UNCHANGED <<scope, sendClosed, done, reader, subs, world>>

WriterTake(c) ==
    /\ writer[c].pc = "select"
    /\ send[c] # << >>
    /\ writer' = [writer EXCEPT ![c] = [pc |-> "write", msg |-> Head(send[c])]]
    /\ send' = [send EXCEPT ![c] = Tail(@)]
    /\ UNCHANGED <<conn, clients, received>> /\ Writing

WriterSend(c) ==
    /\ writer[c].pc = "write"
    /\ conn[c] = "open"
    /\ received' = [received EXCEPT ![c] = Append(@, writer[c].msg)]
    /\ writer' = [writer EXCEPT ![c] = [pc |-> "select", msg |-> None]]
    /\ UNCHANGED <<conn, clients, send>> /\ Writing

WriterLeaves(c) ==
    /\ writer' = [writer EXCEPT ![c] = [pc |-> "closing", msg |-> None]]
    /\ UNCHANGED <<conn, clients, send, received>> /\ Writing

\* A write or, at any time, a ping fails: the peer is gone or too slow.
WriterFails(c) == writer[c].pc \in {"select", "write"} /\ WriterLeaves(c)

WriterStops(c) ==
    /\ writer[c].pc = "select"
    /\ c \in done \/ (c \in sendClosed /\ send[c] = << >>)
    /\ WriterLeaves(c)

\* Mutant: writePump returns without closing the connection.
WriterClosesNot(c) ==
    /\ writer[c].pc = "closing"
    /\ writer' = [writer EXCEPT ![c].pc = "removing"]
    /\ UNCHANGED <<conn, clients, send, received>> /\ Writing

WriterCloses(c) ==
    /\ writer[c].pc = "closing"
    /\ conn' = [conn EXCEPT ![c] = "closed"]
    /\ writer' = [writer EXCEPT ![c].pc = "removing"]
    /\ UNCHANGED <<clients, send, received>> /\ Writing

\* Mutant: removeClient closes the channel too, so that no message waits for ever.
WriterRemovesAndCloses(c) ==
    /\ writer[c].pc = "removing"
    /\ clients' = clients \ {c}
    /\ sendClosed' = sendClosed \cup {c}
    /\ writer' = [writer EXCEPT ![c].pc = "gone"]
    /\ UNCHANGED <<link, send, done, reader, subs, world, received>>

WriterRemoves(c) ==
    /\ writer[c].pc = "removing"
    /\ clients' = clients \ {c}
    /\ writer' = [writer EXCEPT ![c].pc = "gone"]
    /\ UNCHANGED <<conn, send, received>> /\ Writing

-----------------------------------------------------------------------------
(* readPump.  The read fails when the connection is closed, or when no     *)
(* pong has come for 60 seconds.                                           *)

Reading == UNCHANGED <<scope, queue, writer, subs, world, received>>

\* Mutant: done is left to writePump.
ReaderFailsOpen(c) ==
    /\ reader[c] = "reading"
    /\ reader' = [reader EXCEPT ![c] = "closing"]
    /\ UNCHANGED <<conn, clients, done>> /\ Reading

ReaderFails(c) ==
    /\ reader[c] = "reading"
    /\ done' = done \cup {c}
    /\ reader' = [reader EXCEPT ![c] = "closing"]
    /\ UNCHANGED <<conn, clients>> /\ Reading

ReaderCloses(c) ==
    /\ reader[c] = "closing"
    /\ conn' = [conn EXCEPT ![c] = "closed"]
    /\ reader' = [reader EXCEPT ![c] = "removing"]
    /\ UNCHANGED <<clients, done>> /\ Reading

ReaderRemoves(c) ==
    /\ reader[c] = "removing"
    /\ clients' = clients \ {c}
    /\ reader' = [reader EXCEPT ![c] = "gone"]
    /\ UNCHANGED <<conn, done>> /\ Reading

-----------------------------------------------------------------------------
(* subscribeForClient.                                                     *)

NatsOpen == server \in {"running", "gateway"}
Next1(c, then) == IF subscriber[c].i < Len(Subjects)
                  THEN [subscriber[c] EXCEPT !.i = @ + 1]
                  ELSE [pc |-> then, i |-> 1]

\* A subscription that fails is logged and left out.
Subscribe(c) ==
    /\ subscriber[c].pc = "subscribing"
    /\ subscriber' = [subscriber EXCEPT ![c] = Next1(c, "waiting")]
    /\ \/ NatsOpen /\ inbox' = [inbox EXCEPT ![c][Subjects[subscriber[c].i]] = << >>]
       \/ UNCHANGED inbox
    /\ UNCHANGED <<link, clients, queue, done, pumps, callback, world, received>>

Released(c) ==
    /\ subscriber[c].pc = "waiting"
    /\ c \in done
    /\ subscriber' = [subscriber EXCEPT ![c].pc = "unsubscribing"]
    /\ UNCHANGED <<link, clients, queue, done, pumps, inbox, callback, world, received>>

Unsubscribe(c) ==
    /\ subscriber[c].pc = "unsubscribing"
    /\ subscriber' = [subscriber EXCEPT ![c] = Next1(c, "gone")]
    /\ inbox' = [inbox EXCEPT ![c][Subjects[subscriber[c].i]] = None]
    /\ UNCHANGED <<link, clients, queue, done, pumps, callback, world, received>>

-----------------------------------------------------------------------------
(* The NATS client.  What is published while a subscription is not up, or  *)
(* while the connection is down, does not arrive.                          *)

Publish(t) ==
    /\ MapThenSumSet(LAMBDA u : published[u], Topic) < MaxMsgs
    /\ published' = [published EXCEPT ![t] = @ + 1]
    /\ \E got \in SUBSET {c \in Client : Matches(c, t) /\ inbox[c][t.subject] # None} :
          inbox' = [c \in Client |->
                       IF c \in got
                       THEN [inbox[c] EXCEPT ![t.subject] =
                                Append(@, [topic |-> t, n |-> published'[t]])]
                       ELSE inbox[c]]
    /\ UNCHANGED <<link, clients, queue, done, pumps, subscriber, callback,
                   server, crashed, received>>

\* Mutant: a callback does not wait for the one before.
CallbackBeginAny(c, s) ==
    /\ callback[c][s] = None
    /\ inbox[c][s] \notin {None, << >>}
    /\ \E m \in ToSet(inbox[c][s]) :
          /\ callback' = [callback EXCEPT ![c][s] = m]
          /\ inbox' = [inbox EXCEPT ![c][s] = SelectSeq(@, LAMBDA o : o # m)]
    /\ UNCHANGED <<link, clients, queue, done, pumps, subscriber, world, received>>

CallbackBegin(c, s) ==
    /\ callback[c][s] = None
    /\ inbox[c][s] \notin {None, << >>}
    /\ callback' = [callback EXCEPT ![c][s] = Head(inbox[c][s])]
    /\ inbox' = [inbox EXCEPT ![c][s] = Tail(@)]
    /\ UNCHANGED <<link, clients, queue, done, pumps, subscriber, world, received>>

\* Whether or not the client still has a writer.
CallbackSend(c, s) ==
    /\ callback[c][s] # None
    /\ callback' = [callback EXCEPT ![c][s] = None]
    /\ crashed' = (c \in sendClosed)
    /\ send' = IF c \notin sendClosed /\ Len(send[c]) < SendCap
               THEN [send EXCEPT ![c] = Append(@, callback[c][s])]
               ELSE send
    /\ UNCHANGED <<link, clients, sendClosed, done, pumps, subscriber, inbox,
                   server, published, received>>

-----------------------------------------------------------------------------
(* Server.Run after cancellation: the gateway, the NATS connection, then   *)
(* the HTTP server, which knows nothing of upgraded connections.           *)

Shutdown ==
    /\ server = "running"
    /\ server' = "gateway"
    /\ sendClosed' = clients
    /\ UNCHANGED <<link, clients, send, done, pumps, subs, crashed, published, received>>

NatsClose ==
    /\ server = "gateway"
    /\ server' = "nats"
    /\ inbox' = [c \in Client |-> [s \in Subject |-> None]]
    /\ UNCHANGED <<link, clients, queue, done, pumps, subscriber, callback,
                   crashed, published, received>>

ServerStops ==
    /\ server = "nats"
    /\ server' = "stopped"
    /\ UNCHANGED <<link, clients, queue, done, pumps, subs, crashed, published, received>>

-----------------------------------------------------------------------------
Handler(c) == Upgrade(c) \/ Register(c)
Writer(c) == \/ WriterTake(c) \/ WriterSend(c) \/ WriterStops(c)
             \/ WriterCloses(c) \/ WriterRemoves(c)
Reader(c) == ReaderFails(c) \/ ReaderCloses(c) \/ ReaderRemoves(c)
Subscriber(c) == Subscribe(c) \/ Released(c) \/ Unsubscribe(c)
Callback(c, s) == CallbackBegin(c, s) \/ CallbackSend(c, s)
Run == Shutdown \/ NatsClose \/ ServerStops

Up == server # "stopped" /\ ~crashed

Next ==
    /\ Up
    /\ \/ \E c \in Client : \/ Handler(c) \/ Disconnect(c)
                            \/ Writer(c) \/ WriterFails(c) \/ Reader(c) \/ Subscriber(c)
                            \/ \E s \in Subject : Callback(c, s)
       \/ \E t \in Topic : Publish(t)
       \/ Run

Spec == Init /\ [][Next]_vars

(* Goroutines are scheduled.  A write or a ping of a connection that is    *)
(* closed fails, and so does the read; a select to which the loop comes    *)
(* back takes done in the end.                                             *)
Fairness ==
    \A c \in Client :
        /\ WF_vars(Up /\ (Writer(c) \/ (conn[c] = "closed" /\ WriterFails(c))))
        /\ SF_vars(Up /\ WriterStops(c))
        /\ WF_vars(Up /\ (ReaderCloses(c) \/ ReaderRemoves(c)))
        /\ WF_vars(Up /\ conn[c] = "closed" /\ ReaderFails(c))
        /\ WF_vars(Up /\ Subscriber(c))

FairSpec == Spec /\ Fairness

-----------------------------------------------------------------------------
(* The type invariant.  No client has more than SendCap messages waiting.  *)
TypeOK ==
    /\ scope \in [Client -> SUBSET Tenant]
    /\ conn \in [Client -> {"none", "upgraded", "open", "closed"}]
    /\ clients \cup sendClosed \cup done \subseteq Client
    /\ \A c \in Client : send[c] \in Seq(Msg) /\ Len(send[c]) <= SendCap
    /\ writer \in [Client -> [pc : {"none", "select", "write", "closing", "removing", "gone"},
                              msg : Msg \cup {None}]]
    /\ reader \in [Client -> {"none", "reading", "closing", "removing", "gone"}]
    /\ subscriber \in [Client -> [pc : {"none", "subscribing", "waiting", "unsubscribing", "gone"},
                                  i : 1 .. Len(Subjects)]]
    /\ \A c \in Client : \A s \in Subject : inbox[c][s] \in Seq(Msg) \cup {None}
    /\ callback \in [Client -> [Subject -> Msg \cup {None}]]
    /\ server \in {"running", "gateway", "nats", "stopped"}
    /\ crashed \in BOOLEAN
    /\ published \in [Topic -> 0 .. MaxMsgs]
    /\ \A c \in Client : received[c] \in Seq(Msg)

(* A browser sees a lossy stream: what is published on the topics that its *)
(* tenant_id matches, each topic in order and nothing twice, through one   *)
(* queue per subscription, one channel, and losses at each of them.  That  *)
(* the tenant_id matches the browser's own tenant only, nothing ensures.   *)
Stream == INSTANCE LossyStream

ImplementsLossyStream == Stream!Spec

(* Nobody remembers a client whose pumps have ended: both remove it,       *)
(* whichever is first, and neither does so before it has been registered.  *)
(* So gw.clients holds no client for ever, and subscribeForClient has been *)
(* told.                                                                   *)
Gone(c) == writer[c].pc = "gone" /\ reader[c] = "gone"

NothingLeftBehind ==
    \A c \in Client : Gone(c) => c \notin clients /\ c \in done /\ conn[c] = "closed"

(* "On client disconnect, NATS subscriptions are drained and cleaned up"   *)
(* (docs/PRD-and-Functional-Spec.md, WebSocket Lifecycle): once either     *)
(* side has closed the connection, every goroutine of the client returns,  *)
(* its subscriptions are gone and the gateway has forgotten it, whatever   *)
(* each of them was doing.  (Not drained: Unsubscribe drops what has been  *)
(* delivered and not yet handled, for which there is no reader left.)      *)
DisconnectIsCleanedUp ==
    \A c \in Client :
        conn[c] = "closed" ~> \/ Gone(c) /\ c \notin clients /\ subscriber[c].pc = "gone"
                              \/ ~Up

(* The channel of a client is emptied by its writePump, or the connection  *)
(* ends: no client holds messages for ever.                                *)
ChannelIsEmptied ==
    \A c \in Client :
        send[c] # << >> /\ conn[c] = "open" ~> send[c] = << >> \/ conn[c] = "closed" \/ ~Up

(* While the server is meant to run no callback sends on a closed channel, *)
(* although callbacks go on after their client has been removed and even   *)
(* after it has unsubscribed.  In the shutdown one may: Shutdown closes    *)
(* the channels before the NATS connection is closed.                      *)
NoPanicWhileRunning == crashed => server # "running"
=============================================================================
