------------------------------ MODULE WSManager ------------------------------
(***************************************************************************)
(* The WebSocket client of the dashboard: WSManager of web/src/lib/        *)
(* websocket.ts and the hook useWebSocket that mounts one for each visit   *)
(* of a page.  JavaScript runs each of its callbacks as one step; the      *)
(* browser decides when sockets open, fail and close, and when timers      *)
(* fire.                                                                   *)
(*                                                                         *)
(* disconnect closes the socket, but the socket's onclose then schedules a *)
(* reconnection, and the handler of the page stays subscribed: a manager   *)
(* that is unmounted while its socket lives goes on connecting, beside the *)
(* managers of the pages visited since.                                    *)
(***************************************************************************)
EXTENDS Naturals, FiniteSets, Functions

CONSTANTS
    Manager,   \* bound: one for each visit of a page
    MaxDelay,  \* in units of the first delay of 1000 ms: 30
    SocketID,  \* bound: sockets and timers of a manager alive at the same time
    NoSocket

ConfigAssumption == MaxDelay \in Nat /\ MaxDelay >= 1

VARIABLES
    managers,  \* the fields of each manager
    net        \* do connections succeed and last?

vars == <<managers, net>>

\* Beside the fields, whether the page is mounted and what the browser holds:
\* the state of each socket that has not had its close event, and the pending
\* calls of connect.
New == [mounted |-> "not yet", ws |-> NoSocket, sockets |-> << >>,
        timers |-> {}, reconnectTimer |-> NoSocket, reconnectDelay |-> 1]

Live(x) == DOMAIN x.sockets

Init == managers = [m \in Manager |-> New] /\ net \in BOOLEAN

Becomes(m, S) == (\E x \in S : managers' = [managers EXCEPT ![m] = x]) /\ UNCHANGED net

\* connect: a socket that is open stays, a socket in any other state is replaced.
Connect(x) ==
    IF x.ws \in Live(x) /\ x.sockets[x.ws] = "open" THEN {x}
    ELSE {[x EXCEPT !.ws = s,
                    !.sockets = [o \in Live(x) \cup {s} |->
                                    IF o = s THEN "connecting" ELSE x.sockets[o]]] :
              s \in SocketID \ (Live(x) \cup {x.ws})}

\* One page is shown at a time.
Mount(m) ==
    /\ managers[m].mounted = "not yet"
    /\ \A o \in Manager : managers[o].mounted # "yes"
    /\ Becomes(m, Connect([managers[m] EXCEPT !.mounted = "yes"]))

OnOpen(m, s) ==
    /\ net /\ s \in Live(managers[m]) /\ managers[m].sockets[s] = "connecting"
    /\ Becomes(m, {[managers[m] EXCEPT !.sockets[s] = "open", !.reconnectDelay = 1]})

\* scheduleReconnect: the timer that was remembered is not cleared.
ScheduleReconnect(x) ==
    {[x EXCEPT !.timers = @ \cup {t}, !.reconnectTimer = t] : t \in SocketID \ x.timers}

\* Mutant: an error schedules a reconnection as well.
OnErrorReconnecting(m, s) ==
    /\ ~net /\ s \in Live(managers[m]) /\ managers[m].sockets[s] # "closing"
    /\ Becomes(m, ScheduleReconnect([managers[m] EXCEPT !.sockets[s] = "closing"]))

Closing(x, S) == [x EXCEPT !.sockets = [s \in Live(x) |-> IF s \in S THEN "closing" ELSE @[s]]]

\* The close event of s follows.  The handler closes this.ws, which need not be s.
OnError(m, s) ==
    /\ ~net /\ s \in Live(managers[m]) /\ managers[m].sockets[s] # "closing"
    /\ Becomes(m, {Closing(managers[m], {s, managers[m].ws})})

Without(x, s) == [x EXCEPT !.sockets = Restrict(@, Live(x) \ {s})]

\* Mutant: a reconnection is scheduled only for a socket that was open.
OnCloseOfOpen(m, s) ==
    LET x == managers[m]
    IN  /\ s \in Live(x) /\ (x.sockets[s] = "closing" \/ ~net)
        /\ Becomes(m, IF x.sockets[s] = "open" THEN ScheduleReconnect(Without(x, s))
                      ELSE {Without(x, s)})

\* Closed by this side, or by the server at any time of a bad one.
OnClose(m, s) ==
    /\ s \in Live(managers[m]) /\ (managers[m].sockets[s] = "closing" \/ ~net)
    /\ Becomes(m, ScheduleReconnect(Without(managers[m], s)))

Doubled(d) == IF d * 2 > MaxDelay THEN MaxDelay ELSE d * 2

TimerFires(m, t) ==
    /\ t \in managers[m].timers
    /\ Becomes(m, Connect([managers[m] EXCEPT !.timers = @ \ {t},
                                              !.reconnectDelay = Doubled(@)]))

\* The page is left.  Its handler is not unsubscribed.
Disconnect(m) ==
    LET x == managers[m]
    IN  /\ x.mounted = "yes"
        /\ Becomes(m, {[Closing(x, {x.ws}) EXCEPT !.mounted = "no more",
                                                  !.timers = @ \ {x.reconnectTimer},
                                                  !.ws = NoSocket]})

NetChanges == net' = ~net /\ UNCHANGED managers

Browser(m) == \E s \in SocketID :
                 OnOpen(m, s) \/ OnError(m, s) \/ OnClose(m, s) \/ TimerFires(m, s)

Next == NetChanges \/ \E m \in Manager : Mount(m) \/ Disconnect(m) \/ Browser(m)

\* A connection attempt ends, one way or the other, and a timer fires.
Spec == Init /\ [][Next]_vars /\ \A m \in Manager : WF_vars(Browser(m))

-----------------------------------------------------------------------------
(* The type invariant.                                                     *)
Typed(x) ==
    /\ x = [mounted |-> x.mounted, ws |-> x.ws, sockets |-> x.sockets, timers |-> x.timers,
            reconnectTimer |-> x.reconnectTimer, reconnectDelay |-> x.reconnectDelay]
    /\ x.mounted \in {"not yet", "yes", "no more"}
    /\ Live(x) \subseteq SocketID
    /\ \A s \in Live(x) : x.sockets[s] \in {"connecting", "open", "closing"}
    /\ x.ws \in SocketID \cup {NoSocket}
    /\ x.timers \subseteq SocketID /\ x.reconnectTimer \in SocketID \cup {NoSocket}
    /\ x.reconnectDelay \in 1 .. MaxDelay

TypeOK == /\ managers = [m \in Manager |-> managers[m]]
          /\ \A m \in Manager : Typed(managers[m])
          /\ net \in BOOLEAN

Connected(x) == x.ws \in Live(x) /\ x.sockets[x.ws] = "open"

(* However sockets fail and close, a manager never has two connections or  *)
(* attempts at the same time, and none while another is to come, also when *)
(* its page has been left.  So the dashboard has as many connections as    *)
(* pages have been visited, at most.  (It may have as many: the managers   *)
(* of pages that were left go on, and each handles every message again.)   *)
OneConnectionEach ==
    \A m \in Manager :
        Cardinality(Live(managers[m])) + Cardinality(managers[m].timers)
            <= IF managers[m].mounted = "not yet" THEN 0 ELSE 1

(* The page that is shown is connected again once the network is good,     *)
(* whatever the managers of other pages do.                                *)
StaysConnected ==
    \A m \in Manager :
        <>[](managers[m].mounted = "yes" /\ net) => <>[]Connected(managers[m])
=============================================================================
