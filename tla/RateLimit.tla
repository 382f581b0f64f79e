------------------------------ MODULE RateLimit ------------------------------
(***************************************************************************)
(* RateLimit of pkg/store/redis/client.go: a sliding window kept as a      *)
(* sorted set in Redis.  A call reads its clock once and sends a pipeline  *)
(* of commands that trim the set, count it, add the moment of the call and *)
(* renew the expiry of the key.  A pipeline is not a transaction: Redis    *)
(* may serve commands of other calls in between.  The member that is added *)
(* is the millisecond itself, so calls of one millisecond are one member,  *)
(* and a refused call is added like an admitted one.  The expiry is sent   *)
(* in whole seconds, of which the client drops the fraction.               *)
(***************************************************************************)
EXTENDS Integers, FiniteSets

CONSTANTS Caller, Limit,
          Window,   \* in milliseconds
          Second,   \* 1000 milliseconds
          MaxDelay, \* the time after which the client gives a call up
          MaxTime   \* bound: the clock stops there

\* What EXPIRE is told: whole seconds, and one at least.
Expiry == IF Window < Second THEN Second ELSE (Window \div Second) * Second

\* How long a moment counts: it leaves the window, or the key expires under it.
Span == IF Expiry < Window THEN Expiry ELSE Window

\* A client gives a call up long before its moment has ceased to count.
ConfigAssumption ==
    /\ IsFiniteSet(Caller) /\ Limit \in Nat \ {0} /\ Window \in Nat
    /\ Second \in Nat \ {0}
    /\ MaxDelay \in Nat /\ MaxDelay < Span
    /\ MaxTime \in Nat /\ Window <= MaxTime

VARIABLES
    now,       \* the clock in milliseconds
    zset,      \* the members of the key, which are their own scores
    expireAt,  \* when Redis drops the key
    call,      \* each caller: its place in the pipeline, its clock reading, its count
    admitted   \* history: the moments of the last calls that have been answered true

vars == <<now, zset, expireAt, call, admitted>>

Never == MaxTime + Expiry + 1
Idle == [pc |-> "idle", at |-> 0, count |-> 0]

Init ==
    /\ now = Window /\ zset = {} /\ expireAt = Never /\ admitted = {}
    /\ call = [c \in Caller |-> Idle]

Begin(c) ==
    /\ call[c] = Idle
    /\ call' = [call EXCEPT ![c] = [pc |-> "trim", at |-> now, count |-> 0]]
    /\ UNCHANGED <<now, zset, expireAt, admitted>>

\* Mutant: the set is trimmed down to the moment of the call.
TrimmedWhole(z, at) == {m \in z : m > at}

Trimmed(z, at) == {m \in z : m > at - Window}

\* A key without members is gone, and its expiry with it.
ZRemRangeByScore(c) ==
    /\ call[c].pc = "trim"
    /\ zset' = Trimmed(zset, call[c].at)
    /\ expireAt' = IF zset' = {} THEN Never ELSE expireAt
    /\ call' = [call EXCEPT ![c].pc = "card"]
    /\ UNCHANGED <<now, admitted>>

ZCard(c) ==
    /\ call[c].pc = "card"
    /\ call' = [call EXCEPT ![c] = [pc |-> "add", at |-> @.at, count |-> Cardinality(zset)]]
    /\ UNCHANGED <<now, zset, expireAt, admitted>>

ZAdd(c) ==
    /\ call[c].pc = "add"
    /\ zset' = zset \cup {call[c].at}
    /\ call' = [call EXCEPT ![c].pc = "expire"]
    /\ UNCHANGED <<now, expireAt, admitted>>

\* The last command.  The replies come back together: the call is decided, or
\* returns an error although Redis has served it.
Expire(c) ==
    /\ call[c].pc = "expire"
    /\ expireAt' = IF zset = {} THEN Never ELSE now + Expiry
    /\ call' = [call EXCEPT ![c] = Idle]
    /\ admitted' \in {admitted, IF call[c].count < Limit THEN admitted \cup {call[c].at}
                                ELSE admitted}
    /\ UNCHANGED <<now, zset>>

\* The connection fails before all commands have been served.
ExecFails(c) ==
    /\ call[c].pc # "idle"
    /\ call' = [call EXCEPT ![c] = Idle]
    /\ UNCHANGED <<now, zset, expireAt, admitted>>

Tick ==
    /\ now < MaxTime
    /\ \A c \in Caller : call[c] # Idle => now < call[c].at + MaxDelay
    /\ now' = now + 1
    /\ IF now' >= expireAt THEN zset' = {} /\ expireAt' = Never
       ELSE UNCHANGED <<zset, expireAt>>
    /\ admitted' = {m \in admitted : m > now' - Span}
    /\ UNCHANGED call

Next == \/ Tick
        \/ \E c \in Caller : \/ Begin(c) \/ ZRemRangeByScore(c) \/ ZCard(c)
                             \/ ZAdd(c) \/ Expire(c) \/ ExecFails(c)

Spec == Init /\ [][Next]_vars

-----------------------------------------------------------------------------
(* The type invariant.                                                     *)
TypeOK ==
    /\ now \in Window .. MaxTime
    /\ zset \subseteq Window .. now
    /\ expireAt \in Window .. Never
    /\ call \in [Caller -> [pc : {"idle", "trim", "card", "add", "expire"},
                            at : 0 .. MaxTime, count : Nat]]
    /\ admitted \subseteq Window .. now

(* How far the limit holds: not for the window, but for the time that a    *)
(* moment counts, shorter by the longest call, which may read its clock    *)
(* and then wait while the key expires.  In such a time the moments with   *)
(* an admitted call are fewer than the limit and two for each caller: each *)
(* may be between its count and its addition, and each may have made its   *)
(* addition to a key that expires before it is renewed, so that the moment *)
(* is not counted.  The latter takes a limit above one: a call that counts *)
(* nothing finds no key that could expire.  (The calls of one moment are   *)
(* one member and are not bounded, and neither are the moments of a window *)
(* that is not of whole seconds: its key expires before it is over.)       *)
MomentsBounded ==
    LET uncounted == IF Limit = 1 THEN 0 ELSE Cardinality(Caller)
    IN  \A t \in Window .. now :
            Cardinality({m \in admitted : m > t - (Span - MaxDelay) /\ m <= t})
                <= Limit - 1 + Cardinality(Caller) + uncounted
=============================================================================
