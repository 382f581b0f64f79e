----------------------------- MODULE ApiQueries -----------------------------
(***************************************************************************)
(* GET /api/v1/flows of the API server: JWTAuth, ListFlows and QueryFlows  *)
(* over the table that the aggregator writes, for a client that fetches    *)
(* page after page by offset until a page is not full.                     *)
(*                                                                         *)
(* Pages are queries of their own.  Between them, and between the count    *)
(* and the data of one page, rows are written and old rows expire; rows    *)
(* that are equal in the sort column come in any order, another one each   *)
(* time; and QueryFlows does not look at rows.Err, so that a page cut      *)
(* short by an error is answered like a last page.                         *)
(***************************************************************************)
EXTENDS Integers, Sequences, SequencesExt, FiniteSets, FiniteSetsExt

CONSTANTS
    Kind,       \* rows apart from their number and time: [tenant, node, protocol, bytes]
    Token,      \* a tenant, or NoTenant: no token, or one without a tenant
    NoTenant,
    Request,    \* the parameters of a session's requests, as they come in the URL
    Unparsable, \* a parameter that is no number
    DefaultLimit, MaxLimit,  \* 100 and 10000
    TTL,        \* of rows in the table (30 days)
    MaxRows, MaxTime         \* bounds: rows written, the clock

\* The defaults are sensible, and the bytes of a flow are a number.
ConfigAssumption ==
    /\ DefaultLimit \in Nat \ {0} /\ MaxLimit \in Nat
    /\ \A k \in Kind : k.bytes \in Nat

VARIABLES
    table,    \* the rows
    clock,    \* in milliseconds, the precision of a row's timestamp
    written,  \* the number of rows written so far
    session,  \* the client's session and the server's state of its request
    serving   \* is the connection to the database open?

vars == <<table, clock, written, session, serving>>

NoSession == [at |-> "none"]
Denied == [at |-> "denied"]
Failed == [at |-> "failed"]

\* Bound: one session, with whose end, or with the server's, the world ends.
Going == serving /\ session.at \notin {"denied", "failed", "done"}

Init ==
    /\ table = {} /\ clock = 1 /\ written = 0 /\ serving = TRUE
    /\ session = NoSession

-----------------------------------------------------------------------------
(* The table.                                                              *)

\* A batch appears as a whole.  Its rows are stamped within a millisecond.
WriteFlows ==
    /\ Going
    /\ \E ks \in UNION {[1 .. n -> Kind] : n \in 1 .. MaxRows - written} :
          /\ table' = table \cup {[id |-> written + i, timestamp |-> clock, kind |-> ks[i]] :
                                      i \in DOMAIN ks}
          /\ written' = written + Len(ks)
    /\ UNCHANGED <<clock, session, serving>>

Tick ==
    /\ Going /\ clock < MaxTime
    /\ clock' = clock + 1
    /\ UNCHANGED <<table, written, session, serving>>

-----------------------------------------------------------------------------
(* ListFlows and QueryFlows.                                               *)

\* Parameters that do not parse are ignored, like absent ones.  (The document
\* promises an answer of 400 for them.)
Parsed(v) == IF v = Unparsable THEN 0 ELSE v

\* Mutant: a query is not scoped to its tenant.
WhereAnyTenant(q) ==
    {r \in table : /\ q.node # "" => r.kind.node = q.node
                   /\ Parsed(q.startTime) # 0 => r.timestamp >= Parsed(q.startTime)
                   /\ Parsed(q.endTime) # 0 => r.timestamp <= Parsed(q.endTime)
                   /\ Parsed(q.protocol) # 0 => r.kind.protocol = Parsed(q.protocol)}

\* Mutant: the end of the time range is parsed and not used, as the addresses are.
WhereOpenEnded(q) ==
    {r \in table : /\ r.kind.tenant = q.token
                   /\ q.node # "" => r.kind.node = q.node
                   /\ Parsed(q.startTime) # 0 => r.timestamp >= Parsed(q.startTime)
                   /\ Parsed(q.protocol) # 0 => r.kind.protocol = Parsed(q.protocol)}

\* The addresses of a request are parsed into the query and not used.
Where(q) ==
    {r \in table : /\ r.kind.tenant = q.token
                   /\ q.node # "" => r.kind.node = q.node
                   /\ Parsed(q.startTime) # 0 => r.timestamp >= Parsed(q.startTime)
                   /\ Parsed(q.endTime) # 0 => r.timestamp <= Parsed(q.endTime)
                   /\ Parsed(q.protocol) # 0 => r.kind.protocol = Parsed(q.protocol)}

\* Rows past their time are removed by merges, not all at once.  The session
\* notes it when a row that matches goes.
Expire ==
    /\ Going
    /\ \E r \in table :
          /\ r.timestamp + TTL < clock
          /\ table' = table \ {r}
          /\ session' = IF session # NoSession /\ r \in Where(session.query)
                        THEN [session EXCEPT !.intact = FALSE] ELSE session
    /\ UNCHANGED <<clock, written, serving>>

\* A limit that is out of range is replaced by the default one.
LimitOf(q) == IF Parsed(q.limit) \in 1 .. MaxLimit THEN q.limit ELSE DefaultLimit

\* The sort order counts only together with a column that may be sorted by.
SortKey(q, r) ==
    LET column == IF q.sortBy = "bytes" THEN r.kind.bytes ELSE r.timestamp
    IN  IF q.sortBy \in {"bytes", "timestamp"} /\ q.sortOrder = "asc" THEN column ELSE -column

\* Mutant: the rows are not sorted.
OrderingsAny(q, rows) == SetToSeqs(rows)

Orderings(q, rows) ==
    {o \in SetToSeqs(rows) : IsSorted(o, LAMBDA a, b : SortKey(q, a) <= SortKey(q, b))}

Page(q, offset, order) ==
    SubSeq(order, offset + 1, Min({offset + LimitOf(q), Len(order)}))

\* The first request of a session.  JWTAuth answers 401 or 403 without a tenant.
Open ==
    /\ session = NoSession
    /\ \E t \in Token, p \in Request :
          LET q == [token |-> t] @@ p
          IN  session' = IF t = NoTenant THEN Denied
                         ELSE [at |-> "count", query |-> q, offset |-> 0, rows |-> 0,
                               seen |-> {}, before |-> Where(q),
                               intact |-> TRUE, whole |-> TRUE]
    /\ UNCHANGED <<table, clock, written, serving>>

\* The count goes into the answer, whatever the data query finds.
CountQuery ==
    /\ session.at = "count" /\ serving
    /\ session' = [session EXCEPT !.at = "data"]
    /\ UNCHANGED <<table, clock, written, serving>>

\* The rows arrive, all of them or as many as came before an error.
DataQuery ==
    /\ session.at = "data" /\ serving
    /\ \E order \in Orderings(session.query, Where(session.query)) :
          LET page == Page(session.query, session.offset, order)
          IN  \E n \in 0 .. Len(page) :
                 session' = [session EXCEPT
                     !.at = "page",
                     !.seen = @ \cup ToSet(SubSeq(page, 1, n)),
                     !.rows = n,
                     !.whole = @ /\ n = Len(page)]
    /\ UNCHANGED <<table, clock, written, serving>>

\* Either query fails, as both do once the reader is closed: 500.
QueryFails ==
    /\ session.at \in {"count", "data"}
    /\ session' = Failed
    /\ UNCHANGED <<table, clock, written, serving>>

\* The client asks for the next page until one is not full.
Asked(q) == IF q.limit = 0 THEN DefaultLimit ELSE Parsed(q.limit)

NextPage ==
    /\ session.at = "page"
    /\ session' =
          IF session.rows < Asked(session.query) THEN [session EXCEPT !.at = "done"]
          ELSE [session EXCEPT !.at = "count", !.offset = @ + session.rows]
    /\ UNCHANGED <<table, clock, written, serving>>

-----------------------------------------------------------------------------
(* Server.Run.  At the end of the context the reader is closed while the   *)
(* HTTP server still takes requests, which are answered 500.               *)

\* Bound: it happens while a query is to be made, as nobody sees it otherwise.
Stop ==
    /\ serving /\ session.at \in {"count", "data"}
    /\ serving' = FALSE
    /\ UNCHANGED <<table, clock, written, session>>

Next == \/ WriteFlows \/ Expire \/ Tick
        \/ Open \/ CountQuery \/ DataQuery \/ QueryFails \/ NextPage \/ Stop

Spec == Init /\ [][Next]_vars

-----------------------------------------------------------------------------
(* The type invariant.                                                     *)
TypeOK ==
    /\ clock \in 1 .. MaxTime /\ written \in 0 .. MaxRows
    /\ \A r \in table : r.id \in 1 .. written /\ r.timestamp <= clock /\ r.kind \in Kind
    /\ Cardinality({r.id : r \in table}) = Cardinality(table)
    /\ serving \in BOOLEAN
    /\ session \in {NoSession, Denied, Failed} \/
          /\ session.at \in {"count", "data", "page", "done"}
          /\ session.offset \in 0 .. written
          /\ session.seen = {} => session.offset = 0

(* "Support query parameters for filtering (node_id, protocol, time range) *)
(* and pagination" (docs/PRD-and-Functional-Spec.md, FR-7.2).  A session   *)
(* is shown rows of its tenant, and of these no other than those of the    *)
(* node, the protocol and the range of times that it has given, as far as  *)
(* they parse.  When it has asked for a limit that the server grants, no   *)
(* page was cut short and no row expired, then a session that is done has  *)
(* been shown every row that its query had when it began, except among     *)
(* rows that tie in the sort column.  New rows in front make it see rows   *)
(* twice.                                                                  *)
AskedFor(q, r) ==
    /\ r.kind.tenant = q.token
    /\ q.node \in {"", r.kind.node}
    /\ q.protocol \in {0, Unparsable, r.kind.protocol}
    /\ q.startTime \in {0, Unparsable} \/ r.timestamp >= q.startTime
    /\ q.endTime \in {0, Unparsable} \/ r.timestamp <= q.endTime

Tied(r) == \E o \in table \ {r} :
              o \in Where(session.query) /\ SortKey(session.query, o) = SortKey(session.query, r)

PagingComplete ==
    session \notin {NoSession, Denied, Failed} =>
        /\ \A r \in session.seen : AskedFor(session.query, r)
        /\ (/\ session.at = "done" /\ session.intact /\ session.whole
            /\ Asked(session.query) = LimitOf(session.query))
           => \A r \in session.before : r \in session.seen \/ Tied(r)
=============================================================================
