# FlowPulse in TLA+

TLA+ modules, TLC runs and TLAPS proofs for FlowPulse: the path of a network flow
from the kernel of a GPU node to ClickHouse, the path of a node's metrics beside it,
the gateway and the queries that show both, and the smaller components around them. Paths of source files are relative to the
root of the repository.

## 1. The system

    GPU node                          aggregator (pkg/aggregator)            readers
    +-----------------------+  HTTP   +-------------------------+
    | bpf/flow_tracker.c    |  POST   | flowCh -> processFlows  |--NATS--> API server, WebSocket
    |   flow_table (LRU)    | /v1/... |   FlowCorrelator        |          gateway (pkg/api)
    |        | poll, 1 s    |-------->|   flushLoop ------------|-------> ClickHouse <- API server
    | pkg/agent  FlowTable  |  202    | metricCh -> processMe-  |                     <- dashboard
    |   flush, evict        |         |   trics, nodeMetrics    |                        (web/)
    +-----------------------+         |   computeMetricsLoop ---|-------> ClickHouse, NATS
                                      +-------------------------+

Every arrow can lose what it carries. The agent does not repeat a request and
the aggregator answers 202 even when it drops a batch; what makes this work is
that the counters of a flow are *cumulative* and are reported again with every
flush, so a later report makes up for a lost one. Most of the properties below
are consequences of that design or conditions it needs.

### Inventory

| Component | State | Operations | What is hard | What makes it correct |
|---|---|---|---|---|
| Kernel flow tracker, `bpf/flow_tracker.c` | LRU map `flow_table`, `pkt_counter`, ring buffer `flow_events` | TC hooks `tc_ingress` / `tc_egress` -> `process_packet` | hooks of several CPUs on one map without a lock; LRU elements dropped or reused under a hook's pointer; a counter that is not atomic | bounded loss, nothing counted twice, counters that only grow while an entry lives |
| Agent flow path, `pkg/agent` | `FlowTable.flows` | `pollFlowMaps`, `readFlowEvents`, `flushLoop` / `SendFlows`, `evictionLoop` | iteration of a changing map; timeouts with the request still under way; eviction between poll and flush; two clocks | a report never overstates a flow, reports arrive in order, the aggregator catches up |
| Agent process, `pkg/agent/agent.go`, `ebpf_loader.go` | loaded programs, links, six goroutines in an error group | load, attach, `Run`, `Stop` | optional and mandatory programs, a blocking read, cancellation at any time | the process ends when it is told to |
| Agent CPU and IB metrics, `bpf/cpu_sched.c`, `bpf/ib_verbs.c`, `pkg/agent/cpu_collector.go`, `ib_collector.go` | per-CPU maps, `softirq_start`, `pending_sends` | tracepoints, polls, `SendNodeMetrics` | programs attached one by one on a running machine; the IB probe is not loaded | the times of a CPU add up |
| Flow correlator, `flow_correlator.go` | map from canonical 5-tuple to a conversation | `Ingest`, `DrainAll`, `EvictStale` | canonical keys of equal hosts or ports; cumulative counters merged repeatedly; pointers that leave the lock | keys match slots, totals and times follow the two halves, identity is kept |
| Aggregator flow path, `aggregator.go`, `pkg/store/clickhouse/writer.go` | `flowCh`, the correlator | `IngestFlowBatch`, `processFlows`, `flushLoop`, `computeMetricsLoop` | bounded channel, failing writes, two drains, cancellation at any time | every batch is in one place, the store catches up, the three loops return |
| Aggregator metric path, `aggregator.go` | `metricCh`, `nodeMetrics`, the list of pending writes | `IngestNodeMetrics`, `processMetrics`, `computeMetricsLoop` | two goroutines on one map without a lock; writes that fail; requests that overtake each other | no metric is written twice, and what the race can do to a round is contained |
| Training metrics, stragglers, collectives, `training_metrics.go`, `straggler_detector.go`, `collective_tagger.go` | the last metrics of each node | `Compute`, `DetectStragglers` | medians, thresholds, ties, cuts, zero medians | the worst nodes are listed, two detectors agree where they should |
| Hash ring, `hashring.go` | sorted ring, shard indices | `AddShard`, `RemoveShard`, `GetShard` | equal hashes and an unstable sort | a key moves only to a new shard or from a removed one |
| Backpressure, `pkg/transport/backpressure.go` | atomic depth, rate, flag | `ShouldSend`, `Enqueue`, `Dequeue` | load, compute, store without a common step | queue and rate within bounds, pressure released while messages are dequeued |
| WebSocket gateway, `pkg/api/websocket.go` | clients with bounded send channels, NATS subscriptions | register, unregister, broadcast, shutdown | callbacks against closing channels, slow clients | no send on a closed channel while it runs, every client is forgotten |
| API server, tenants, `pkg/api`, `pkg/store/clickhouse/reader.go` | the database connection | `JWTAuth`, queries, shutdown | pages by offset over a table that changes, errors in the middle of a result | a tenant's own rows, all of them |
| Redis client, `pkg/store/redis/client.go` | a sorted set per key | `RateLimit` | a pipeline that is not a transaction, clocks read before it is sent, an expiry in whole seconds | a bound on what is admitted while a moment counts |
| Dashboard, `web/` | React state, `WSManager` | connect, reconnect, disconnect | timers against callbacks; a manager for each visit of a page, which goes on after it | one connection for each visit, and again one after failures |
| Mock server, `mock-server.mjs` | alerts, email queue | life cycle of an alert, delivery | retries | one mail per alert |
| Programs and deployment, `cmd/`, `pkg/config`, `deploy/` | - | wiring | - | - |

`PROJECT.json` lists the components with what is modelled of each, and every
hazard met in the code with the line where it bites and the properties that
watch it.

## 2. The modules

    KernelFlows        what flow_table promises its reader       (abstract)
      ^ refined by FlowTracker        bpf/flow_tracker.c, several CPUs
      ^ instance in AgentFlows        pkg/agent: poll, flush, evict, HTTP
    ConversationLedger what the correlator promises              (abstract)
      ^ refined by FlowCorrelator     flow_correlator.go, operations atomic
                     ^ refined by AggregatorFlows   goroutines, channel, ClickHouse, cancellation
    Correlation        operators shared by the three above
    AggregatorMetrics  the metric path of the same aggregator
    LossyStream        what a dashboard may expect of its connection (abstract)
      ^ refined by WSGateway          pkg/api/websocket.go and the shutdown in server.go
    AgentRun           the agent's process: loading, goroutines, shutdown
    CpuStats           bpf/cpu_sched.c: time between switches and in softirqs
    TrainingMetrics    training_metrics.go and straggler_detector.go
    HashRing           hashring.go
    Backpressure       pkg/transport/backpressure.go
    RateLimit          RateLimit of pkg/store/redis/client.go
    ApiQueries         GET /api/v1/flows: middleware, handler, reader, paging client
    WSManager          the dashboard's reconnecting WebSocket client
    Components         the eight above side by side (MCComponents gives the instance)
    FlowCorrelatorProofs, AggregatorFlowsProofs, AggregatorMetricsProofs, FlowTrackerProofs,
    AgentFlowsProofs, WSGatewayProofs, ComponentsProofs     theorems about module x in xProofs
    QueueLemmas        lemmas about queues, permutations and least numbers, shared by five of these

`MCx.tla` gives module `x` its small instance, `*.cfg` its run.

**Correlation** has the pure part of `flow_correlator.go`: `MakeCorrelationKey`
(lines 23-40), `IsForward`, `EntryFor` (the branch that makes an entry),
`StoreHalf`, `AddForward`, `AddReverse`, and `Merge`, their composition, which is
the body of `Ingest`. Addresses and ports are integers because the code
compares them; `id`, `tenant` and `rdma` are opaque; packets go exactly the way
of bytes and are left out.

**FlowCorrelator** has one variable, the map, and one action per operation that
changes it. They are atomic because each holds `fc.mu` from its first line to
its last. `DrainAll` changes nothing: despite its name and its comment it
returns pointers to all entries and leaves them where they are.

**ConversationLedger** says the same with no keys, slots or sums: the latest
observation of each directed flow, and a conversation forgotten as a whole once
both directions have been quiet.

**AggregatorFlows** opens `Ingest` up. `worker` is `processFlows`, with a step for
the stored half and one for each half added to the totals; `flusher` is `flushLoop`
with `WriteFlows`, which reads entries through the pointers of `DrainAll` with
no lock, one row in two reads; `computer` is `computeMetricsLoop` as far as it
drains the correlator. `flowCh` is the channel, `published` what has gone to
NATS, `stored` the rows in ClickHouse. `dropped`, `finished`, `known` and `before` are
history. `SendFails` covers every error of `WriteFlows`, with the rows stored or not.
HTTP and gRPC handlers are the arrival of a batch (`IngestFlowBatch`).

**AggregatorMetrics** has `processMetrics` (`Dequeue` and `Store`, `WritePending`) and `computeMetricsLoop` as a
range over `nodeMetrics` that the other goroutine assigns to meanwhile. No lock guards the map. What Go's runtime
can make of that is a choice: it notices, and ends the process (`FatalError`); or the assignment, begun in `Dequeue` and
ended in `Store`, overlaps the copy of an entry, begun in `VisitNode` and ended in `CopyNode`, which then has
words of each of the values in `from`, of the zero value too where the key is new. A map that grows (`growing`) moves its
entries under the range, which may then miss some or copy zeros. `WritePending` succeeds or fails, and empties its list
in either case. A metric carries its own `Timestamp` beside the number of its arrival: requests may
overtake each other (`overtaken`), and the map takes what comes last.

**FlowTracker** has a program counter per CPU in `hook` and a step for each access to shared memory in
`process_packet`: lookup, atomic additions, the plain store of `last_seen_ns`, the load and the store of
`rdma_msg_count`, `BPF_NOEXIST` insertion, event, packet counter. `RDMAMessages` counts none for a packet whose BTH is
cut short, and an insertion may fail for reasons other than `EEXIST` (`InsertFails`: the packet is not counted, and
nobody is told). `flow_table` maps *elements* to values rather than keys to values, because a hook keeps a pointer to
an element that the LRU may have emptied or given to another flow (`Evict`, external). Header parsing is the choice of
the packet's key.

**AgentFlows** has the agent's three loops against `KernelFlows`. `poller` copies an
entry and files it in two steps; `flusher` drains the table, cuts it into batches
and posts them one at a time; a request is taken, lost, or given up by the
client's timeout while the aggregator still holds it (`givenUp`, `LateArrival`).
`latest`, the aggregator's last report of each flow, stands for the correlator,
to which `Ingest` assigns the half as a whole. `drops` numbers the entries a flow
has had in the kernel's map, so that a report of an earlier one can be told apart.

**WSGateway** has, for each connection, the program counters of `writePump` (`writer`),
`readPump` (`reader`) and `subscribeForClient` (`subscriber`), the bounded channel `send`, and
for each NATS subscription its queue (`inbox`) and the message its callback holds. The
deferred calls of the pumps are steps of their own, because the other goroutines and `Shutdown` can come
between. The callback's send is atomic: on a closed channel it panics (`crashed`), a `default` does
not prevent it. `server` goes through `Server.Run`'s shutdown: gateway, NATS connection, HTTP server,
which does not know upgraded connections. A client stands for one connection; a browser that reconnects
is another client. Its `scope` is the set of tenants that its `tenant_id` matches: the parameter goes into the subject of a NATS
subscription as it was given, where `*` is a wildcard, so that it may be any set.

**AgentRun** is the process around `AgentFlows`: `LoadFlowTracker` may find the programs missing and goes
on without, `LoadCPUSched` may not; then `Attach` in the order of a Go map, and the six goroutines of
`Agent.Run`. `readFlowEvents` looks at its context, then blocks in a read until there is an event. Events come
only if somebody attaches the TC programs: the agent loads them and attaches the tracepoints alone.

**CpuStats** has the three tracepoint programs and a clock. `truth` is history: what the CPU did
since its first counted switch. `blind` marks a CPU on which a softirq's exit was seen without its entry.

**TrainingMetrics** has the last metrics of each node and a round's results. Quotients are in tenths of
a percent, rounded down. What the code does with `sort.Slice` and a cut is the set of the arrangements it may
give. `StragglerDetector` is called by no program and computes from the same input: three signals, as
its code does. The fourth one of its comment, context switch rate anomalies, is computed nowhere.

**HashRing** makes hashes constants, so that two may be equal. `Sortings` are the orders in which
`sort.Slice` may leave the entries.

**Backpressure** has a program counter per caller and a step for each atomic load and store. Who calls
`ShouldSend`, `Enqueue` and `Dequeue`, and in which order, comes from the comments on them. A call that has begun returns;
that there is a next one is assumed nowhere.

**RateLimit** has a step for each command of the pipeline, since Redis may serve another call's
in between, and the call's clock is read before. `Expiry` is the window as `EXPIRE` is told it, in whole seconds, the rest
dropped by the client library; `Span` is the time a moment counts, the smaller of the two. `admitted` is history.

**ApiQueries** is a client's session: page after page until one is not full. Count and data of a page are two
queries; rows are written and expire in between; a request filters by node, protocol and range of times, and a parameter
that does not parse is ignored; `QueryFlows` returns what it has when the driver's
iteration ends by an error, because it does not ask `rows.Err`.

**WSManager** has a manager for each visit of a page (`useWebSocket` makes one, `Mount`; leaving the page is `Disconnect`), with
its fields, the sockets alive and the pending timers. Managers of pages that were left go on beside the others. A browser's
callback is one step. `net` says whether connections succeed and last, and may change at any time.

**Components** has the eight side by side, with the constants of all of them as parameters: `part` chooses
one at the start and stays with it. They do not interact, and side by side their state spaces add up,
where a conjunction of their specifications would multiply them. The theorems of `ComponentsProofs` are
about this module for every value of its constants; `MCComponents` gives them values for TLC.

## 3. The runs

| Run | Shows | States |
|---|---|---|
| `correlator` | every sequence of reports and evictions keeps entries coherent, and the ledger is implemented | 340 |
| `aggregator_flows` | the goroutines of the flow path, every interleaving and failure; it implements `FlowCorrelator` | 134,372 |
| `aggregator_metrics` | the metric path with rounds ranging over the map under assignment | 795,554 |
| `flow_tracker` | hooks of two CPUs on the LRU map; it implements `KernelFlows` | 78,713 |
| `agent_flows` | polls, flushes, lost and late requests, evictions, dropped entries | 180,786 |
| `ws_gateway` | a WebSocket connection and its goroutines, ended by either side or by the shutdown at any time; it implements `LossyStream` | 280,162 |
| `components` | the eight smaller components, each on its own instance | 129,751 |
| `tenants` | violation of `TenantScoped` | - |
| `agent_eviction` | violation of `EvictsOldFlowsOnly` | - |
| `aggregator_torn` | violation of `RowsCoverForward` | - |
| `aggregator_shutdown` | violation of `ShutdownFlushes` | - |
| `metrics_race` | violation of `NeverCrashes` | - |

### Properties

*Correlator.* `SlotsMatchKey`: a slot holds exactly its direction of the key's
conversation, for every order of hosts and ports and for a host with itself.
`TotalsAreSums`, `SeenSpansHalves`, `RDMAFollowsForward`: what is derived from the
halves follows them however often either is reported again.
`IdentityAndHalvesKept`: an entry keeps the flow ID it began with, although agents
give a flow a new one after each eviction. `ImplementsLedger`: the refinement.

*Aggregator, flows.* `BatchesAccounted`: every accepted batch is in exactly one
place. `PublishedIsCorrelated`: nothing is shown live that the correlator does not
have. `ImplementsCorrelator`: outside the lock, `Ingest` is one step and drains take
nothing from each other. `CatchesUp`: ClickHouse comes to hold the current state
of every conversation. `CancelStops`: the three loops of the flow path return, whatever they are doing; `Run` also waits for
`processMetrics`, HTTP and gRPC, which are not part of it.

*Aggregator, metrics.* `WrittenAtMostOnce`: a metric is in one place, and in one write at most; one whose write
failed is nowhere. `NodesFollowArrivals`: the map has the last metric taken of each node, which is its latest one
unless its requests overtook each other; without that proviso it is false, because the assignment does not look at
`Timestamp`. `RoundsContainTheRace`: what a round may compute from, in a process that survives the race: every node at
most once, nothing from before the round, a whole metric where no assignment overlapped the copy; zeros only for
a node without a value yet or where entries moved; a node missed only in the latter case. `MetricsGetTheirWrite`: one
write is attempted for every metric, which may fail, unless the process ends first.

*Kernel.* `ShortByCPUs`: a flow that has stayed in the map, and of which no packet was refused, is short by fewer packets
than there are CPUs. `NothingCountedTwice`. `ImplementsKernelFlows`: the refinement.

*Agent.* `NothingAhead`: nothing on its way claims more than the kernel has counted. `PostsEachFlowOnce`: the cut into
batches, of any size in the theorem, of one flow in the run. `InOrderUnlessTimedOut`: only a request that timed out
can put an old report over a new one. `ReportsCatchUp`: the aggregator's figures become the kernel's again and again.

*Gateway.* `ImplementsLossyStream`: a browser sees messages of topics that its `tenant_id` matches only, each topic in
order, nothing twice. That these are its own tenant's only is not claimed: nothing checks the parameter.
`NothingLeftBehind`: when both pumps have ended the gateway has forgotten the client. `DisconnectIsCleanedUp`:
whichever side closes, all three goroutines return and the subscriptions go ("On client disconnect, NATS subscriptions
are drained and cleaned up", `docs/PRD-and-Functional-Spec.md:474`; the code unsubscribes, it does not drain).
`ChannelIsEmptied`: `writePump` takes what is in the channel, or the connection ends. `NoPanicWhileRunning`: no
callback sends on a closed channel before the shutdown, although callbacks outlive the client's removal and its
unsubscription; it is what would break if `removeClient` closed the channel.

*Ring.* `OwnerIsSuccessor`: rings that have come to the same shards in different ways agree on every
key, unless virtual nodes of two shards coincide. `KeysMoveMinimally`: an addition moves keys to the new shard
only, with the same exception; a removal moves none but the removed shard's.

*Backpressure.* `QueueBounded`: the queue passes its maximum by at most the number of producers, and lost updates
leave the rate within its limits. `PressureReleased`: a queue that stays short while messages are dequeued again and
again is not under backpressure for ever, although a refusal decided earlier may set the flag after the queue was
emptied.

*Limiter.* `MomentsBounded`: the moments at which calls were admitted, in intervals of `Span` less the client's
timeout, are fewer than the limit and two for each caller. Each caller may be between its count
and its addition; and each may have made its addition to a key that expires before it is renewed, so that a moment is
admitted and not counted. With a limit of one the latter cannot be, because a call that counts nothing finds no key that could
expire, and they are as many as the callers at most: the run reaches that bound. The timeout is taken off because a call
that is slow to reach Redis finds the set trimmed by a later clock than its own. For a window that is not of
whole seconds nothing is claimed of the window itself: its key expires early, so that one caller alone is admitted
more often than the limit. The bound is on moments, because calls of one millisecond are one member of the set.

*Agent's process.* `CancelEndsRun`: after its context is done the process ends, or nothing is left of
it but the reader waiting for a flow event. That it waits is the code's (`agent.go:126`), against the shutdown the PRD
describes (`docs/PRD-and-Functional-Spec.md:352`).

*Queries.* `PagingComplete`: a session sees rows of its tenant, its node, its protocol and its range of times only, as
far as these parse (FR-7.2 of the PRD), and every row that was there at its beginning and stays, provided that its
limit is one the server grants, no result ended in an error, and the row does not tie with another in the sort column.
Each proviso is necessary: TLC finds a lost row without any of them.

*Training.* `StragglersAreWorst`: the listed nodes are the ones that deviate most, at ties and cuts too, each of
them is more than 20 points away from half of the nodes at least, and the score is no lower than such a deviation gives. It is
stated for any utilization, above 100 as well, because the collector divides cumulative counters by a rate.
`DetectorsAgree`: a node listed by the detector for InfiniBand alone, of the three signals it has, shows in the computer's score.

*Dashboard.* `OneConnectionEach`: a manager never has two connections, attempts or timers at a time, in whichever order
sockets and timers call back, also after its page was left; so there are as many as visits of pages, at most, and there may be as
many. `StaysConnected`: the page that is shown is connected again once the network is good, whatever the other managers do.

*CPU statistics.* `TimeAccounted`: task and idle time are exactly the time since the first switch seen; softirq
time is exact unless an exit was seen without its entry, and then too long, by up to the machine's uptime.

Each module has one type invariant, `TypeOK`. It is among the properties of `correlator`; `Components`, `FlowTracker`,
`AgentFlows`, `AggregatorFlows`, `AggregatorMetrics` and `WSGateway` keep theirs as documentation of their state:
their runs pass with it as well, and are spent on the other properties. Section 4 says which are proved.

### Bounds

- `correlator`: two hosts, two ports, four connections among the hosts, reports
  of both directions with rising counters and times on both sides of each other, with
  and without RDMA counters, two cutoffs. `Ingest` branches on the order of hosts
  and ports, on which halves exist and on the order of times; each branch occurs. The
  theorems remove the bound.
- `aggregator_flows`: two batches, one of both directions of a connection, one that
  reports one direction again; channel of one. Two batches fill the channel while a third
  party works; `FlowChCap` = 1 makes drops reachable at once.
- `aggregator_metrics`: two nodes, one of which moves to another tenant and reports an earlier `Timestamp` there, so that
  requests can overtake each other; three metrics: one before a round, one under it, one more in the channel, or three under one round;
  a channel of one, so that it is full at once.
- `flow_tracker`: two CPUs, two elements, a RoCE flow and another, three packets in all.
  The races are between two hooks; the third packet comes after. `MaxPackets` bounds `Receive`, nothing else.
- `agent_flows`: two flows, batches of one (so that a flush has two; a last batch that is shorter is in the theorem `FlushesPostOnce`
  only), two counted packets, one
  drop, one request given up but under way. `MaxTime` is 0 there and 3 in `agent_eviction`:
  with a boot in the past every cutoff is later than every `last`, so the passage
  of time changes nothing but the number of states.
- `ws_gateway`: one connection, because connections share nothing but the map they are in and each
  access to it concerns one of them (`Shutdown` apart, which treats all alike); two tenants, of which its `tenant_id`
  matches none, one or both; two subjects, a channel of one, two messages: one fills the channel while the
  other is dropped or is already in the writer's hands.
- `components`, part by part. Ring: three shards of two virtual nodes, two of which coincide, keys below, on, between
  and above the points. Backpressure: two producers, one drainer, a queue of 8, because the ramp-up threshold is a
  quarter of it and with fewer than four messages is zero, below which no depth falls. Limiter: two callers, a limit
  of one, a window of five where a second is four (so that it is not of whole seconds, and a moment counts for four),
  calls of one at most, and a clock that goes on for four; it reaches the bound of two. (A limit above one, where the
  larger bound is, is left to the theorem.) Agent: two events. Queries: two rows of three kinds and two times, so that
  rows of a tenant tie in one column and differ in another; three requests, which filter by protocol, by an end of
  time, and by node and start of time, with limits inside and outside the range and a parameter that does not parse;
  one expiry. Training: four nodes (even and odd medians, and a detector that starts at three), five metrics, one of
  them with a utilization of 250, a list of two. Dashboard: two visits of pages, each with two sockets, of which it
  never needs more than one at a time. CPU: one, as CPUs share nothing, and clock values 1 to 4.
- Bounds are in guards (`MaxBatches`, `MaxMetrics`, `MaxPackets`, `MaxDrops`, `MaxGivenUp`,
  `MaxTime`, `MaxEvents`, `MaxRows`) and end a behaviour early, so these configurations do not check deadlock; the
  correlator's never ends and does.

### Fairness

Goroutines are scheduled, tickers fire, and calls return because HTTP requests, ClickHouse and the driver's context
have timeouts: weak fairness for the steps of each loop. A `select` takes one of its ready cases at random, so a loop
that comes back to it for ever takes `ctx.Done()` in the end: strong fairness for `Stop`. A store or a network that
answers again and again is assumed to succeed at some time: strong fairness for `SendOK` and `SendTaken`, without
which no retry helps. In the gateway a read or a write of a closed connection fails (weak fairness for `ReaderFails`
and `WriterFails` under `conn[c] = "closed"`); that an open one fails, by a deadline or a missing pong, is never
assumed. Arrivals, losses, evictions by the kernel and cancellation have none. In `AgentFlows`, `EvictionsAreRare`
says that no flow is missing from the `FlowTable` each time the flush loop is at its select: evictions come every
`FlowTimeout / 2`, 15 seconds by default, polls and flushes every second. In `components`: a call of `ShouldSend`,
`Enqueue` or `Dequeue` that has begun returns (`Backpressure`; that calls keep coming is not assumed but a premise of
`PressureReleased`, `[]<>Dequeuing`: without new calls of `Dequeue`, which alone clears it, a flag set late stays set
on an empty queue); loading, the work of a tick and `http.Server.Close` end, and a `select` is fair as above
(`AgentRun`; nothing is assumed of flow events, signals or errors); a connection attempt ends one way or the other and
a timer fires (`WSManager`, `WF(Browser(m))` for each manager; nothing of the network, which the property's premise
has be good at last). In `AggregatorMetrics` `processMetrics` goes on (`WF(Worker)`), and of `computeMetricsLoop`
nothing is assumed. Nothing of this kind is assumed of safety properties.

### Disagreements between code and documents

Each is a run whose counterexample TLC prints.

1. `tenants`: `correlationKey` (`pkg/aggregator/flow_correlator.go:16-21`) has no tenant.
   Two tenants that use the same private addresses, or see two ends of one connection, share an entry
   under the first one's tenant; "every data path must be tenant-scoped"
   (`docs/PRD-and-Functional-Spec.md:184`).
2. `agent_eviction`: `LastSeen` comes from `bpf_ktime_get_ns`, time since boot
   (`pkg/agent/flow_table.go:53`), and is compared with the wall clock (`:90`). Every flow is
   deleted at every eviction, against the comment at `:82`. `ReportsCatchUp`
   holds all the same: the next poll files every flow again, with a new flow ID, for
   which `IdentityAndHalvesKept` matters.
3. `aggregator_torn`: `WriteFlows` reads live entries without the lock
   (`pkg/store/clickhouse/writer.go:147-178`) while `Ingest` has reset the totals. A row
   can be stored with a total below its own forward bytes.
4. `aggregator_shutdown`: loops return at `ctx.Done()` without draining, against
   `docs/PRD-and-Functional-Spec.md:888-889`.
5. `metrics_race`: `nodeMetrics` is assigned to under a range
   (`pkg/aggregator/aggregator.go:253`, `:305`) with no lock, and Go ends the process when it notices, against
   `docs/PRD-and-Functional-Spec.md:185`. What it does when it does not notice is in `RoundsContainTheRace`.

Met while modelling and visible in the models, without a run of their own: `DrainAll` of both tables says it clears
(`flow_correlator.go:99`, `flow_table.go:68`) and does not, on which `CatchesUp` and `ReportsCatchUp` rely (in
`AggregatorFlows` a drain that clears violates `ImplementsCorrelator` and `CatchesUp`); nothing in the aggregator
calls `EvictStale`, so its map only grows; `FlowTable.maxFlows` is never consulted; `WSGateway.Shutdown` closes the
clients' channels while NATS callbacks may still send to them, which ends the server by a panic in the middle of its
shutdown (`pkg/api/websocket.go:184`; `NoPanicWhileRunning` says that it happens nowhere else).

Metrics and batches: a late request's older metric replaces a newer one (`aggregator.go:253` does not compare
`Timestamp`); the metrics of a write that fails are lost (`aggregator.go:245-250`); a full channel drops the newest
batch (`aggregator.go:194-202`), where `docs/PRD-and-Functional-Spec.md:880` has the system drop "the
oldest/least-critical data"; errors of the insertion into the kernel's map are ignored (`bpf/flow_tracker.c:135`).

Gateway: `tenant_id` comes from the query string and is put into a NATS subject as it is (`pkg/api/websocket.go:58`, `:138`), so
that a wildcard shows the messages of every tenant, against `docs/PRD-and-Functional-Spec.md:184`; subscriptions are dropped by
`Unsubscribe`, which discards what is waiting (`websocket.go:169-171`), where line 474 of that document has them "drained".

Agent: `readFlowEvents` blocks a shutdown until a flow event comes (`agent.go:126`); the TC programs are loaded and never
attached, against `docs/PRD-and-Functional-Spec.md:1567`; a softirq that was running when the programs were attached is charged
the time since boot if the exit probe came first (`ebpf_loader.go:130` ranges over a map); softirq shares are
filed by place in an iteration, not by core (`agent.go:213`); IB utilization divides cumulative counters
by the peak rate per second (`ib_collector.go:86`); the collector and the NUMA tables have no caller;
`docs/PRD-and-Functional-Spec.md:1306` has vectors 3 and 4 for NET_TX and NET_RX where the code has 2 and 3.

Queries: parameters that do not parse are ignored, where `docs/PRD-and-Functional-Spec.md:1278` has an answer of 400;
`src_ip` and `dst_ip` are parsed and not used; a limit above 10000 becomes 100, which a client takes for
the last page; `rows.Err` is not asked; the reader is closed before the HTTP server (`server.go:129`), so that late requests
get 500; `GetTrainingMetrics` answers 500 where there are no rows.

Training: agents send neither user time nor InfiniBand metrics, so that the bubble ratio is 0 or 100 and the straggler
list empty; the score is the largest deviation in percent of the median, which nothing limits (20, 20 and 50 give
150), where the comment at `training_metrics.go:104` and `docs/PRD-and-Functional-Spec.md:1190` have a number from 0
to 100; saturation and imbalance of a tenant's round are computed from the flows of all tenants
(`aggregator.go:309-312`); the detector lists an empty name for a node it knows by flows only, and computes three of
the four signals of its comment: context switch rates are in none (`straggler_detector.go:27-31`).

Others: a refused call is added to the limiter's set and refuses later ones; its `EXPIRE` is sent in whole seconds
(`pkg/store/redis/client.go:100`), so that the key of a window of 1500 ms goes after 1000; `disconnect` closes a socket whose `onclose`
schedules a reconnection (`websocket.ts:51`), and no handler is taken off (`:33`), so that the managers of pages that were left
(`useWebSocket.ts:46`) go on connecting and handle every message once more; the branch of `connect`
for an open socket is never taken; a `MaxQueueDepth` below 4 is never ramped up.

## 4. The proofs

Every safety property and every refinement that the passing runs check is a theorem, for every value
of the constants, but for those named under *Only model-checked*:

| Module | Theorem | States |
|---|---|---|
| `FlowCorrelatorProofs` | `TypeCorrect`, `SlotsCorrect`, `TotalsCorrect`, `SpansCorrect`, `RDMACorrect` | the five invariants of `correlator` |
| | `IdentityKept` | `IdentityAndHalvesKept` |
| | `Refinement` | `Spec => ImplementsLedger` |
| `AggregatorFlowsProofs` | `BatchesCorrect`, `PublishedCorrect`, `FlowPathTypes` | `BatchesAccounted`, `PublishedIsCorrelated`, `TypeOK` |
| | `IngestIsAtomic` | `Spec => ImplementsCorrelator` |
| | `GoroutinesKeepLedger` | that one composed with `Refinement`: down to the ledger |
| | `ConversationsWhole` | while the lock is free every live entry is whole, its total and times those of its halves; while it is held, every one but that of the flow in `Ingest` |
| `AggregatorMetricsProofs` | `MetricsCorrect`, `NodesCorrect`, `RoundsCorrect`, `MetricPathTypes` | `WrittenAtMostOnce`, `NodesFollowArrivals`, `RoundsContainTheRace`, `TypeOK` |
| `FlowTrackerProofs` | `FewPacketsLost`, `CountersAgree` | `ShortByCPUs`, `NothingCountedTwice` |
| | `MapIsKernelFlows` | `Spec => ImplementsKernelFlows` |
| `AgentFlowsProofs` | `ReportsNotAhead`, `FlushesPostOnce` | `NothingAhead`, `PostsEachFlowOnce` |
| | `ReportsInOrder` | `InOrderUnlessTimedOut` |
| `WSGatewayProofs` | `ClientsAreForgotten`, `PanicsInShutdownOnly` | `NothingLeftBehind`, `NoPanicWhileRunning` |
| | `DashboardSeesStream` | `Spec => ImplementsLossyStream` |
| `ComponentsProofs` | `OwnersCorrect`, `KeysMove` | `OwnerIsSuccessor`, `KeysMoveMinimally` |
| | `QueueIsBounded`, `LimitHolds` | `QueueBounded`, `MomentsBounded` |
| | `ConnectsOnce`, `PagesComplete` | `OneConnectionEach`, `PagingComplete` |
| | `StragglersCorrect`, `TimesCorrect` | `StragglersAreWorst`, `TimeAccounted` |

In each module `InvHolds` (`InductiveInvariant` in `FlowCorrelatorProofs`) says that the inductive invariant holds;
there is one lemma for each action or for a group of actions that leave the same state alone, and `NextKeepsInv` puts
them together. `ComponentsProofs` has an invariant for each component (`RingInv`, `FlowInv`, `LimiterInv`,
`SocketInv`, `ApiInv`, `TrainingInv`, `CpuInv`), a lemma that a step of the whole is a step of the component or leaves
it alone (`StepOfRing` and so on), and lemmas that the operators an instance brings with it, such as
`Ring!Cardinality`, are those of the standard modules, which the library's theorems are about.

### Assumptions

They are the ASSUMEs of the modules, which TLC evaluates in every run of the module, and are about constants only:

- the sizes are what configuration makes them: channels and batches have room for one element at least, bounds are natural numbers;
- hosts, ports and times are integers (the code compares addresses as byte strings, a total order), and what
  is reported is typed (`ObservedAreFlows`, `CutoffsAreTimes`, `BatchesAreFlows`, `ReportsAreTyped`);
- sets that the code iterates over are finite where a proof counts them: CPUs and flows in `FlowTracker`, flows in
  `AgentFlows`; no bound on their number is assumed, nor on packets, drops, batches or messages beyond that there is
  one;
- the subjects a connection subscribes to differ (`SubjectsDiffer`);
- the small components have, in `Components`: finitely many shards and at least one virtual node each, hashes that are
  natural numbers and need not differ (`RingHashed`); finitely many producers, who are no drainers, a queue of at
  least four, limits of the rate in order and a factor that is not zero (`FlowConfigured`); finitely many callers, a
  positive limit, a second that is not zero, and calls that end before their moment has ceased to count
  (`LimitConfigured`; the window need not be of whole seconds); a default page of at least one row and rows with a
  number of bytes (`ApiConfigured`); finitely many nodes and utilizations that are natural numbers
  (`TrainingConfigured`); a longest delay of one at least (`SocketConfigured`); a machine that had been up when the
  programs were attached (`CpuClockRuns`);
- `None`, which stands for `nil`, for an absent key and for a register not in use, is no value of the sets it is added
  to, and neither is the zero value `Zero` a metric: `ZeroIsNoMetric`, `NoneIsNoValue`, `NoneIsNoRecord`,
  `NoneIsNoElement`, `NoneIsNoEntry`, `NoneIsNoMessage`.

No assumption is made about the order in which reports come or about their counters and times.

### The inductive invariants

*FlowCorrelator.* `IInv` says that every entry is well formed: typed, in the slots of its key, its total
the sum of its halves, its times the span of its halves, its RDMA counters
those of its forward half. The invariants one by one are not inductive:
that totals are sums after `Ingest` needs that the half replaced was in the slot the
new one goes to, and the span needs that there is a half at all, or the
minimum over the halves would be the zero time. `Merge` is taken apart into `StoreHalf`,
`AddForward` and `AddReverse`, each with a lemma on every field. The keys carry
the rest: `KeyIsSymmetric` (both directions have one key), `KeyIsInjective` (two
flows with one key are equal or reverses), `ForwardIsTheNamedDirection` (`isForward`
agrees with the key, for equal hosts and equal ports too). With them `IngestObserves`
shows that `Ingest` changes the ledger at one flow and nowhere else, and
`EvictStaleForgets` that an entry is stale exactly when both its directions are quiet,
which needs `SeenSpansHalves`.

*AggregatorFlows.* `Locked` is the heart: while `processFlows` is inside `Ingest`, the entry is exactly as far as the
steps done so far have brought the one that was there before. From it follows that the step out of the lock is
`Ingest` of the component and every other step stutters, under the mapping that shows the entry of before as long as
the lock is held. `Numbering` adds to `BatchesAccounted` that batches are taken, finished and published in the order
of their arrival: that a batch is in one place only is not inductive without it, because a number once finished could
come up in the channel again. `Merged` says that a flow of the batch in hand is still to be ingested or known. The
component's specification quantifies over its own sets of flows; `SameSpecification` shows that they are these, which
lets the component's theorems be cited for the goroutines (`GoroutinesKeepLedger`). `ConversationsWhole` is about the
map as it is, not as the mapping shows it: the entry under `Ingest` may be half merged, and `aggregator_torn` shows
that it is seen so; no other is.

*AggregatorMetrics.* `Places` has a metric in exactly one of five places (dropped, channel, hand, list, written, a
failed write included), with the channel in the order of arrival and the list without repetition. `Filing` says that
the map and the newest metric taken differ only at the node whose assignment is under way. `Times` has the metrics
that wait in the order of their `Timestamp`s for each node that was not overtaken. `Round` is what a range over a map
under assignment can rely on: the nodes to come are nodes of the map, those used are not to come again, every node of
the map is used, under the copy or to come unless entries have moved, and a value that a copy has words of is one of
its node, no older than the round, or the zero value for one of the two reasons. `Idle` says that outside a range
nothing is left of one.

*FlowTracker.* The counters are explained by the program counters of the hooks: a packet that has been received is
either counted in `packets` or belongs to a hook before its addition; `packets` exceeds `bytes` by exactly the hooks
between the two; an RDMA count lags behind by the hooks still at work on the element, and the value that a hook has
loaded and not yet stored obeys the same inequality (`NoneTwice`, the last conjunct). A hook may lose a packet for
good only when another CPU inserts between its lookup and its insertion, or when the kernel refuses the insertion,
after which the flow counts as dropped. `FewLost` is the bound that each step preserves: the packets of a flow in the
map are fewer than those counted, those that can still be counted, and one for each CPU. It is stronger than
`ShortByCPUs`, which says nothing about hooks that are about to fail. `Held` says that a hook's pointer is to its own
flow's element as long as that flow has not been dropped, without which an addition could go to another flow. The
lemmas on `At` and `On` give what one hook's step does to the number of hooks at a place.

*AgentFlows.* The stages of a report are the poller's hands, the `FlowTable`, the rest of the flush, and the
aggregator. `Ordered` says that of two reports of one flow the one at the later stage is never the newer one, with the
aggregator's included as long as no request has timed out; the poller reads the newest there is because nothing is
ahead of the kernel, so that `InOrderUnlessTimedOut` rests on `NothingAhead`. `Cut` says that the batch awaited is the
one at the flusher's index and that the flows drained have distinct keys: the distinctness makes a flow posted once,
and an older report of the same flow cannot follow in a later batch.

*WSGateway.* `Life` orders the life of a connection: registered once, before its pumps run, and a pump that has ended
has left behind a closed connection and no entry in `gw.clients`. `Closing` says that channels are closed in the
shutdown only. `Flows` is about each connection as a pipeline: what the browser has, what `writePump` holds, the
channel, what the callbacks hold and the queues of the subscriptions are, topic by topic, in the order of publication
and of the topics that its `tenant_id` matches. It is stated for the parameters of one connection (`Flowing`), with a
lemma for each way a message moves, so that the actions need only say which one they are.

*Components, ring.* `RingInv` says that the ring is an arrangement of exactly the points of the registered shards,
each once, in the order of hashes. A removal keeps it because leaving elements out keeps the order of the others
(`RemoveShardStep`). Two arrangements of one set of points differ only where hashes are equal, so that the point which
a search finds has the same hash in both (`OwnerFromInv`).

*Backpressure.* `QueueBounded` already counts the admitted producers, without whom it would not be inductive: each of them will
add a message without looking again. What `FlowInv` adds is that a rate that is computed and not yet stored is within the limits, too.

*Limiter.* The count that a call has seen may be too low for two reasons, and `LimiterInv` bounds each. `Lost` are the
moments that still count and are no longer in Redis: a moment counts for `Span`, which is no longer than the expiry
its call has given the key, so that the key outlives every moment admitted (`KeyLives`), and when it is dropped only
the moments of callers between addition and renewal are lost, one each, and all lost before have ceased to count.
`Taken` are the moments admitted or sure to be, `Coming` the callers that have counted and not yet added; together
they are fewer than the limit and two for each caller. That this is the right bound was found by the proof: with one
for each caller the invariant is not inductive, and with a limit of two TLC has a behaviour that reaches the larger
one. `SingleInv` is the case of a limit of one: as long as a call is sure to be admitted, the key outlives the call,
so that no moment is lost.

*Dashboard.* `Alone`, of each manager: there is one socket and no timer, or one timer and no socket, or neither. That
at most one of each exists is not inductive, since a timer's `connect` beside a socket would make a second one.

*Queries.* The rank of a row is the number of matching rows that sort before it. `PlaceIsRank` says that a row that
ties with none is, in every order the database may give, at the place of its rank, and `PageFacts` which places a page
has. `ApiInv` has every row of the beginning seen, tied, or of a rank that is on a page still to come (`Ahead`), as
long as nothing that would move it has been written or has expired (`StillThere`); a page shorter than the limit
leaves no rank for a page still to come.

*Training.* The invariant only says that a result was computed from the metrics that are there; the work is in the
operators. `PlaceFacts` says what an order statistic is: at least that many nodes are below or at it, at least the
others above or at it. From it `MedianFacts` has half of the nodes on the far side of the median of each node that
deviates from it; `WorstFacts` says what a sort and a cut leave; `RatioGrows` that the quotient of the larger
deviation is the larger one.

*CPU.* `Switches` splits the time since a CPU's first switch into what is counted and what has passed since the last
count; `Starts` dates the entry of a softirq under way from its running time, unless the entry was not seen and the
stored time is zero; `Softirqs` makes the counter exact without such an exit and too large with one.

### Only model-checked

- Liveness under fairness (`CatchesUp`, `CancelStops`, `MetricsGetTheirWrite`,
  `ReportsCatchUp`, `DisconnectIsCleanedUp`, `ChannelIsEmptied`, `PressureReleased`, `CancelEndsRun`, `StaysConnected`), which
  the prover does not do.
- The parts of `TypeOK` in `FlowTracker`, `AgentFlows` and `WSGateway` that repeat the bounds of the instances
  (`MaxPackets`, `MaxDrops`, `MaxMsgs`): the guards bound a sum over a set, a fold defined by recursion, of which
  nothing can be proved by induction. The proofs have `Types` in their place, the same with natural numbers.
- `DetectorsAgree`: the retransmissions of a node are a sum over a set of flows, such a fold again, of which it cannot even be proved
  that it is a number. `StragglersAreWorst` needs no sum.
- `TypeOK` of `Components`, the conjunction of the types of eight instances: that of `TrainingMetrics` is about such
  sums. Those of `HashRing` and `WSManager` are part of their invariants, and what the other proofs need of types is
  in theirs.
- That the bounds of `MomentsBounded` are reached, which is a matter of instances.

## 5. What is not modelled

- Header parsing, formatting, JSON, SQL, HTTP routing: pure functions or input and
  output, with nothing the properties tell apart.
- In `FlowTracker`: direction, QP numbers, ECN marks and `first_seen_ns`. In `AgentFlows`: RDMA
  fields that stick once seen, flow IDs, the events that `readFlowEvents` files.
- The arithmetic of `readCPUStats`, which turns the maps of `CpuStats` into shares, and the collectors of InfiniBand and NUMA
  figures: single passes over files or maps, the latter with no caller.
- `CollectiveTagger`: thresholds on one flow, without state or caller; it never names an all-to-all. In
  `TrainingMetrics`: the square root of the imbalance and the averages over nodes that are sent as they are.
- The topology and training queries of the API: single reads. The materialized views of ClickHouse (`metrics_1m` is a
  `SummingMergeTree` over averages, which adds them up).
- The tenant resolver and manager: maps under a lock without a caller (`ResolveByPath` ranges over one, so that
  overlapping patterns resolve to any of their tenants).
- The mock server, which stands in for the real ones in demonstrations; the programs, configuration and deployment.
- The batching agent-to-aggregator composition: `AgentFlows` ends at the aggregator's last report of each flow
  and `AggregatorFlows` begins with batches of any content and order, so that they meet without a common module.

## 6. Plan

If the code comes to use them: the tenant resolver, the detectors across rounds, and a
`Pipeline` that composes `AgentFlows` with `AggregatorFlows`. The theorems to add are those that would then relate
the kernel's counters to the rows in ClickHouse.
