----------------------------- MODULE Components -----------------------------
(***************************************************************************)
(* The smaller components side by side.  They do not interact, so that a   *)
(* behaviour is a behaviour of one of them, chosen at the start by part:   *)
(* the state spaces add up and do not multiply.                            *)
(***************************************************************************)
EXTENDS Naturals, Sequences, FiniteSets

CONSTANTS
    Shard, VirtualNodes, VHash, Key, KHash, NoShard,                     \* HashRing
    Producer, Drainer, MaxQueueDepth, MinRate, MaxRate,                  \* Backpressure
    RampUpStep, RampDownFactor,
    Caller, Limit, Window, Second, CallDelay, LimiterEnd,                \* RateLimit
    MaxEvents,                                                           \* AgentRun
    Kind, Token, NoTenant, Request, Unparsable, DefaultLimit, MaxLimit,  \* ApiQueries
    TTL, MaxRows, ApiEnd,
    Node, Sample, NoSample, Flows, Capacity, MaxListed,                  \* TrainingMetrics
    Manager, LongestDelay, SocketID, NoSocket,                           \* WSManager
    CPU, Boot, CpuEnd                                                    \* CpuStats

VARIABLES
    part,
    shards, ring,                                                        \* HashRing
    queueDepth, sendRate, dropped, backpressured, pc, rate,              \* Backpressure
    now, zset, expireAt, call, admitted,                                 \* RateLimit
    phase, flowEvents, links, ctxDone, groupErr, at, queued,             \* AgentRun
    table, clock, written, session, serving,                             \* ApiQueries
    sample, result,                                                      \* TrainingMetrics
    managers, net,                                                       \* WSManager
    uptime, attached, running, softirq, cpuStats, softirqStart,          \* CpuStats
    softirqStats, truth

ringVars == <<shards, ring>>
flowVars == <<queueDepth, sendRate, dropped, backpressured, pc, rate>>
limitVars == <<now, zset, expireAt, call, admitted>>
agentVars == <<phase, flowEvents, links, ctxDone, groupErr, at, queued>>
apiVars == <<table, clock, written, session, serving>>
trainVars == <<sample, result>>
wsVars == <<managers, net>>
cpuVars == <<uptime, attached, running, softirq, cpuStats, softirqStart, softirqStats, truth>>
vars == <<part, ringVars, flowVars, limitVars, agentVars, apiVars, trainVars, wsVars, cpuVars>>

-----------------------------------------------------------------------------
Ring == INSTANCE HashRing
Flow == INSTANCE Backpressure
Limiter == INSTANCE RateLimit WITH MaxDelay <- CallDelay, MaxTime <- LimiterEnd
Agent == INSTANCE AgentRun
Api == INSTANCE ApiQueries WITH MaxTime <- ApiEnd
Training == INSTANCE TrainingMetrics
Socket == INSTANCE WSManager WITH MaxDelay <- LongestDelay
Cpu == INSTANCE CpuStats WITH MaxTime <- CpuEnd

ASSUME RingHashed == Ring!HashesAreNumbers
ASSUME FlowConfigured == Flow!ConfigAssumption
ASSUME LimitConfigured == Limiter!ConfigAssumption
ASSUME ApiConfigured == Api!ConfigAssumption
ASSUME SocketConfigured == Socket!ConfigAssumption
ASSUME CpuClockRuns == Cpu!ClockRuns
ASSUME TrainingConfigured == Training!ConfigAssumption

-----------------------------------------------------------------------------
Init ==
    /\ part \in {"ring", "flow", "limiter", "agent", "api", "training", "socket", "cpu"}
    /\ Ring!Init /\ Flow!Init /\ Limiter!Init /\ Agent!Init /\ Api!Init /\ Training!Init
    /\ Cpu!Init /\ Socket!Init /\ (part = "socket" \/ net)

InRing == part = "ring" /\ UNCHANGED <<part, flowVars, limitVars, agentVars, apiVars, trainVars, wsVars, cpuVars>>
InFlow == part = "flow" /\ UNCHANGED <<part, ringVars, limitVars, agentVars, apiVars, trainVars, wsVars, cpuVars>>
InLimiter == part = "limiter" /\ UNCHANGED <<part, ringVars, flowVars, agentVars, apiVars, trainVars, wsVars, cpuVars>>
InAgent == part = "agent" /\ UNCHANGED <<part, ringVars, flowVars, limitVars, apiVars, trainVars, wsVars, cpuVars>>
InApi == part = "api" /\ UNCHANGED <<part, ringVars, flowVars, limitVars, agentVars, trainVars, wsVars, cpuVars>>
InTraining == part = "training" /\ UNCHANGED <<part, ringVars, flowVars, limitVars, agentVars, apiVars, wsVars, cpuVars>>
InSocket == part = "socket" /\ UNCHANGED <<part, ringVars, flowVars, limitVars, agentVars, apiVars, trainVars, cpuVars>>
InCpu == part = "cpu" /\ UNCHANGED <<part, ringVars, flowVars, limitVars, agentVars, apiVars, trainVars, wsVars>>

RingStep == InRing /\ Ring!Next
Produce(p) == InFlow /\ (Flow!ShouldSend(p) \/ Flow!Enqueue(p))
Drain(d) == InFlow /\ Flow!Dequeue(d)
LimiterStep == InLimiter /\ Limiter!Next
AgentStep == InAgent /\ Agent!Next
ApiStep == InApi /\ Api!Next
TrainingStep == InTraining /\ Training!Next
SocketStep == InSocket /\ Socket!Next
CpuStep == InCpu /\ Cpu!Next

Next ==
    \/ RingStep \/ LimiterStep \/ AgentStep \/ ApiStep \/ TrainingStep \/ SocketStep
    \/ CpuStep
    \/ \E p \in Producer : Produce(p)
    \/ \E d \in Drainer : Drain(d)

\* The fairness of the components, for the one that runs.
Fairness ==
    /\ \A p \in Producer : WF_vars(pc[p] # "idle" /\ Produce(p))
    /\ \A d \in Drainer : WF_vars(pc[d] # "idle" /\ Drain(d))
    /\ WF_vars(InAgent /\ Agent!Load) /\ WF_vars(InAgent /\ Agent!Wait)
    /\ WF_vars(InAgent /\ Agent!Reader) /\ WF_vars(InAgent /\ Agent!HealthCloses)
    /\ \A h \in Agent!Loop : /\ WF_vars(InAgent /\ Agent!Work(h))
                             /\ SF_vars(InAgent /\ Agent!LoopStops(h))
    /\ \A m \in Manager : WF_vars(InSocket /\ Socket!Browser(m))

Spec == Init /\ [][Next]_vars /\ Fairness

-----------------------------------------------------------------------------
(* The type invariants of the components.                                  *)
TypeOK ==
    /\ Ring!TypeOK /\ Flow!TypeOK /\ Limiter!TypeOK /\ Agent!TypeOK
    /\ Api!TypeOK /\ Training!TypeOK /\ Socket!TypeOK /\ Cpu!TypeOK

(* The owner of a key is told by the members of the ring (HashRing).       *)
OwnerIsSuccessor == Ring!OwnerIsSuccessor

(* Keys move only to a new shard or from a removed one (HashRing).         *)
KeysMoveMinimally == Ring!KeysMoveMinimally

(* The queue exceeds its maximum by the producers at most (Backpressure).  *)
QueueBounded == Flow!QueueBounded

(* A queue that stays short and is still dequeued from is not under        *)
(* backpressure for ever (Backpressure).                                   *)
PressureReleased == Flow!PressureReleased

(* A run of the agent ends after its context, or waits for an event only.  *)
CancelEndsRun == Agent!CancelEndsRun

(* Fetching page after page shows every row that stays (ApiQueries).       *)
PagingComplete == Api!PagingComplete

(* The stragglers of a round are the nodes that deviate most.              *)
StragglersAreWorst == Training!StragglersAreWorst

(* What the detector lists for InfiniBand alone shows in the score: of the *)
(* three signals that it has (TrainingMetrics).                            *)
DetectorsAgree == Training!DetectorsAgree

(* The requests admitted while a moment counts are bounded (RateLimit).    *)
MomentsBounded == Limiter!MomentsBounded

(* A manager has one connection or attempt at a time, so the dashboard has *)
(* at most one for each visit of a page (WSManager).                       *)
OneConnectionEach == Socket!OneConnectionEach

(* The page shown is connected again once the network is good (WSManager). *)
StaysConnected == Socket!StaysConnected

(* The times of a CPU's statistics are the times that passed (CpuStats).   *)
TimeAccounted == Cpu!TimeAccounted
=============================================================================
