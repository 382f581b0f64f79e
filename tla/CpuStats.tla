------------------------------ MODULE CpuStats ------------------------------
(***************************************************************************)
(* The CPU statistics of a node: the tracepoint programs of                *)
(* bpf/cpu_sched.c, which account the time between switches and the time   *)
(* in softirqs.                                                            *)
(*                                                                         *)
(* The programs of one CPU do not interleave with each other: softirqs do  *)
(* not nest, and no task is switched inside one.  Programs are attached    *)
(* one by one, in any order, so an exit may be seen whose entry was not:   *)
(* its duration then is taken from 0, the time of boot.                    *)
(***************************************************************************)
EXTENDS Integers

CONSTANTS CPU,
          Boot, MaxTime  \* bounds: the clock when the agent starts, and its end

\* The agent starts after the node.
ClockRuns == Boot \in Nat \ {0} /\ MaxTime \in Nat /\ Boot <= MaxTime

Program == {"handle_sched_switch", "handle_softirq_entry", "handle_softirq_exit"}

VARIABLES
    uptime, attached,
    running,      \* each CPU: "idle" or "task"
    softirq,      \* each CPU: the vector being served, and for how long
    cpuStats,     \* the maps, by CPU
    softirqStart,
    softirqStats,
    truth         \* history: each CPU's time since its first switch and in softirqs

vars == <<uptime, attached, running, softirq, cpuStats, softirqStart, softirqStats, truth>>

NoSoftirq == [vec |-> "none", time |-> 0]

Init ==
    /\ uptime = Boot /\ attached = {}
    /\ running = [c \in CPU |-> "idle"] /\ softirq = [c \in CPU |-> NoSoftirq]
    /\ cpuStats = << >> /\ softirqStats = << >>
    /\ softirqStart = [c \in CPU |-> 0]
    /\ truth = [c \in CPU |-> [task |-> 0, idle |-> 0, soft |-> 0, blind |-> FALSE]]

Put(f, c, v) == [x \in DOMAIN f \cup {c} |-> IF x = c THEN v ELSE f[x]]

Attach(p) ==
    /\ p \notin attached /\ attached' = attached \cup {p}
    /\ UNCHANGED <<uptime, running, softirq, cpuStats, softirqStart, softirqStats, truth>>

\* A tick of a CPU, counted where it runs a task and where it runs none.
Passed(v, what) == [task |-> v.task + IF what = "task" THEN 1 ELSE 0,
                    idle |-> v.idle + IF what = "idle" THEN 1 ELSE 0,
                    soft |-> v.soft, blind |-> v.blind]

Tick ==
    /\ uptime < MaxTime /\ uptime' = uptime + 1
    /\ truth' = [c \in CPU |-> IF c \in DOMAIN cpuStats THEN Passed(truth[c], running[c])
                               ELSE truth[c]]
    /\ softirq' = [c \in CPU |-> IF softirq[c] = NoSoftirq THEN NoSoftirq
                                 ELSE [vec |-> softirq[c].vec, time |-> softirq[c].time + 1]]
    /\ UNCHANGED <<attached, running, cpuStats, softirqStart, softirqStats>>

-----------------------------------------------------------------------------
(* handle_sched_switch, handle_softirq_entry and handle_softirq_exit.      *)

\* Mutant: the time of the switch is not kept.
ChargedAgain(v, field, t) == [v EXCEPT ![field] = @ + (t - v.last)]

\* The time since the last switch goes to the task that is left, or to none.
Charged(v, field, t) ==
    [task |-> v.task + IF field = "task" THEN t - v.last ELSE 0,
     idle |-> v.idle + IF field = "idle" THEN t - v.last ELSE 0, last |-> t]

SchedSwitch(c) ==
    /\ softirq[c].vec = "none"
    /\ \E next \in {"idle", "task"} : running' = [running EXCEPT ![c] = next]
    /\ cpuStats' =
          IF "handle_sched_switch" \notin attached THEN cpuStats
          ELSE Put(cpuStats, c, IF c \in DOMAIN cpuStats THEN Charged(cpuStats[c], running[c], uptime)
                                ELSE [task |-> 0, idle |-> 0, last |-> uptime])
    /\ UNCHANGED <<uptime, attached, softirq, softirqStart, softirqStats, truth>>

SoftirqEntry(c) ==
    /\ softirq[c].vec = "none"
    /\ \E v \in {"net", "other"} : softirq' = [softirq EXCEPT ![c] = [vec |-> v, time |-> 0]]
    /\ softirqStart' = IF "handle_softirq_entry" \in attached
                       THEN [softirqStart EXCEPT ![c] = uptime] ELSE softirqStart
    /\ UNCHANGED <<uptime, attached, running, cpuStats, softirqStats, truth>>

\* A softirq takes some time.  The first one's values make the element.
SoftirqExit(c) ==
    /\ softirq[c].time > 0
    /\ softirq' = [softirq EXCEPT ![c] = NoSoftirq]
    /\ IF "handle_softirq_exit" \notin attached THEN UNCHANGED <<softirqStats, truth>>
       ELSE LET delta == uptime - softirqStart[c]
                old == IF c \in DOMAIN softirqStats THEN softirqStats[c] ELSE [total |-> 0, net |-> 0]
            IN  /\ softirqStats' =
                      Put(softirqStats, c,
                          [total |-> old.total + delta,
                           net |-> old.net + IF softirq[c].vec = "net" THEN delta ELSE 0])
                /\ truth' = [truth EXCEPT ![c] =
                                [task |-> @.task, idle |-> @.idle, soft |-> @.soft + softirq[c].time,
                                 blind |-> @.blind \/ softirqStart[c] = 0]]
    /\ UNCHANGED <<uptime, attached, running, cpuStats, softirqStart>>

Next == \/ Tick \/ \E p \in Program : Attach(p)
        \/ \E c \in CPU : SchedSwitch(c) \/ SoftirqEntry(c) \/ SoftirqExit(c)

Spec == Init /\ [][Next]_vars

-----------------------------------------------------------------------------
(* The type invariant.                                                     *)
TypeOK ==
    /\ uptime \in Boot .. MaxTime /\ attached \subseteq Program
    /\ running \in [CPU -> {"idle", "task"}]
    /\ softirq \in [CPU -> [vec : {"none", "net", "other"}, time : 0 .. MaxTime]]
    /\ DOMAIN cpuStats \subseteq CPU /\ DOMAIN softirqStats \subseteq CPU
    /\ {softirqStart[c] : c \in CPU} \subseteq 0 .. uptime
    /\ \A c \in DOMAIN softirqStats : softirqStats[c].net <= softirqStats[c].total

\* The counters of a CPU and the time since its last switch are the time since
\* its first one, told apart by what it was running.
SwitchesAccounted ==
    \A c \in DOMAIN cpuStats :
        LET v == Charged(cpuStats[c], running[c], uptime)
        IN  v.task = truth[c].task /\ v.idle = truth[c].idle

\* The softirq time of a CPU is exact, unless an exit was seen there without its
\* entry, after which it is too long.
SoftirqsAccounted ==
    \A c \in DOMAIN softirqStats :
        IF truth[c].blind THEN softirqStats[c].total > truth[c].soft
        ELSE softirqStats[c].total = truth[c].soft

(* The statistics of a node are right however switches, softirqs and the   *)
(* attaching of the programs interleave, except for softirqs under way     *)
(* when the programs are attached.                                         *)
TimeAccounted == SwitchesAccounted /\ SoftirqsAccounted
=============================================================================
