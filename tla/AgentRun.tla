------------------------------ MODULE AgentRun ------------------------------
(***************************************************************************)
(* A run of the agent's process: the loading of the eBPF programs, the six *)
(* goroutines that Agent.Run starts in an error group, and their return.   *)
(* What the loops do at a tick is the matter of AgentFlows.                *)
(*                                                                         *)
(* readFlowEvents looks at the context between two reads of the ring       *)
(* buffer, but a read blocks until there is an event and nothing closes    *)
(* the reader.  The events come from TC programs that the agent loads and  *)
(* somebody else attaches.                                                 *)
(***************************************************************************)
EXTENDS Naturals

CONSTANT MaxEvents  \* bound: the events that the ring buffer holds

VARIABLES
    phase,      \* of the process
    flowEvents, \* is there a reader of the ring buffer of the flow tracker?
    links,      \* the programs attached to their tracepoints
    ctxDone,    \* the context of the error group, done by a signal or by an error
    groupErr,   \* has a goroutine returned an error?
    at,         \* where each goroutine is
    queued      \* the events in the ring buffer

vars == <<phase, flowEvents, links, ctxDone, groupErr, at, queued>>

Loop == {"pollFlowMaps", "pollCPUMaps", "flushLoop", "evictionLoop"}
Goroutine == Loop \cup {"readFlowEvents", "serveHealth"}
Program == {"handle_sched_switch", "handle_softirq_entry", "handle_softirq_exit"}

Init ==
    /\ phase = "flow_tracker" /\ flowEvents = FALSE /\ links = {}
    /\ ctxDone = FALSE /\ groupErr = FALSE /\ queued = 0
    /\ at = [h \in Goroutine |-> IF h \in Loop THEN "select"
                                 ELSE IF h = "serveHealth" THEN "serve" ELSE "check"]

-----------------------------------------------------------------------------
(* Loading.  The flow tracker is optional, the scheduler probes are not.   *)

\* The object, its verification, its map or the reader may be missing.
LoadFlowTracker ==
    /\ phase = "flow_tracker"
    /\ flowEvents' \in BOOLEAN
    /\ phase' = "cpu_sched"
    /\ UNCHANGED <<links, ctxDone, groupErr, at, queued>>

LoadCPUSched ==
    /\ phase = "cpu_sched"
    /\ phase' \in {"attach", "failed"}
    /\ UNCHANGED <<flowEvents, links, ctxDone, groupErr, at, queued>>

\* The programs are attached in the order of a Go map.
Attach(p) ==
    /\ phase = "attach"
    /\ p \notin links
    /\ links' = links \cup {p}
    /\ phase' = IF links' = Program THEN "run" ELSE "attach"
    /\ UNCHANGED <<flowEvents, ctxDone, groupErr, at, queued>>

AttachFails ==
    /\ phase = "attach"
    /\ phase' = "failed"
    /\ UNCHANGED <<flowEvents, links, ctxDone, groupErr, at, queued>>

-----------------------------------------------------------------------------
(* The goroutines.                                                         *)

Move(h, from, to) ==
    /\ phase = "run"
    /\ at[h] = from /\ at' = [at EXCEPT ![h] = to]
    /\ UNCHANGED <<phase, flowEvents, links>>

Tick(h) == Move(h, "select", "work") /\ UNCHANGED <<ctxDone, groupErr, queued>>

Work(h) == Move(h, "work", "select") /\ UNCHANGED <<ctxDone, groupErr, queued>>

LoopStops(h) ==
    /\ ctxDone
    /\ Move(h, "select", "returned") /\ UNCHANGED <<ctxDone, groupErr, queued>>

\* Mutant: the context is not looked at between two reads.
CheckContextNot ==
    /\ flowEvents
    /\ Move("readFlowEvents", "check", "read") /\ UNCHANGED <<ctxDone, groupErr, queued>>

\* Without a reader there is only the context to wait for.
CheckContext ==
    /\ flowEvents \/ ctxDone
    /\ Move("readFlowEvents", "check", IF ctxDone THEN "returned" ELSE "read")
    /\ UNCHANGED <<ctxDone, groupErr, queued>>

ReadEvent ==
    /\ queued > 0
    /\ queued' = queued - 1
    /\ Move("readFlowEvents", "read", "check") /\ UNCHANGED <<ctxDone, groupErr>>

ReadFails ==
    /\ Move("readFlowEvents", "read", IF ctxDone THEN "returned" ELSE "check")
    /\ UNCHANGED <<ctxDone, groupErr, queued>>

\* The server cannot listen, or stops for a reason of its own: the only error
\* that a goroutine returns.
HealthFails ==
    /\ Move("serveHealth", "serve", "returned")
    /\ groupErr' = TRUE /\ ctxDone' = TRUE /\ UNCHANGED queued

HealthCloses ==
    /\ ctxDone
    /\ Move("serveHealth", "serve", "returned") /\ UNCHANGED <<ctxDone, groupErr, queued>>

\* Run returns and main ends, by log.Fatal if there has been an error.
Wait ==
    /\ phase = "run"
    /\ \A h \in Goroutine : at[h] = "returned"
    /\ phase' = IF groupErr THEN "failed" ELSE "complete"
    /\ UNCHANGED <<flowEvents, links, ctxDone, groupErr, at, queued>>

-----------------------------------------------------------------------------
(* The environment.                                                        *)

\* Loading is not interrupted: a signal then is found when the loops start.
Signal ==
    /\ phase \notin {"failed", "complete"} /\ ~ctxDone
    /\ ctxDone' = TRUE
    /\ UNCHANGED <<phase, flowEvents, links, groupErr, at, queued>>

KernelEvent ==
    /\ flowEvents /\ phase \notin {"failed", "complete"} /\ queued < MaxEvents
    /\ queued' = queued + 1
    /\ UNCHANGED <<phase, flowEvents, links, ctxDone, groupErr, at>>

Load == LoadFlowTracker \/ LoadCPUSched \/ (\E p \in Program : Attach(p)) \/ AttachFails

Reader == CheckContext \/ ReadEvent

Next == \/ Load \/ Wait \/ Signal \/ KernelEvent
        \/ Reader \/ ReadFails \/ HealthFails \/ HealthCloses
        \/ \E h \in Loop : Tick(h) \/ Work(h) \/ LoopStops(h)

\* The work of a tick ends.  A select with a tick and a context that is done
\* takes either at random, so that it cannot miss the context for ever.
Fairness ==
    /\ WF_vars(Load) /\ WF_vars(Wait) /\ WF_vars(Reader) /\ WF_vars(HealthCloses)
    /\ \A h \in Loop : WF_vars(Work(h)) /\ SF_vars(LoopStops(h))

Spec == Init /\ [][Next]_vars /\ Fairness

-----------------------------------------------------------------------------
(* The type invariant.                                                     *)
TypeOK ==
    /\ phase \in {"flow_tracker", "cpu_sched", "attach", "run", "failed", "complete"}
    /\ links \subseteq Program
    /\ {flowEvents, ctxDone, groupErr} \subseteq BOOLEAN
    /\ queued \in 0 .. MaxEvents
    /\ at \in [Goroutine -> {"select", "work", "serve", "check", "read", "returned"}]
    /\ phase \in {"run", "complete"} => links = Program
    /\ phase = "complete" => ctxDone /\ ~groupErr

Ended == phase \in {"failed", "complete"}

WaitsForEvent ==
    /\ \A h \in Goroutine \ {"readFlowEvents"} : at[h] = "returned"
    /\ at["readFlowEvents"] = "read" /\ queued = 0

(* Once the context is done, by a signal or by the failure of the health   *)
(* server, the process ends, or it waits for nothing but a flow event; and *)
(* an event that is there, then or later, lets it end.  Without a reader   *)
(* it ends in any case.                                                    *)
CancelEndsRun ==
    /\ ctxDone ~> (Ended \/ WaitsForEvent)
    /\ (ctxDone /\ queued > 0) ~> Ended
    /\ (ctxDone /\ phase = "run" /\ ~flowEvents) ~> Ended
=============================================================================
