------------------------ MODULE ConversationLedger ------------------------
(***************************************************************************)
(* What the flow correlator promises, with no canonical key, no slots and  *)
(* no running sums: the latest observation of every directed flow, and a   *)
(* conversation that is forgotten as a whole once both of its directions   *)
(* have been quiet since the cutoff.                                       *)
(***************************************************************************)
EXTENDS Correlation

CONSTANTS Observed,       \* the flows that agents may report
          Cutoffs         \* the times that may be given to EvictStale

VARIABLE latest           \* the last observation of each directed flow

Init == latest = [k \in FlowKey |-> None]

Observe(f) == latest' = [latest EXCEPT ![f.key] = f]

Known(k) == {latest[k], latest[ReverseKey(k)]} \ {None}

Quiet(k, cutoff) == \A h \in Known(k) : h.last < cutoff

Forget(cutoff) ==
    latest' = [k \in FlowKey |-> IF Quiet(k, cutoff) THEN None ELSE latest[k]]

Next == \/ \E f \in Observed : Observe(f)
        \/ \E c \in Cutoffs : Forget(c)

Spec == Init /\ [][Next]_latest
=============================================================================
