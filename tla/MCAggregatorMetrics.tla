------------------------ MODULE MCAggregatorMetrics ------------------------
(* Two nodes of one tenant and a node that has moved from it to another,   *)
(* with metrics of an earlier and of a later time.                         *)
EXTENDS AggregatorMetrics

MCNode == {"n1", "n2"}
MCTenant == {"t1", "t2"}
MCReports == { [node |-> "n1", tenant |-> "t1", at |-> 1],
               [node |-> "n2", tenant |-> "t1", at |-> 2],
               [node |-> "n2", tenant |-> "t2", at |-> 1] }
=============================================================================
