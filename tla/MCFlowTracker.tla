---------------------------- MODULE MCFlowTracker ----------------------------
(* One RoCE flow and one that is not, on two CPUs.                         *)
EXTENDS FlowTracker

MCKey == {"tcp", "roce"}
MCRoCE == {"roce"}
MCCPU == {"c1", "c2"}
MCSlot == {"e1", "e2"}
=============================================================================
