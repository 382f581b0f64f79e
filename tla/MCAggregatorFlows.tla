------------------------- MODULE MCAggregatorFlows -------------------------
(* One connection reported in both directions and a second one, by agents  *)
(* that report growing counters, with a channel of one batch.              *)
EXTENDS AggregatorFlows

MCIP == {1, 2}
MCPort == {1}
MCProtocol == {6}
MCFlowID == {"a"}
MCTenantID == {"t1"}
MCRDMAInfo == {}
MCTime == {0}

Obs(sip, dip, bytes) ==
    [key |-> [srcIP |-> sip, dstIP |-> dip, srcPort |-> 1, dstPort |-> 1,
              protocol |-> 6],
     id |-> "a", tenant |-> "t1", bytes |-> bytes, first |-> 0, last |-> 0,
     rdma |-> None]

MCBatches == { <<Obs(2, 1, 2), Obs(1, 2, 1)>>, <<Obs(1, 2, 3)>> }
=============================================================================
