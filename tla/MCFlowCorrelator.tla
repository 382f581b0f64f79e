-------------------------- MODULE MCFlowCorrelator --------------------------
(* The correlator on two hosts with two ports: a connection between them,  *)
(* one whose lower port is on the higher host, and one of a host with      *)
(* itself; both directions of each, reported more than once.               *)
EXTENDS FlowCorrelator

MCIP == {1, 2}
MCPort == {1, 2}
MCProtocol == {6}
MCFlowID == {"a", "b"}
MCRDMAInfo == {"qp1", "qp2"}
MCTime == 0 .. 3
MCCutoffs == {1, 3}

Key(sip, sport, dip, dport) ==
    [srcIP |-> sip, dstIP |-> dip, srcPort |-> sport, dstPort |-> dport,
     protocol |-> 6]

Obs(k, id, bytes, first, last, rdma) ==
    [key |-> k, id |-> id, tenant |-> "t1", bytes |-> bytes,
     first |-> first, last |-> last, rdma |-> rdma]

OneTenant == {"t1"}

\* The lower host uses the higher port, so the hosts and the ports sort differently.
MCObserved ==
    LET out == Key(1, 2, 2, 1)
        back == Key(2, 1, 1, 2)
        loop == Key(1, 1, 1, 2)
        self == Key(2, 2, 2, 2)
    IN  { Obs(out, "a", 1, 1, 1, None), Obs(out, "b", 2, 0, 2, "qp1"),
          Obs(out, "a", 3, 1, 3, "qp2"),
          Obs(back, "b", 5, 0, 0, "qp1"), Obs(back, "a", 7, 2, 2, None),
          Obs(loop, "a", 1, 1, 2, None), Obs(ReverseKey(loop), "b", 2, 0, 1, None),
          Obs(self, "a", 4, 2, 3, "qp2") }

-----------------------------------------------------------------------------
(* Two tenants whose nodes report the two ends of one connection.          *)
TwoTenants == {"t1", "t2"}
MCTwoTenantsObserved ==
    { Obs(Key(1, 2, 2, 1), "a", 1, 1, 1, None),
      [Obs(Key(2, 1, 1, 2), "b", 2, 1, 1, None) EXCEPT !.tenant = "t2"] }
=============================================================================
