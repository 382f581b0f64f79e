---------------------------- MODULE MCComponents ----------------------------
(* A small instance of each of the components.                             *)
EXTENDS Components

\* Two virtual nodes of different shards coincide at 5.
MCHashes == [a |-> <<1, 5>>, b |-> <<3, 5>>, c |-> <<7, 2>>]
MCShards == DOMAIN MCHashes
MCKeys == {0, 2, 3, 5, 6, 9}
MCKeyHashes == [k \in MCKeys |-> k]

MCProducers == {"p1", "p2"}
MCDrainers == {"d1"}

MCCallers == {"c1", "c2"}

RowKind(t, n, p, b) == [tenant |-> t, node |-> n, protocol |-> p, bytes |-> b]
Parameters(n, from, to, p, l, s) ==
    [node |-> n, startTime |-> from, endTime |-> to, protocol |-> p,
     limit |-> l, sortBy |-> s, sortOrder |-> "asc"]
MCKinds == {RowKind("a", "n1", 6, 1), RowKind("a", "n2", 17, 2), RowKind("b", "n1", 6, 2)}
MCTokens == {"a", NoTenant}
MCRequests ==
    {Parameters("", 0, 0, Unparsable, 1, "bytes"),
     Parameters("", 0, 1, 17, 4, "bogus"),
     Parameters("n1", 2, 0, 0, 1, "timestamp")}

Metrics(ib, util, kernel, user) ==
    [ib |-> ib, util |-> util, kernel |-> kernel, softirq |-> kernel, user |-> user, active |-> 60]
CorrelatedFlow(i, n, retransmits, bytes) ==
    [id |-> i, node |-> n, forward |-> TRUE, rdma |-> TRUE,
     retransmits |-> retransmits, bytes |-> bytes]
MCNodes == {"n1", "n2", "n3", "n4"}
MCSamples ==
    {Metrics(TRUE, 20, 10, 0), Metrics(TRUE, 50, 10, 0), Metrics(TRUE, 250, 10, 0),
     Metrics(TRUE, 50, 60, 0), Metrics(FALSE, 0, 10, 20)}
MCFlows ==
    {{}, {CorrelatedFlow(1, "n1", 1, 3), CorrelatedFlow(2, "n2", 5, 1),
          CorrelatedFlow(3, "n3", 5, 1)}}

MCManagers == {"m1", "m2"}
MCSockets == 1 .. 2

MCCPUs == {"cpu0"}
=============================================================================
