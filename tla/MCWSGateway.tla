---------------------------- MODULE MCWSGateway ----------------------------
(* One connection: connections share nothing but the map they are in.      *)
(* Its tenant_id may match neither tenant, either or both, and there is    *)
(* one more subject than messages need.                                    *)
EXTENDS WSGateway

MCClient == {"c"}
MCTenant == {"t1", "t2"}
MCSubjects == <<"flows", "training">>
=============================================================================
