------------------------- MODULE MCGatewayLifecycle -------------------------
(***************************************************************************)
(* Instances of GatewayLifecycle: two gateway threads, so that one of an   *)
(* earlier start can meet that of the next, or the auto manager.           *)
(***************************************************************************)
EXTENDS GatewayLifecycle

CONSTANTS t1, t2

MCTasks == {t1, t2}

=============================================================================
