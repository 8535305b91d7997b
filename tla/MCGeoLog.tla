------------------------------- MODULE MCGeoLog -------------------------------
(***************************************************************************)
(* b1 and b2 are multi-replica batches of replica 0, for which replica 3   *)
(* generates batches; b3 is a batch of replica 3.  The two replicas are    *)
(* each other's closed_replica.                                            *)
(***************************************************************************)
EXTENDS GeoLog

CONSTANTS b1, b2, b3

MCBatch == {b1, b2, b3}

MCHome     == [b \in Batch |-> IF b \in {b1, b2} THEN 0 ELSE 3]
MCInvolved == [b \in Batch |-> IF b \in {b1, b2} THEN {0, 3} ELSE {}]
=============================================================================
