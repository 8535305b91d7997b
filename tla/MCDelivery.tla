------------------------------ MODULE MCDelivery ------------------------------
(***************************************************************************)
(* Three replicas, so that a vote arrives after the majority, and three    *)
(* batches, so that two of them follow the first sequence.                 *)
(***************************************************************************)
EXTENDS Delivery

CONSTANTS b1, b2, b3

MCTwoBatches == {b1, b2}
MCThreeBatches == {b1, b2, b3}

MCFollowed == {<<1, 0>>}
=============================================================================
