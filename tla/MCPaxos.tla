------------------------------- MODULE MCPaxos -------------------------------
(***************************************************************************)
(* Three participants, as many as a LocalPaxos has, and three batches: a   *)
(* follower can lag a whole proposal behind, and a proposal can hold more  *)
(* than one batch.                                                         *)
(***************************************************************************)
EXTENDS Paxos

CONSTANTS b1, b2, b3

MCBatch == {b1, b2, b3}
=============================================================================
