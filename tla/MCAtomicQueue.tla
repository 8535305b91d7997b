---------------------------- MODULE MCAtomicQueue ----------------------------
(***************************************************************************)
(* Two threads at either end, as a scheduler's queues have three at one,   *)
(* and a buffer of two slots that the second item already doubles.         *)
(***************************************************************************)
EXTENDS AtomicQueue

CONSTANTS p1, p2, q1, q2

MCPusher == {p1, p2}
MCPopper == {q1, q2}
=============================================================================
