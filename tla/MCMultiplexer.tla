----------------------------- MODULE MCMultiplexer -----------------------------
(***************************************************************************)
(* Two machines and two transactions, both from the first machine.         *)
(***************************************************************************)
EXTENDS Multiplexer
=============================================================================
