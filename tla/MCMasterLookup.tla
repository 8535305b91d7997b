---------------------------- MODULE MCMasterLookup ----------------------------
(***************************************************************************)
(* Two replicas of two machines; a is in the partition of the first        *)
(* machine of each, b and c are in that of the second.                     *)
(***************************************************************************)
EXTENDS MasterLookup

CONSTANTS a, b, c

MCKey == {a, b, c}
MCPartition == [k \in MCKey |-> IF k = a THEN 0 ELSE 1]
MCKeySets == {{a, b}, {b, c}}
=============================================================================
