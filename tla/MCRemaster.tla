------------------------------ MODULE MCRemaster ------------------------------
(***************************************************************************)
(* Two replicas and two records of different masters, the first of which   *)
(* is remastered because the clients of replica 1 use it.                  *)
(***************************************************************************)
EXTENDS Remaster

CONSTANTS a, b

MCReplica == {0, 1}
MCOneKey == {a}
MCTwoKeys == {a, b}

MCAnyRequests == [n \in 1..MaxTxns |-> MCReplica \X {{a}}]

\* The first one may make replica 0 give its key away; then a transaction can have both.
MCTwoKeyRequests ==
    <<{<<1, {a}>>}, {<<0, {a}>>, <<1, {a}>>}, {<<1, {a}>>, <<1, {a, b}>>}>>

\* The keys have different masters at first.
MCMaster == [k \in Key |-> IF k = a THEN 0 ELSE 1]
=============================================================================
