---------------------------- MODULE ConflictOrder ----------------------------
(***************************************************************************)
(* What deterministic locking promises the rest of Calvin: transactions    *)
(* are requested one after another, and of two conflicting ones the later  *)
(* starts only when the earlier is over.  Every replica requests in the    *)
(* same order, so every replica serialises its transactions alike.         *)
(***************************************************************************)
EXTENDS Naturals

CONSTANT NumTxns

\* Transactions are numbered in the order of their requests.
Txn == 1..NumTxns

VARIABLES
    conflicting,   \* pairs of transactions that conflict (never changes)
    calls,         \* transactions 1..calls are requested
    running,       \* transactions that have started and not ended
    over           \* transactions that ended or were withdrawn

vars == <<conflicting, calls, running, over>>

Requested == 1..calls

\* The requested transactions t has to let pass.
Predecessors(t) == {u \in Requested : u < t /\ <<u, t>> \in conflicting}

Request(t) ==
    /\ t = calls + 1
    /\ calls' = t
    /\ UNCHANGED <<conflicting, running, over>>

Start(t) ==
    /\ t \in Requested \ (running \cup over)
    /\ Predecessors(t) \subseteq over
    /\ running' = running \cup {t}
    /\ UNCHANGED <<conflicting, calls, over>>

Finish(t) ==
    /\ t \in running
    /\ running' = running \ {t}
    /\ over' = over \cup {t}
    /\ UNCHANGED <<conflicting, calls>>

Withdraw(t) ==
    /\ t \in Requested \ (running \cup over)
    /\ over' = over \cup {t}
    /\ UNCHANGED <<conflicting, calls, running>>

Init ==
    /\ conflicting \subseteq Txn \X Txn
    /\ calls = 0
    /\ running = {}
    /\ over = {}

Next == \E t \in Txn : Request(t) \/ Start(t) \/ Finish(t) \/ Withdraw(t)

Spec == Init /\ [][Next]_vars

\* A transaction that may start does, and one that runs ends.
FairSpec == Spec /\ \A t \in Txn : WF_vars(Start(t)) /\ WF_vars(Finish(t))
=============================================================================
