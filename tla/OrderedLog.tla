------------------------------ MODULE OrderedLog ------------------------------
(***************************************************************************)
(* What the Paxos log promises the sequencer and the schedulers: submitted *)
(* batches are put, in the order of their submission and none of them      *)
(* twice, into one sequence of entries, and every participant passes those *)
(* entries on in that sequence.                                            *)
(***************************************************************************)
EXTENDS Naturals, Sequences, SequencesExt

CONSTANTS
    Participant,   \* those who keep the log
    Batch          \* the ids of the batches

VARIABLES
    submitted,     \* the batches, in the order of their submission
    taken,         \* how many of them the chosen entries hold
    chosen,        \* the entries decided on, each a sequence of batches
    ordered        \* ordered[p]: the entries p has passed on to its schedulers

vars == <<submitted, taken, chosen, ordered>>

Init ==
    /\ submitted = <<>>
    /\ taken = 0
    /\ chosen = <<>>
    /\ ordered = [p \in Participant |-> <<>>]

Submit(b) ==
    /\ submitted' = Append(submitted, b)
    /\ UNCHANGED <<taken, chosen, ordered>>

\* The next entry takes the next batches, one at least.
Choose ==
    /\ taken' \in (taken + 1)..Len(submitted)
    /\ chosen' = Append(chosen, SubSeq(submitted, taken + 1, taken'))
    /\ UNCHANGED <<submitted, ordered>>

\* One or more participants get their next entry.
PassOn(P) ==
    /\ \A p \in P : Len(ordered[p]) < Len(chosen)
    /\ ordered' = [p \in Participant |->
                     IF p \in P THEN Append(ordered[p], chosen[Len(ordered[p]) + 1]) ELSE ordered[p]]
    /\ UNCHANGED <<submitted, taken, chosen>>

Next ==
    \/ \E b \in Batch \ ToSet(submitted) : Submit(b)
    \/ Choose
    \/ \E P \in SUBSET Participant : PassOn(P)

Spec == Init /\ [][Next]_vars
=============================================================================
